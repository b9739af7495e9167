---------------------------- MODULE ReviewProofs ----------------------------
(***************************************************************************)
(* Proofs about the review service, for every set of containers, policies  *)
(* and violations and every limit: type correctness, that Flush, requests  *)
(* and crashes lose nothing between cache and store, that no container or  *)
(* selection gets a second case beside a live one, that the engine is      *)
(* never behind, and that the store implements the life of a case.         *)
(***************************************************************************)
EXTENDS Review, FiniteSetTheorems, WellFoundedInduction, TLAPS

-----------------------------------------------------------------------------
(* The inductive invariant.                                                *)

\* The violations of a session or case: finitely many, within the limit.
Few(v, n) == IsFiniteSet(Violated(v)) /\ Cardinality(Violated(v)) <= n

GoodSession == {x \in Session : Few(x.viol, MaxViolations)}

\* What a case is about, by its source.
Subjects(source) ==
  CASE source = "install" -> Sandboxes
    [] source = "runtime" -> Runtimes
    [] source = "scan" -> Selections

GoodCase == {c \in Case : c.of \in Subjects(c.source) /\ Few(c.evidence, MaxEvidence)}

(***************************************************************************)
(* The sessions: what Flush carries is current unless it is marked again.  *)
(***************************************************************************)
SessionsInv ==
  /\ sessions \in [Sandboxes -> GoodSession \cup {None}]
  /\ storedSessions \in [Sandboxes -> GoodSession \cup {None}]
  /\ dirtyInstalls \subseteq Used(sessions)
  /\ flushing.active =>
       /\ flushing.sessions \in [DOMAIN flushing.sessions -> GoodSession]
       /\ DOMAIN flushing.sessions \subseteq Used(sessions)
       /\ \A s \in DOMAIN flushing.sessions : s \in dirtyInstalls \/ flushing.sessions[s] = sessions[s]
  /\ \A s \in Sandboxes : s \in dirtyInstalls \/ InFlight("sessions", s) \/ sessions[s] = storedSessions[s]

\* What a request alone changes of a case, and at once in the store.
SameLife(a, b) == a.source = b.source /\ a.of = b.of /\ a.state = b.state /\ a.proposal = b.proposal

(***************************************************************************)
(* The cases: the same, and what the store or Flush has of a case is of    *)
(* its present stage of life; a case not yet stored is not yet judged.     *)
(***************************************************************************)
CasesInv ==
  /\ cases \in [CaseIds -> GoodCase \cup {None}]
  /\ storedCases \in [CaseIds -> GoodCase \cup {None}]
  /\ dirtyCases \subseteq Used(cases)
  /\ flushing.active =>
       /\ flushing.cases \in [DOMAIN flushing.cases -> GoodCase]
       /\ DOMAIN flushing.cases \subseteq Used(cases)
       /\ \A i \in DOMAIN flushing.cases :
            /\ i \in dirtyCases \/ flushing.cases[i] = cases[i]
            /\ SameLife(flushing.cases[i], cases[i])
  /\ \A i \in CaseIds : i \in dirtyCases \/ InFlight("cases", i) \/ cases[i] = storedCases[i]
  /\ \A i \in Used(storedCases) : cases[i] # None /\ SameLife(storedCases[i], cases[i])
  /\ \A i \in Used(cases) : storedCases[i] = None => cases[i].state = "open" /\ cases[i].proposal = NoId

(***************************************************************************)
(* The proposals: the case of a draft is judged and waits for it.          *)
(***************************************************************************)
ProposalsInv ==
  /\ proposals \in [ProposalIds -> Proposal \cup {None}] /\ storedProposals = proposals
  /\ \A p \in Used(proposals) : proposals[p].state = "draft" =>
       LET c == storedCases[proposals[p].case]
       IN c # None /\ c.state = "decided" /\ c.proposal = p

RulesInv ==
  /\ blocklist \in [Values -> CaseIds \cup {NoId}] /\ storedBlocklist = blocklist
  /\ policies \in [Rules -> Policy]
  /\ engine \in [policies : [Rules -> Policy], hosts : SUBSET Hosts] /\ stale \in BOOLEAN
  /\ EngineCurrent

PipeInv ==
  /\ starting \in Containers \cup {NoContainer}
  /\ queue \in Seq(Verdict) /\ Len(queue) <= PersistQueue
  /\ audit \in Seq(Verdict) /\ Len(audit) <= MaxAudit

RequestsInv ==
  /\ callers \in [Callers -> CaseIds \cup {NoId}] /\ refused \subseteq Callers
  /\ writes \in 0 .. MaxWrites /\ crashes \in 0 .. MaxCrashes

IInv ==
  /\ flushing.active \in BOOLEAN
  /\ SessionsInv /\ CasesInv /\ ProposalsInv /\ RulesInv /\ PipeInv /\ RequestsInv /\ OneCaseAtATime

LEMMA LargestExists ==
  ASSUME NEW n \in Nat, NEW S, S \subseteq 1 .. n, S # {}
  PROVE  \E i \in S : \A j \in S : j <= i
<1> DEFINE T == {n - i : i \in S}
<1>1. T \subseteq Nat /\ T # {}
  <2>1. ASSUME NEW i \in S PROVE n - i \in Nat
    <3>1. i \in 1 .. n
      OBVIOUS
    <3>2. QED
      BY <3>1
  <2>2. QED
    BY <2>1
<1> HIDE DEF T
<1>2. PICK x \in T : \A y \in T : ~(<<y, x>> \in OpToRel(<, Nat))
  BY <1>1, NatLessThanWellFounded, WFMin
<1>3. \A y \in T : ~(y < x)
  BY <1>1, <1>2 DEF OpToRel
<1>4. PICK i \in S : x = n - i
  BY DEF T
<1>5. ASSUME NEW j \in S PROVE j <= i
  <2>1. n - j \in T
    BY DEF T
  <2>2. ~(n - j < n - i)
    BY <1>3, <1>4, <2>1
  <2>3. i \in Int /\ j \in Int
    OBVIOUS
  <2>4. QED
    BY <2>2, <2>3
<1>6. QED
  BY <1>5

\* The newest case of some is one of them (observeRuntime, FromScan).
LEMMA NewestIsMember ==
  ASSUME NEW n \in Nat, NEW S, S \subseteq 1 .. n, S # {}
  PROVE  Newest(S) \in S
BY LargestExists DEF Newest

\* A new number is not in use (nextID).
LEMMA NextIdIsFree ==
  ASSUME NEW n \in Nat, NEW m, DOMAIN m = 1 .. n, NextId(m) \in 1 .. n
  PROVE  m[NextId(m)] = None
<1>1. CASE Used(m) = {}
  BY <1>1 DEF NextId, Used
<1>2. CASE Used(m) # {}
  <2> DEFINE top == CHOOSE i \in Used(m) : \A j \in Used(m) : j <= i
  <2>1. Used(m) \subseteq 1 .. n
    BY DEF Used
  <2>2. top \in Used(m) /\ \A j \in Used(m) : j <= top
    BY <1>2, <2>1, LargestExists
  <2>3. NextId(m) = 1 + top
    BY <1>2 DEF NextId
  <2> HIDE DEF top
  <2>4. NextId(m) \notin Used(m)
    BY <2>1, <2>2, <2>3
  <2>5. QED
    BY <2>4 DEF Used
<1>3. QED
  BY <1>1, <1>2

-----------------------------------------------------------------------------
(* The operators the model is built from.                                  *)

(***************************************************************************)
(* Sessions and cases are not the absent value.                            *)
(***************************************************************************)
LEMMA NothingIsNone == None \notin Session /\ None \notin Case /\ None \notin Proposal
<1>1. DOMAIN None = {"none"}
  BY DEF None
<1>2. ASSUME NEW x \in Session PROVE x # None
  <2>1. "viol" \in DOMAIN x
    BY DEF Session
  <2>2. QED
    BY <1>1, <2>1
<1>3. ASSUME NEW x \in Case PROVE x # None
  <2>1. "of" \in DOMAIN x
    BY DEF Case
  <2>2. QED
    BY <1>1, <2>1
<1>4. ASSUME NEW x \in Proposal PROVE x # None
  <2>1. "case" \in DOMAIN x
    BY DEF Proposal
  <2>2. QED
    BY <1>1, <2>1
<1>5. QED
  BY <1>2, <1>3, <1>4

(***************************************************************************)
(* Raising a violation keeps the violations few (addViolation).            *)
(***************************************************************************)
LEMMA RaiseKeepsFew ==
  ASSUME NEW n \in Nat, NEW v \in [Details -> Levels], Few(v, n), NEW d \in Details, NEW l \in Levels
  PROVE  Raise(v, d, l, n) \in [Details -> Levels] /\ Few(Raise(v, d, l, n), n)
<1> DEFINE w == [v EXCEPT ![d] = l]
<1>1. w \in [Details -> Levels] /\ w[d] = l /\ \A e \in Details : e # d => w[e] = v[e]
  OBVIOUS
<1>2. Cardinality(Violated(v)) \in Nat
  BY FS_CardinalityType DEF Few
<1>3. CASE l > v[d] /\ v[d] # Normal
  <2>1. v[d] \in 0 .. 3 /\ l \in 0 .. 3
    BY DEF Levels, Normal, Killed
  <2>2. l # Normal
    BY <1>3, <2>1 DEF Normal
  <2>3. Violated(w) = Violated(v)
    BY <1>1, <1>3, <2>2 DEF Violated
  <2>4. QED
    BY <1>1, <1>3, <2>3 DEF Raise, Few
<1>4. CASE v[d] = Normal /\ Cardinality(Violated(v)) < n
  <2>1. Violated(w) = Violated(v) \/ Violated(w) = Violated(v) \cup {d}
    BY <1>1, <1>4 DEF Violated
  <2>2. d \notin Violated(v)
    BY <1>4 DEF Violated
  <2>3. /\ IsFiniteSet(Violated(v) \cup {d})
        /\ Cardinality(Violated(v) \cup {d}) = Cardinality(Violated(v)) + 1
    <3>1. IsFiniteSet(Violated(v))
      BY DEF Few
    <3>2. QED
      BY <2>2, <3>1, FS_AddElement
  <2>4. Few(w, n)
    <3> DEFINE V == Violated(v)
    <3> DEFINE W == Violated(w)
    <3>1. /\ IsFiniteSet(V) /\ Cardinality(V) <= n /\ Cardinality(V) \in Nat /\ Cardinality(V) < n
          /\ IsFiniteSet(V \cup {d}) /\ Cardinality(V \cup {d}) = Cardinality(V) + 1
          /\ W = V \/ W = V \cup {d}
      BY <1>2, <1>4, <2>1, <2>3 DEF Few
    <3> HIDE DEF V, W
    <3>2. IsFiniteSet(W) /\ Cardinality(W) <= n
      BY <3>1
    <3>3. QED
      BY <3>2 DEF Few, W
  <2>5. QED
    BY <1>1, <2>4 DEF Raise
<1>5. CASE ~(l > v[d] /\ (v[d] # Normal \/ Cardinality(Violated(v)) < n))
  BY <1>5 DEF Raise
<1>6. QED
  BY <1>3, <1>4, <1>5

\* No violations are few violations.
LEMMA NothingIsFew == ASSUME NEW n \in Nat PROVE NoViolations \in [Details -> Levels] /\ Few(NoViolations, n)
<1>1. Violated(NoViolations) = {}
  BY DEF Violated, NoViolations
<1>2. QED
  BY <1>1, FS_EmptySet DEF Few, NoViolations, Levels, Normal, Killed

(***************************************************************************)
(* What the service does to a session keeps it good.                       *)
(***************************************************************************)
LEMMA GoodSessions ==
  ASSUME ReviewAssumption
  PROVE  /\ NewSession \in GoodSession
         /\ \A x \in GoodSession :
              /\ \A note \in Notes : [x EXCEPT !.notes = @ \cup {note}] \in GoodSession
              /\ [x EXCEPT !.finished = TRUE] \in GoodSession
              /\ \A row \in 0 .. MaxAudit : [x EXCEPT !.iso = row] \in GoodSession
              /\ \A d \in Details, l \in LevelsSeen, i \in CaseIds :
                   [x EXCEPT !.notes = @ \cup {"active"}, !.viol = Raise(@, d, l, MaxViolations), !.case = i]
                     \in GoodSession
<1>1. NewSession \in GoodSession
  <2>1. 0 \in 0 .. MaxAudit /\ NoId \in CaseIds \cup {NoId} /\ MaxViolations \in Nat
    BY DEF ReviewAssumption
  <2>2. QED
    BY <2>1, NothingIsFew DEF NewSession, GoodSession, Session, Notes
<1>2. ASSUME NEW x \in GoodSession, NEW note \in Notes
      PROVE  [x EXCEPT !.notes = @ \cup {note}] \in GoodSession
  BY DEF GoodSession, Session
<1>3. ASSUME NEW x \in GoodSession
      PROVE  [x EXCEPT !.finished = TRUE] \in GoodSession
  BY DEF GoodSession, Session
<1>4. ASSUME NEW x \in GoodSession, NEW row \in 0 .. MaxAudit
      PROVE  [x EXCEPT !.iso = row] \in GoodSession
  BY DEF GoodSession, Session
<1>5. ASSUME NEW x \in GoodSession, NEW d \in Details, NEW l \in LevelsSeen, NEW i \in CaseIds
      PROVE  [x EXCEPT !.notes = @ \cup {"active"}, !.viol = Raise(@, d, l, MaxViolations), !.case = i]
               \in GoodSession
  <2>1. /\ x \in Session /\ x.viol \in [Details -> Levels] /\ Few(x.viol, MaxViolations)
        /\ l \in Levels /\ MaxViolations \in Nat /\ "active" \in Notes
    BY DEF GoodSession, Session, ReviewAssumption, Levels, Alert, Normal, Killed, Notes
  <2> DEFINE v == Raise(x.viol, d, l, MaxViolations)
  <2>2. v \in [Details -> Levels] /\ Few(v, MaxViolations)
    BY <2>1, RaiseKeepsFew
  <2> HIDE DEF v
  <2> DEFINE y == [x EXCEPT !.notes = @ \cup {"active"}, !.viol = v, !.case = i]
  <2>3. y \in Session /\ y.viol = v
    BY <2>1, <2>2 DEF Session
  <2>4. y \in GoodSession
    BY <2>2, <2>3 DEF GoodSession
  <2>5. QED
    BY <2>4 DEF v
<1>6. QED
  BY <1>1, <1>2, <1>3, <1>4, <1>5

(***************************************************************************)
(* What the service does to a case keeps it good; evidence and isolation   *)
(* leave its life alone (addToCase, AuditSaved, Decide, Apply, Discard).   *)
(***************************************************************************)
LEMMA GoodNewCase ==
  ASSUME ReviewAssumption, NEW source \in Sources, NEW of \in Subjects(source)
  PROVE  /\ NewCase(source, of) \in GoodCase
         /\ NewCase(source, of).source = source /\ NewCase(source, of).of = of
         /\ NewCase(source, of).state = "open" /\ NewCase(source, of).proposal = NoId
<1>1. of \in Containers \cup Selections
  BY DEF Sources, Subjects, Containers
<1>2. 0 \in 0 .. MaxAudit /\ NoId \in ProposalIds \cup {NoId} /\ MaxEvidence \in Nat
  BY DEF ReviewAssumption
<1>3. QED
  BY <1>1, <1>2, NothingIsFew DEF NewCase, GoodCase, Case

\* Evidence keeps a case good and leaves its life alone (addToCase).
LEMMA GoodEvidence ==
  ASSUME ReviewAssumption, NEW c \in GoodCase, NEW d \in Details, NEW l \in LevelsSeen
  PROVE  WithEvidence(c, d, l) \in GoodCase /\ SameLife(WithEvidence(c, d, l), c)
<1>1. /\ c \in Case /\ c.evidence \in [Details -> Levels] /\ Few(c.evidence, MaxEvidence)
      /\ l \in Levels /\ MaxEvidence \in Nat /\ c.of \in Subjects(c.source)
  BY DEF GoodCase, Case, ReviewAssumption, Levels, Alert, Normal, Killed
<1> DEFINE v == Raise(c.evidence, d, l, MaxEvidence)
<1>2. v \in [Details -> Levels] /\ Few(v, MaxEvidence)
  BY <1>1, RaiseKeepsFew
<1>3. WithEvidence(c, d, l) = [c EXCEPT !.evidence = v]
  BY <1>1 DEF WithEvidence, Case
<1> HIDE DEF v
<1>4. /\ [c EXCEPT !.evidence = v] \in Case /\ [c EXCEPT !.evidence = v].evidence = v
      /\ SameLife([c EXCEPT !.evidence = v], c)
  BY <1>1, <1>2 DEF Case, SameLife
<1>5. QED
  BY <1>1, <1>2, <1>3, <1>4 DEF GoodCase, SameLife

\* So does the isolation (AuditSaved).
LEMMA GoodIsolation ==
  ASSUME NEW c \in GoodCase, NEW row \in 0 .. MaxAudit
  PROVE  [c EXCEPT !.iso = row] \in GoodCase /\ SameLife([c EXCEPT !.iso = row], c)
BY DEF GoodCase, Case, SameLife

\* A closed case is a good case (Apply, Discard).
LEMMA GoodClosing ==
  ASSUME NEW c \in GoodCase, NEW x, x = [c EXCEPT !.state = "closed"]
  PROVE  x \in GoodCase /\ x.source = c.source /\ x.of = c.of /\ x.state = "closed" /\ x.proposal = c.proposal
BY DEF GoodCase, Case

-----------------------------------------------------------------------------
(* How a step may change the sessions.                                     *)

\* A step that leaves sessions and Flush alone keeps their part of the invariant.
LEMMA SessionsStay ==
  ASSUME SessionsInv, UNCHANGED <<sessions, storedSessions, dirtyInstalls, flushing>>
  PROVE  SessionsInv'
BY DEF SessionsInv, Used, InFlight

(***************************************************************************)
(* A change that is only in the cache is marked (observed, AuditSaved).    *)
(***************************************************************************)
LEMMA SessionMarked ==
  ASSUME SessionsInv, NEW s \in Sandboxes, NEW x \in GoodSession,
         sessions' = [sessions EXCEPT ![s] = x], dirtyInstalls' = dirtyInstalls \cup {s},
         UNCHANGED <<storedSessions, flushing>>
  PROVE  SessionsInv'
<1>1. x # None
  BY NothingIsNone DEF GoodSession
<1>2. /\ sessions' \in [Sandboxes -> GoodSession \cup {None}]
      /\ sessions'[s] = x /\ \A t \in Sandboxes : t # s => sessions'[t] = sessions[t]
      /\ Used(sessions) \subseteq Used(sessions') /\ s \in Used(sessions')
  BY <1>1 DEF SessionsInv, Used
<1>3. dirtyInstalls' \subseteq Used(sessions')
  BY <1>2 DEF SessionsInv
<1>4. flushing'.active =>
        /\ flushing'.sessions \in [DOMAIN flushing'.sessions -> GoodSession]
        /\ DOMAIN flushing'.sessions \subseteq Used(sessions')
        /\ \A t \in DOMAIN flushing'.sessions : t \in dirtyInstalls' \/ flushing'.sessions[t] = sessions'[t]
  <2>1. Used(sessions) \subseteq Sandboxes
    BY DEF Used, SessionsInv
  <2>2. QED
    BY <1>2, <2>1 DEF SessionsInv
<1>5. \A t \in Sandboxes : t \in dirtyInstalls' \/ InFlight("sessions", t)' \/ sessions'[t] = storedSessions'[t]
  BY <1>2 DEF SessionsInv, InFlight
<1>6. QED
  BY <1>2, <1>3, <1>4, <1>5 DEF SessionsInv

(***************************************************************************)
(* A request commits a session while Flush is not at a commit.             *)
(***************************************************************************)
LEMMA SessionCommitted ==
  ASSUME SessionsInv, WriteLocked, NEW s \in Sandboxes, NEW x \in GoodSession, CommitSession(s, x),
         flushing' = flushing
  PROVE  SessionsInv'
<1>1. x # None
  BY NothingIsNone DEF GoodSession
<1>2. /\ sessions' \in [Sandboxes -> GoodSession \cup {None}]
      /\ storedSessions' \in [Sandboxes -> GoodSession \cup {None}]
      /\ sessions'[s] = x /\ \A t \in Sandboxes : t # s => sessions'[t] = sessions[t]
      /\ storedSessions'[s] = x /\ \A t \in Sandboxes : t # s => storedSessions'[t] = storedSessions[t]
      /\ Used(sessions) \subseteq Used(sessions')
  BY <1>1 DEF SessionsInv, Used, CommitSession
<1>3. QED
  BY <1>2 DEF SessionsInv, CommitSession, WriteLocked, InFlight

-----------------------------------------------------------------------------
(* How a step may change the cases.                                        *)

\* The same of cases.
LEMMA CasesStay ==
  ASSUME CasesInv, OneCaseAtATime, UNCHANGED <<cases, storedCases, dirtyCases, flushing>>
  PROVE  CasesInv' /\ OneCaseAtATime'
<1>1. CasesInv'
  BY DEF CasesInv, Used, InFlight, SameLife
<1>2. OneCaseAtATime'
  BY DEF OneCaseAtATime, Used
<1>3. QED
  BY <1>1, <1>2

\* No case is in the way of a new one.
Unrivalled(source, of) ==
  \A j \in Used(cases) :
    ~ /\ cases[j].source = source /\ cases[j].of = of
      /\ source = "scan" \/ (source = "runtime" /\ cases[j].state # "closed")

(***************************************************************************)
(* One case changes in the cache: how it may, for there to be one case.    *)
(***************************************************************************)
LEMMA OneCaseStays ==
  ASSUME CasesInv, OneCaseAtATime, NEW i \in CaseIds, NEW c, c # None,
         cases' = [cases EXCEPT ![i] = c],
         \/ cases[i] = None /\ Unrivalled(c.source, c.of)
         \/ /\ cases[i] # None /\ c.source = cases[i].source /\ c.of = cases[i].of
            /\ c.state = "closed" \/ cases[i].state # "closed"
  PROVE  OneCaseAtATime'
<1>1. /\ DOMAIN cases = CaseIds /\ DOMAIN cases' = CaseIds
      /\ cases'[i] = c /\ \A j \in CaseIds : j # i => cases'[j] = cases[j]
  BY DEF CasesInv
<1>2. ASSUME NEW j \in Used(cases'), NEW k \in Used(cases'),
             cases'[j].of = cases'[k].of, cases'[j].source = cases'[k].source,
             \/ cases'[j].source = "runtime" /\ "closed" \notin {cases'[j].state, cases'[k].state}
             \/ cases'[j].source = "scan"
      PROVE  j = k
  <2>1. j \in CaseIds /\ k \in CaseIds /\ cases'[j] # None /\ cases'[k] # None
    BY <1>1 DEF Used
  <2>2. CASE j # i /\ k # i
    BY <1>1, <1>2, <2>1, <2>2 DEF OneCaseAtATime, Used
  <2>3. CASE cases[i] = None /\ Unrivalled(c.source, c.of) /\ (j = i \/ k = i)
    BY <1>1, <1>2, <2>1, <2>3 DEF Unrivalled, Used
  <2>4. CASE cases[i] # None /\ c.source = cases[i].source /\ c.of = cases[i].of
             /\ (c.state = "closed" \/ cases[i].state # "closed")
    BY <1>1, <1>2, <2>1, <2>4 DEF OneCaseAtATime, Used
  <2>5. QED
    BY <2>2, <2>3, <2>4
<1>3. QED
  BY <1>2 DEF OneCaseAtATime

(***************************************************************************)
(* A change that is only in the cache is marked: evidence or an isolation, *)
(* or a new case (addToCase, AuditSaved, newCase).                         *)
(***************************************************************************)
LEMMA CaseMarked ==
  ASSUME CasesInv, OneCaseAtATime, NEW i \in CaseIds, NEW c \in GoodCase,
         cases' = [cases EXCEPT ![i] = c], dirtyCases' = dirtyCases \cup {i},
         UNCHANGED <<storedCases, flushing>>,
         \/ cases[i] # None /\ SameLife(c, cases[i])
         \/ cases[i] = None /\ c.state = "open" /\ c.proposal = NoId /\ Unrivalled(c.source, c.of)
  PROVE  CasesInv' /\ OneCaseAtATime'
<1>1. c # None
  BY NothingIsNone DEF GoodCase
<1>2. /\ cases' \in [CaseIds -> GoodCase \cup {None}]
      /\ cases'[i] = c /\ \A j \in CaseIds : j # i => cases'[j] = cases[j]
      /\ Used(cases) \subseteq Used(cases') /\ i \in Used(cases')
      /\ Used(cases) \subseteq CaseIds /\ Used(storedCases) \subseteq CaseIds
      /\ \A j \in Used(cases') : j = i \/ j \in Used(cases)
      /\ \A j \in CaseIds : j \in Used(cases) <=> cases[j] # None
  BY <1>1 DEF CasesInv, Used
<1>3. ASSUME flushing'.active
      PROVE  /\ flushing'.cases \in [DOMAIN flushing'.cases -> GoodCase]
             /\ DOMAIN flushing'.cases \subseteq Used(cases')
             /\ \A j \in DOMAIN flushing'.cases :
                  /\ j \in dirtyCases' \/ flushing'.cases[j] = cases'[j]
                  /\ SameLife(flushing'.cases[j], cases'[j])
  <2>1. /\ flushing'.cases \in [DOMAIN flushing'.cases -> GoodCase]
        /\ DOMAIN flushing'.cases \subseteq Used(cases)
    BY <1>3 DEF CasesInv
  <2>2. ASSUME NEW j \in DOMAIN flushing'.cases
        PROVE  /\ j \in dirtyCases' \/ flushing'.cases[j] = cases'[j]
               /\ SameLife(flushing'.cases[j], cases'[j])
    <3>1. /\ j \in dirtyCases \/ flushing.cases[j] = cases[j]
          /\ SameLife(flushing.cases[j], cases[j]) /\ j \in Used(cases)
      BY <1>3, <2>1 DEF CasesInv
    <3>2. j = i => SameLife(c, cases[j])
      BY <1>2, <3>1
    <3>3. QED
      BY <1>2, <3>1, <3>2 DEF SameLife
  <2>3. QED
    BY <1>2, <2>1, <2>2
<1>4. \A j \in CaseIds : j \in dirtyCases' \/ InFlight("cases", j)' \/ cases'[j] = storedCases'[j]
  BY <1>2 DEF CasesInv, InFlight
<1>5. \A j \in Used(storedCases') : cases'[j] # None /\ SameLife(storedCases'[j], cases'[j])
  BY <1>1, <1>2 DEF CasesInv, SameLife, Used
<1>6. ASSUME NEW j \in Used(cases'), storedCases'[j] = None
      PROVE  cases'[j].state = "open" /\ cases'[j].proposal = NoId
  <2>1. CASE j \in Used(cases)
    <3>1. cases[j].state = "open" /\ cases[j].proposal = NoId
      BY <1>6, <2>1 DEF CasesInv
    <3>2. QED
      BY <1>2, <2>1, <3>1 DEF SameLife
  <2>2. CASE j \notin Used(cases)
    BY <1>2, <2>2
  <2>3. QED
    BY <2>1, <2>2
<1>7. CasesInv'
  <2>1. dirtyCases' \subseteq Used(cases')
    BY <1>2 DEF CasesInv
  <2>2. storedCases' \in [CaseIds -> GoodCase \cup {None}]
    BY DEF CasesInv
  <2>3. QED
    BY <1>2, <1>3, <1>4, <1>5, <1>6, <2>1, <2>2 DEF CasesInv
<1>8. OneCaseAtATime'
  <2>1. cases[i] = None \/ c.state = "closed" \/ cases[i].state # "closed"
    BY DEF SameLife
  <2>2. QED
    BY <1>1, <2>1, OneCaseStays DEF SameLife
<1>9. QED
  BY <1>7, <1>8

(***************************************************************************)
(* A request commits a case while Flush is not at a commit.                *)
(***************************************************************************)
LEMMA CaseCommitted ==
  ASSUME CasesInv, OneCaseAtATime, WriteLocked, NEW i \in CaseIds, NEW c \in GoodCase, CommitCase(i, c),
         flushing' = flushing,
         \/ cases[i] = None /\ Unrivalled(c.source, c.of)
         \/ /\ cases[i] # None /\ c.source = cases[i].source /\ c.of = cases[i].of
            /\ c.state = "closed" \/ cases[i].state # "closed"
  PROVE  CasesInv' /\ OneCaseAtATime'
<1>1. c # None
  BY NothingIsNone DEF GoodCase
<1>2. /\ cases' \in [CaseIds -> GoodCase \cup {None}]
      /\ storedCases' \in [CaseIds -> GoodCase \cup {None}]
      /\ cases'[i] = c /\ \A j \in CaseIds : j # i => cases'[j] = cases[j]
      /\ storedCases'[i] = c /\ \A j \in CaseIds : j # i => storedCases'[j] = storedCases[j]
      /\ Used(cases) \subseteq Used(cases')
      /\ Used(cases') \subseteq CaseIds /\ Used(storedCases') \subseteq CaseIds
      /\ \A j \in CaseIds \ {i} : /\ j \in Used(cases') => j \in Used(cases)
                                  /\ j \in Used(storedCases') => j \in Used(storedCases)
  BY <1>1 DEF CasesInv, Used, CommitCase
<1>3. dirtyCases' \subseteq Used(cases')
  BY <1>2 DEF CasesInv, CommitCase
<1>4. \A j \in CaseIds : j \in dirtyCases' \/ InFlight("cases", j)' \/ cases'[j] = storedCases'[j]
  BY <1>2 DEF CasesInv, CommitCase, WriteLocked, InFlight
<1>5. \A j \in Used(storedCases') : cases'[j] # None /\ SameLife(storedCases'[j], cases'[j])
  BY <1>1, <1>2 DEF CasesInv, SameLife
<1>6. \A j \in Used(cases') : storedCases'[j] = None => cases'[j].state = "open" /\ cases'[j].proposal = NoId
  BY <1>1, <1>2 DEF CasesInv
<1>7. CasesInv'
  BY <1>2, <1>3, <1>4, <1>5, <1>6 DEF CasesInv, WriteLocked
<1>8. OneCaseAtATime'
  BY <1>1, OneCaseStays DEF CommitCase
<1>9. QED
  BY <1>7, <1>8

-----------------------------------------------------------------------------
(* The rest of the state.                                                  *)

\* Cases in the store keep their life and get company: the drafts' cases still wait.
LEMMA ProposalsStay ==
  ASSUME ProposalsInv, UNCHANGED <<proposals, storedProposals>>,
         \A i \in Used(storedCases) : storedCases'[i] # None /\ SameLife(storedCases'[i], storedCases[i]),
         DOMAIN storedCases = CaseIds
  PROVE  ProposalsInv'
<1>1. proposals' \in [ProposalIds -> Proposal \cup {None}] /\ storedProposals' = proposals'
  BY DEF ProposalsInv
<1>2. ASSUME NEW p \in Used(proposals'), proposals'[p].state = "draft"
      PROVE  LET c == storedCases'[proposals'[p].case]
             IN c # None /\ c.state = "decided" /\ c.proposal = p
  <2> DEFINE i == proposals[p].case
  <2>1. p \in Used(proposals) /\ proposals[p].state = "draft" /\ proposals[p] \in Proposal
    BY <1>1, <1>2 DEF Used
  <2>2. i \in CaseIds /\ storedCases[i] # None /\ storedCases[i].state = "decided" /\ storedCases[i].proposal = p
    BY <2>1 DEF ProposalsInv, Proposal
  <2> HIDE DEF i
  <2>3. storedCases'[i] # None /\ SameLife(storedCases'[i], storedCases[i])
    BY <2>2 DEF Used
  <2>4. storedCases'[i] # None /\ storedCases'[i].state = "decided" /\ storedCases'[i].proposal = p
    BY <2>2, <2>3 DEF SameLife
  <2>5. QED
    BY <2>4 DEF i
<1>3. QED
  BY <1>1, <1>2 DEF ProposalsInv

\* A step that leaves proposals and the stored cases alone.
LEMMA ProposalsStayToo ==
  ASSUME ProposalsInv, UNCHANGED <<proposals, storedProposals, storedCases>>
  PROVE  ProposalsInv'
BY DEF ProposalsInv, Used

\* A step that leaves policies, block list and engine alone.
LEMMA RulesStay ==
  ASSUME RulesInv, UNCHANGED <<policies, engine, stale, blocklist, storedBlocklist>>
  PROVE  RulesInv'
BY DEF RulesInv, EngineCurrent, EngineRules, Blocked

\* A step that leaves the way to the audit log alone.
LEMMA PipeStays == ASSUME PipeInv, UNCHANGED pipe PROVE PipeInv'
BY DEF PipeInv, pipe

\* A step that leaves requests and the bounds alone.
LEMMA RequestsStay == ASSUME RequestsInv, UNCHANGED <<requests, writes, crashes>> PROVE RequestsInv'
BY DEF RequestsInv, requests

-----------------------------------------------------------------------------
(* Flush and crash.                                                        *)

\* Flush takes its copies: what was marked is now on its way, and current.
LEMMA FlushBeginKeepsIInv == ASSUME IInv, FlushBegin PROVE IInv'
<1>1. /\ ~flushing.active /\ flushing'.active
      /\ flushing'.sessions = [s \in dirtyInstalls |-> sessions[s]]
      /\ flushing'.cases = [i \in dirtyCases |-> cases[i]]
      /\ dirtyInstalls' = {} /\ dirtyCases' = {}
      /\ UNCHANGED <<sessions, cases, proposals, blocklist, storedSessions, storedCases, storedProposals,
                     storedBlocklist, ruleset, pipe, requests, crashes>>
  BY DEF FlushBegin, WriteLocked, cache, store
<1>2. SessionsInv'
  <2>1. \A s \in dirtyInstalls : s \in Sandboxes /\ sessions[s] # None /\ sessions[s] \in GoodSession
    BY DEF IInv, SessionsInv, Used
  <2>2. flushing'.sessions \in [dirtyInstalls -> GoodSession] /\ DOMAIN flushing'.sessions = dirtyInstalls
    BY <1>1, <2>1
  <2>3. Used(sessions') = Used(sessions)
    BY <1>1
  <2>4. \A s \in Sandboxes : InFlight("sessions", s)' \/ sessions[s] = storedSessions[s]
    BY <1>1, <2>2 DEF IInv, SessionsInv, InFlight
  <2>5. QED
    BY <1>1, <2>1, <2>2, <2>3, <2>4 DEF IInv, SessionsInv
<1>3. CasesInv'
  <2>1. \A i \in dirtyCases : i \in CaseIds /\ cases[i] # None /\ cases[i] \in GoodCase
    BY DEF IInv, CasesInv, Used
  <2>2. flushing'.cases \in [dirtyCases -> GoodCase] /\ DOMAIN flushing'.cases = dirtyCases
    BY <1>1, <2>1
  <2>3. Used(cases') = Used(cases) /\ Used(storedCases') = Used(storedCases)
    BY <1>1
  <2>4. \A i \in CaseIds : InFlight("cases", i)' \/ cases[i] = storedCases[i]
    BY <1>1, <2>2 DEF IInv, CasesInv, InFlight
  <2>5. \A i \in dirtyCases : flushing'.cases[i] = cases[i] /\ SameLife(cases[i], cases[i])
    BY <1>1 DEF SameLife
  <2>6. \A i \in Used(storedCases') : cases'[i] # None /\ SameLife(storedCases'[i], cases'[i])
    BY <1>1, <2>3 DEF IInv, CasesInv, SameLife
  <2>7. QED
    BY <1>1, <2>1, <2>2, <2>3, <2>4, <2>5, <2>6 DEF IInv, CasesInv
<1>4. OneCaseAtATime'
  BY <1>1 DEF IInv, OneCaseAtATime, Used
<1>5. ProposalsInv' /\ RulesInv' /\ PipeInv' /\ RequestsInv'
  BY <1>1, ProposalsStayToo, RulesStay, PipeStays, RequestsStay DEF IInv, ruleset
<1>6. QED
  BY <1>1, <1>2, <1>3, <1>4, <1>5 DEF IInv

\* The commit of Flush: what it writes is current or marked again, and of the same life.
LEMMA FlushSavedKeepsIInv == ASSUME IInv, FlushSaved PROVE IInv'
<1>1. /\ flushing.active /\ flushing'.active = FALSE
      /\ storedSessions' = Overwrite(storedSessions, flushing.sessions)
      /\ storedCases' = Overwrite(storedCases, flushing.cases)
      /\ UNCHANGED <<sessions, cases, proposals, blocklist, dirtyInstalls, dirtyCases, storedProposals,
                     storedBlocklist, ruleset, pipe, requests, crashes>>
  BY DEF FlushSaved, NoFlush, cache, dirty
<1>2. SessionsInv'
  <2>1. \A s \in Sandboxes : storedSessions'[s] = IF s \in DOMAIN flushing.sessions THEN flushing.sessions[s]
                                                  ELSE storedSessions[s]
    BY <1>1 DEF IInv, SessionsInv, Overwrite
  <2>2. storedSessions' \in [Sandboxes -> GoodSession \cup {None}]
    <3>1. ASSUME NEW s \in Sandboxes PROVE storedSessions'[s] \in GoodSession \cup {None}
      BY <1>1, <2>1 DEF IInv, SessionsInv
    <3>2. storedSessions' = [s \in Sandboxes |-> storedSessions'[s]]
      BY <1>1 DEF IInv, SessionsInv, Overwrite
    <3>3. QED
      BY <3>1, <3>2
  <2>3. \A s \in Sandboxes : s \in dirtyInstalls \/ sessions[s] = storedSessions'[s]
    BY <1>1, <2>1 DEF IInv, SessionsInv, InFlight
  <2>4. Used(sessions') = Used(sessions)
    BY <1>1
  <2>5. QED
    BY <1>1, <2>2, <2>3, <2>4 DEF IInv, SessionsInv
<1>3. \A i \in CaseIds : storedCases'[i] = IF i \in DOMAIN flushing.cases THEN flushing.cases[i]
                                           ELSE storedCases[i]
  BY <1>1 DEF IInv, CasesInv, Overwrite
<1>4. storedCases' \in [CaseIds -> GoodCase \cup {None}]
  <2>1. ASSUME NEW i \in CaseIds PROVE storedCases'[i] \in GoodCase \cup {None}
    BY <1>1, <1>3 DEF IInv, CasesInv
  <2>2. storedCases' = [i \in CaseIds |-> storedCases'[i]]
    BY <1>1 DEF IInv, CasesInv, Overwrite
  <2>3. QED
    BY <2>1, <2>2
<1>5. \A i \in DOMAIN flushing.cases :
        /\ cases[i] # None /\ SameLife(flushing.cases[i], cases[i])
        /\ flushing.cases[i] # None /\ i \in CaseIds
  BY <1>1, NothingIsNone DEF IInv, CasesInv, Used, GoodCase
<1>6. CasesInv'
  <2>1. \A i \in CaseIds : i \in dirtyCases \/ cases[i] = storedCases'[i]
    BY <1>1, <1>3 DEF IInv, CasesInv, InFlight
  <2>2. \A i \in Used(storedCases') : cases[i] # None /\ SameLife(storedCases'[i], cases[i])
    BY <1>3, <1>4, <1>5 DEF IInv, CasesInv, Used
  <2>3. \A i \in Used(cases) : storedCases'[i] = None => storedCases[i] = None
    BY <1>3, <1>5 DEF IInv, CasesInv, Used
  <2>4. Used(cases') = Used(cases)
    BY <1>1
  <2>5. QED
    BY <1>1, <1>4, <2>1, <2>2, <2>3, <2>4 DEF IInv, CasesInv
<1>7. OneCaseAtATime'
  BY <1>1 DEF IInv, OneCaseAtATime, Used
<1>8. ProposalsInv'
  <2>1. ASSUME NEW i \in Used(storedCases)
        PROVE  storedCases'[i] # None /\ SameLife(storedCases'[i], storedCases[i])
    <3>1. i \in CaseIds /\ storedCases[i] # None /\ SameLife(storedCases[i], cases[i])
      BY DEF IInv, CasesInv, Used
    <3>2. QED
      BY <1>3, <1>5, <3>1 DEF SameLife
  <2>2. QED
    BY <1>1, <2>1, ProposalsStay DEF IInv, CasesInv
<1>9. RulesInv' /\ PipeInv' /\ RequestsInv'
  BY <1>1, RulesStay, PipeStays, RequestsStay DEF IInv, ruleset
<1>10. QED
  BY <1>1, <1>2, <1>6, <1>7, <1>8, <1>9 DEF IInv

\* A failed commit: everything in it is marked again.
LEMMA FlushFailedKeepsIInv == ASSUME IInv, FlushFailed PROVE IInv'
<1>1. /\ flushing.active /\ flushing'.active = FALSE
      /\ dirtyInstalls' = dirtyInstalls \cup DOMAIN flushing.sessions
      /\ dirtyCases' = dirtyCases \cup DOMAIN flushing.cases
      /\ UNCHANGED <<sessions, cases, proposals, blocklist, storedSessions, storedCases, storedProposals,
                     storedBlocklist, ruleset, pipe, requests, crashes>>
  BY DEF FlushFailed, NoFlush, cache, store
<1>2. SessionsInv'
  BY <1>1 DEF IInv, SessionsInv, InFlight, Used
<1>3. CasesInv'
  <2>1. Used(cases') = Used(cases) /\ Used(storedCases') = Used(storedCases)
    BY <1>1
  <2>2. dirtyCases' \subseteq Used(cases)
    BY <1>1 DEF IInv, CasesInv
  <2>3. \A i \in CaseIds : i \in dirtyCases' \/ cases[i] = storedCases[i]
    BY <1>1 DEF IInv, CasesInv, InFlight
  <2>4. QED
    BY <1>1, <2>1, <2>2, <2>3 DEF IInv, CasesInv, SameLife
<1>4. OneCaseAtATime'
  BY <1>1 DEF IInv, OneCaseAtATime, Used
<1>5. ProposalsInv' /\ RulesInv' /\ PipeInv' /\ RequestsInv'
  BY <1>1, ProposalsStayToo, RulesStay, PipeStays, RequestsStay DEF IInv, ruleset
<1>6. QED
  BY <1>1, <1>2, <1>3, <1>4, <1>5 DEF IInv

\* A crash: the store alone satisfies the invariant.
LEMMA CrashKeepsIInv == ASSUME ReviewAssumption, IInv, Crash PROVE IInv'
<1>1. /\ sessions' = storedSessions /\ cases' = storedCases
      /\ proposals' = storedProposals /\ blocklist' = storedBlocklist
      /\ dirtyInstalls' = {} /\ dirtyCases' = {} /\ flushing'.active = FALSE
      /\ engine' = EngineRules(policies, storedBlocklist) /\ stale' = FALSE
      /\ UNCHANGED <<storedSessions, storedCases, storedProposals, storedBlocklist, policies>>
  BY DEF Crash, NoFlush, store
<1>2. SessionsInv'
  BY <1>1 DEF IInv, SessionsInv
<1>3. CasesInv'
  <2>1. \A i \in Used(storedCases) : storedCases[i] # None /\ SameLife(storedCases[i], storedCases[i])
    BY DEF Used, SameLife
  <2>2. Used(cases') = Used(storedCases) /\ Used(storedCases') = Used(storedCases)
    BY <1>1
  <2>3. \A i \in Used(storedCases) : storedCases[i] # None
    BY DEF Used
  <2>4. QED
    BY <1>1, <2>1, <2>2, <2>3 DEF IInv, CasesInv
<1>4. OneCaseAtATime'
  <2>1. ASSUME NEW i \in Used(storedCases)
        PROVE  i \in Used(cases) /\ SameLife(storedCases[i], cases[i])
    BY DEF IInv, CasesInv, Used
  <2>2. ASSUME NEW i \in Used(storedCases), NEW j \in Used(storedCases),
               storedCases[i].of = storedCases[j].of, storedCases[i].source = storedCases[j].source,
               \/ /\ storedCases[i].source = "runtime"
                  /\ "closed" \notin {storedCases[i].state, storedCases[j].state}
               \/ storedCases[i].source = "scan"
        PROVE  i = j
    BY <2>1, <2>2 DEF SameLife, IInv, OneCaseAtATime
  <2>3. QED
    BY <1>1, <2>2 DEF OneCaseAtATime
<1>5. ProposalsInv'
  BY <1>1 DEF IInv, ProposalsInv, Used
<1>6. RulesInv'
  BY <1>1 DEF IInv, RulesInv, EngineCurrent, EngineRules, Blocked
<1>7. PipeInv'
  <2>1. starting' = NoContainer /\ queue' = <<>> /\ audit' = audit /\ PersistQueue \in Nat
    BY DEF Crash, ReviewAssumption
  <2>2. QED
    BY <2>1 DEF IInv, PipeInv
<1>8. RequestsInv'
  <2>1. /\ crashes < MaxCrashes /\ crashes' = crashes + 1 /\ UNCHANGED <<refused, writes>>
        /\ callers' = [k \in Callers |-> NoId] /\ MaxCrashes \in Nat
    BY DEF Crash, ReviewAssumption
  <2>2. QED
    BY <2>1 DEF IInv, RequestsInv
<1>9. QED
  BY <1>1, <1>2, <1>3, <1>4, <1>5, <1>6, <1>7, <1>8 DEF IInv

-----------------------------------------------------------------------------
(* What is observed, and what the CLI and the scanner report.              *)

\* A step of the sessions and the way to the audit log alone.
LEMMA SessionsAlone ==
  ASSUME IInv, SessionsInv', PipeInv',
         UNCHANGED <<cases, proposals, blocklist, dirtyCases, flushing, storedCases, storedProposals,
                     storedBlocklist, ruleset, requests, crashes>>
  PROVE  IInv'
BY CasesStay, ProposalsStayToo, RulesStay, RequestsStay DEF IInv, ruleset

\* What the CLI, the scanner and the pipeline report of a session.
LEMMA SessionStepsKeepIInv ==
  ASSUME ReviewAssumption, IInv, NEW s \in Sandboxes,
         StartInstall(s) \/ AttachScan(s) \/ FinishInstall(s) \/ ObserveNormal(s) \/ ContainerExited(s)
  PROVE  IInv'
<1>1. /\ sessions[s] # None => sessions[s] \in GoodSession
      /\ SessionsInv
  BY DEF IInv, SessionsInv
<1>2. "active" \in Notes /\ "scanned" \in Notes /\ "exited" \in Notes
  BY DEF Notes
<1>3. SessionsInv'
  <2>1. CASE StartInstall(s)
    BY <1>1, <2>1, GoodSessions, SessionCommitted DEF StartInstall
  <2>2. CASE AttachScan(s)
    <3> DEFINE x == [sessions[s] EXCEPT !.notes = @ \cup {"scanned"}]
    <3>1. x \in GoodSession
      BY <1>1, <1>2, <2>2, GoodSessions DEF AttachScan
    <3>2. /\ WriteLocked /\ flushing' = flushing
          /\ \/ CommitSession(s, x)
             \/ /\ sessions' = [sessions EXCEPT ![s] = x] /\ dirtyInstalls' = dirtyInstalls \cup {s}
                /\ UNCHANGED storedSessions
      BY <2>2 DEF AttachScan
    <3> HIDE DEF x
    <3>3. QED
      BY <1>1, <3>1, <3>2, SessionCommitted, SessionMarked
  <2>3. CASE FinishInstall(s)
    BY <1>1, <2>3, GoodSessions, SessionCommitted DEF FinishInstall
  <2>4. CASE ObserveNormal(s) \/ ContainerExited(s)
    <3>1. PICK note \in Notes : Noted(s, note) /\ sessions[s] # None /\ UNCHANGED <<storedSessions, flushing>>
      BY <1>2, <2>4 DEF ObserveNormal, ContainerExited, store
    <3> DEFINE x == [sessions[s] EXCEPT !.notes = @ \cup {note}]
    <3>2. x \in GoodSession
      BY <1>1, <3>1, GoodSessions
    <3>3. sessions' = [sessions EXCEPT ![s] = x] /\ dirtyInstalls' = dirtyInstalls \cup {s}
      BY <3>1 DEF Noted
    <3> HIDE DEF x
    <3>4. QED
      BY <1>1, <3>1, <3>2, <3>3, SessionMarked
  <2>5. QED
    BY <2>1, <2>2, <2>3, <2>4
<1>4. UNCHANGED <<cases, proposals, blocklist, dirtyCases, flushing, storedCases, storedProposals,
                  storedBlocklist, ruleset, pipe, requests, crashes>>
  BY DEF StartInstall, AttachScan, FinishInstall, ObserveNormal, ContainerExited, store
<1>5. PipeInv'
  BY <1>4, PipeStays DEF IInv
<1>6. QED
  BY <1>3, <1>4, <1>5, SessionsAlone

\* A report to the audit log is a verdict, and there is room for it (emit).
LEMMA ReportTyped ==
  ASSUME ReviewAssumption, PipeInv, NEW c \in Containers, NEW l, NEW i \in CaseIds \cup {NoId},
         NEW b \in BOOLEAN, Report(c, l, i, b)
  PROVE  queue' \in Seq(Verdict) /\ Len(queue') <= PersistQueue
<1> DEFINE v == [of |-> c, case |-> i, blocked |-> b]
<1>1. v \in Verdict /\ queue \in Seq(Verdict) /\ Len(queue) <= PersistQueue /\ PersistQueue \in Nat
  BY DEF Verdict, PipeInv, ReviewAssumption
<1>2. CASE queue' = queue
  BY <1>1, <1>2
<1>3. CASE Len(queue) < PersistQueue /\ queue' = Append(queue, v)
  <2> HIDE DEF v
  <2>1. QED
    BY <1>1, <1>3
<1>4. QED
  BY <1>2, <1>3 DEF Report

\* The numbers of cases and proposals are free when they are given out.
LEMMA FreeCase == ASSUME ReviewAssumption, CasesInv, NextId(cases) \in CaseIds
                  PROVE  cases[NextId(cases)] = None
<1>1. DOMAIN cases = 1 .. MaxCases /\ MaxCases \in Nat
  BY DEF CasesInv, CaseIds, ReviewAssumption
<1>2. QED
  BY <1>1, NextIdIsFree DEF CaseIds

\* The same of proposals.
LEMMA FreeProposal == ASSUME ReviewAssumption, ProposalsInv, NextId(proposals) \in ProposalIds
                      PROVE  proposals[NextId(proposals)] = None
<1>1. DOMAIN proposals = 1 .. MaxProposals /\ MaxProposals \in Nat
  BY DEF ProposalsInv, ProposalIds, ReviewAssumption
<1>2. QED
  BY <1>1, NextIdIsFree DEF ProposalIds

\* A violation in a sandbox (observeInstall).
LEMMA ObserveInstallKeepsIInv ==
  ASSUME ReviewAssumption, IInv, NEW s \in Sandboxes, NEW d \in Details, NEW l \in LevelsSeen,
         ObserveInstall(s, d, l)
  PROVE  IInv'
<1>0. /\ SessionsInv /\ CasesInv /\ OneCaseAtATime /\ PipeInv /\ ProposalsInv /\ RulesInv /\ RequestsInv
      /\ s \in Containers
  BY DEF IInv, Containers
<1>1. UNCHANGED <<proposals, blocklist, flushing, storedSessions, storedCases, storedProposals, storedBlocklist,
                  ruleset, starting, audit, requests, crashes>>
  BY DEF ObserveInstall, store
<1>2. ProposalsInv' /\ RulesInv' /\ RequestsInv'
  BY <1>0, <1>1, ProposalsStayToo, RulesStay, RequestsStay DEF ruleset
<1>3. CASE sessions[s] = None
  <2>1. Report(s, l, NoId, FALSE) /\ UNCHANGED <<sessions, cases, dirtyInstalls, dirtyCases>>
    BY <1>3 DEF ObserveInstall, dirty
  <2>2. PipeInv'
    BY <1>0, <1>1, <2>1, ReportTyped DEF PipeInv
  <2>3. SessionsInv' /\ CasesInv' /\ OneCaseAtATime'
    BY <1>0, <1>1, <2>1, SessionsStay, CasesStay
  <2>4. QED
    BY <1>1, <1>2, <2>2, <2>3 DEF IInv
<1>4. CASE sessions[s] # None
  <2> DEFINE known == sessions[s].case # NoId
  <2> DEFINE i == IF known THEN sessions[s].case ELSE NextId(cases)
  <2> DEFINE c == IF known THEN cases[i] ELSE NewCase("install", s)
  <2> DEFINE x == [sessions[s] EXCEPT !.notes = @ \cup {"active"}, !.viol = Raise(@, d, l, MaxViolations), !.case = i]
  <2>1. /\ i \in CaseIds /\ c # None
        /\ sessions' = [sessions EXCEPT ![s].notes = @ \cup {"active"},
                                        ![s].viol = Raise(@, d, l, MaxViolations), ![s].case = i]
        /\ dirtyInstalls' = dirtyInstalls \cup {s}
        /\ \/ c.state = "closed" /\ Report(s, l, NoId, FALSE) /\ UNCHANGED <<cases, dirtyCases>>
           \/ /\ c.state # "closed"
              /\ cases' = [cases EXCEPT ![i] = WithEvidence(c, d, l)]
              /\ dirtyCases' = dirtyCases \cup {i} /\ Report(s, l, i, FALSE)
    BY <1>4 DEF ObserveInstall
  <2>2. sessions[s] \in GoodSession
    BY <1>0, <1>4 DEF SessionsInv
  <2>3. sessions' = [sessions EXCEPT ![s] = x]
    BY <1>0, <2>1, <2>2 DEF SessionsInv, GoodSession, Session
  <2>4. /\ c \in GoodCase
        /\ \/ cases[i] # None /\ c = cases[i]
           \/ cases[i] = None /\ c.state = "open" /\ c.proposal = NoId /\ Unrivalled(c.source, c.of)
    <3>1. CASE known
      BY <1>0, <2>1, <3>1 DEF CasesInv
    <3>2. CASE ~known
      <4>1. cases[i] = None
        BY <1>0, <2>1, <3>2, FreeCase
      <4>2. c = NewCase("install", s) /\ "install" \in Sources /\ s \in Subjects("install")
        BY <3>2 DEF Sources, Subjects
      <4>3. c \in GoodCase /\ c.source = "install" /\ c.state = "open" /\ c.proposal = NoId
        BY <4>2, GoodNewCase
      <4>4. QED
        BY <4>1, <4>3 DEF Unrivalled
    <3>3. QED
      BY <3>1, <3>2
  <2> HIDE DEF i, c
  <2>5. x \in GoodSession
    BY <2>1, <2>2, GoodSessions
  <2> HIDE DEF x
  <2>6. SessionsInv'
    BY <1>0, <1>1, <2>1, <2>3, <2>5, SessionMarked
  <2>7. PipeInv'
    <3>1. FALSE \in BOOLEAN /\ NoId \in CaseIds \cup {NoId} /\ i \in CaseIds \cup {NoId}
      BY <2>1
    <3>2. queue' \in Seq(Verdict) /\ Len(queue') <= PersistQueue
      BY <1>0, <2>1, <3>1, ReportTyped
    <3>3. QED
      BY <1>0, <1>1, <3>2 DEF PipeInv
  <2>8. CasesInv' /\ OneCaseAtATime'
    <3>1. CASE UNCHANGED <<cases, dirtyCases>>
      BY <1>0, <1>1, <3>1, CasesStay
    <3>2. CASE cases' = [cases EXCEPT ![i] = WithEvidence(c, d, l)] /\ dirtyCases' = dirtyCases \cup {i}
      <4> DEFINE w == WithEvidence(c, d, l)
      <4>1. w \in GoodCase /\ SameLife(w, c)
        BY <2>4, GoodEvidence
      <4>2. cases' = [cases EXCEPT ![i] = w] /\ dirtyCases' = dirtyCases \cup {i}
        BY <3>2
      <4> HIDE DEF w
      <4>3. \/ cases[i] # None /\ SameLife(w, cases[i])
            \/ cases[i] = None /\ w.state = "open" /\ w.proposal = NoId /\ Unrivalled(w.source, w.of)
        BY <2>4, <4>1 DEF SameLife
      <4>4. QED
        BY <1>0, <1>1, <2>1, <4>1, <4>2, <4>3, CaseMarked
    <3>3. QED
      BY <2>1, <3>1, <3>2
  <2>9. QED
    BY <1>1, <1>2, <2>6, <2>7, <2>8 DEF IInv
<1>5. QED
  BY <1>3, <1>4

\* A violation in a runtime container (observeRuntime).
LEMMA ObserveRuntimeKeepsIInv ==
  ASSUME ReviewAssumption, IInv, NEW c \in Runtimes, NEW d \in Details, NEW l \in LevelsSeen,
         ObserveRuntime(c, d, l)
  PROVE  IInv'
<1>0. /\ SessionsInv /\ CasesInv /\ OneCaseAtATime /\ PipeInv /\ ProposalsInv /\ RulesInv /\ RequestsInv
      /\ c \in Containers
  BY DEF IInv, Containers
<1>1. UNCHANGED <<sessions, proposals, blocklist, dirtyInstalls, flushing, storedSessions, storedCases,
                  storedProposals, storedBlocklist, ruleset, starting, audit, requests, crashes>>
  BY DEF ObserveRuntime, store
<1> DEFINE i == IF Active(c) # {} THEN Newest(Active(c)) ELSE NextId(cases)
<1> DEFINE old == IF Active(c) # {} THEN cases[i] ELSE NewCase("runtime", c)
<1> DEFINE w == WithEvidence(old, d, l)
<1>2. i \in CaseIds /\ cases' = [cases EXCEPT ![i] = w] /\ dirtyCases' = dirtyCases \cup {i} /\ Report(c, l, i, FALSE)
  BY DEF ObserveRuntime
<1>3. /\ old \in GoodCase
      /\ \/ cases[i] # None /\ old = cases[i]
         \/ cases[i] = None /\ old.state = "open" /\ old.proposal = NoId /\ Unrivalled(old.source, old.of)
  <2>1. CASE Active(c) # {}
    <3>1. Active(c) \subseteq 1 .. MaxCases /\ MaxCases \in Nat
      BY <1>0 DEF Active, Used, CasesInv, CaseIds, ReviewAssumption
    <3>2. i \in Active(c)
      BY <2>1, <3>1, NewestIsMember
    <3>3. cases[i] # None
      BY <3>2 DEF Active, Used
    <3>4. QED
      BY <1>0, <1>2, <2>1, <3>3 DEF CasesInv
  <2>2. CASE Active(c) = {}
    <3>1. cases[i] = None
      BY <1>0, <1>2, <2>2, FreeCase
    <3>2. old = NewCase("runtime", c) /\ "runtime" \in Sources /\ c \in Subjects("runtime")
      BY <2>2 DEF Sources, Subjects
    <3>3. old \in GoodCase /\ old.source = "runtime" /\ old.of = c /\ old.state = "open" /\ old.proposal = NoId
      BY <3>2, GoodNewCase
    <3>4. Unrivalled("runtime", c)
      BY <2>2 DEF Unrivalled, Active
    <3>5. QED
      BY <3>1, <3>3, <3>4
  <2>3. QED
    BY <2>1, <2>2
<1> HIDE DEF i, old
<1>4. w \in GoodCase /\ SameLife(w, old)
  BY <1>3, GoodEvidence
<1> HIDE DEF w
<1>5. CasesInv' /\ OneCaseAtATime'
  <2>1. \/ cases[i] # None /\ SameLife(w, cases[i])
        \/ cases[i] = None /\ w.state = "open" /\ w.proposal = NoId /\ Unrivalled(w.source, w.of)
    BY <1>3, <1>4 DEF SameLife
  <2>2. QED
    BY <1>0, <1>1, <1>2, <1>4, <2>1, CaseMarked
<1>6. PipeInv'
  <2>1. FALSE \in BOOLEAN /\ i \in CaseIds \cup {NoId}
    BY <1>2
  <2>2. queue' \in Seq(Verdict) /\ Len(queue') <= PersistQueue
    BY <1>0, <1>2, <2>1, ReportTyped
  <2>3. QED
    BY <1>0, <1>1, <2>2 DEF PipeInv
<1>7. SessionsInv' /\ ProposalsInv' /\ RulesInv' /\ RequestsInv'
  BY <1>0, <1>1, SessionsStay, ProposalsStayToo, RulesStay, RequestsStay DEF ruleset
<1>8. QED
  BY <1>1, <1>5, <1>6, <1>7 DEF IInv

\* A container starts, with a blocked image or without (ContainerStarted, observeBlockedImage).
LEMMA StartsKeepIInv ==
  ASSUME ReviewAssumption, IInv,
         (\E c \in Containers : ContainerStarted(c)) \/ (\E l \in LevelsSeen \ {Alert} : ObserveBlockedImage(l))
  PROVE  IInv'
<1>1. ASSUME NEW c \in Containers, ContainerStarted(c) PROVE IInv'
  <2>1. /\ UNCHANGED <<cases, proposals, blocklist, dirtyCases, flushing, storedSessions, storedCases,
                       storedProposals, storedBlocklist, ruleset, queue, audit, requests, crashes>>
        /\ starting' \in {starting, c}
        /\ \/ c \in Sandboxes /\ sessions[c] # None /\ Noted(c, "active")
           \/ UNCHANGED <<sessions, dirtyInstalls>>
    BY <1>1 DEF ContainerStarted, store
  <2>2. SessionsInv'
    <3>1. CASE UNCHANGED <<sessions, dirtyInstalls>>
      BY <2>1, <3>1, SessionsStay DEF IInv
    <3>2. CASE c \in Sandboxes /\ sessions[c] # None /\ Noted(c, "active")
      <4> DEFINE x == [sessions[c] EXCEPT !.notes = @ \cup {"active"}]
      <4>1. sessions[c] \in GoodSession /\ "active" \in Notes
        BY <3>2 DEF IInv, SessionsInv, Notes
      <4>2. x \in GoodSession
        BY <4>1, GoodSessions
      <4>3. sessions' = [sessions EXCEPT ![c] = x] /\ dirtyInstalls' = dirtyInstalls \cup {c}
        BY <3>2 DEF Noted
      <4> HIDE DEF x
      <4>4. QED
        BY <2>1, <3>2, <4>2, <4>3, SessionMarked DEF IInv
    <3>3. QED
      BY <2>1, <3>1, <3>2
  <2>3. PipeInv'
    BY <2>1 DEF IInv, PipeInv
  <2>4. QED
    BY <2>1, <2>2, <2>3, SessionsAlone
<1>2. ASSUME NEW l \in LevelsSeen \ {Alert}, ObserveBlockedImage(l) PROVE IInv'
  <2>1. /\ starting # NoContainer /\ Report(starting, l, blocklist[ImageOf[starting]], TRUE)
        /\ starting' = NoContainer
        /\ UNCHANGED <<sessions, cases, proposals, blocklist, dirtyInstalls, dirtyCases, flushing, storedSessions,
                       storedCases, storedProposals, storedBlocklist, ruleset, audit, requests, crashes>>
    BY <1>2 DEF ObserveBlockedImage, cache, dirty, store
  <2>2. starting \in Containers /\ blocklist[ImageOf[starting]] \in CaseIds \cup {NoId} /\ TRUE \in BOOLEAN
    BY <2>1 DEF IInv, PipeInv, RulesInv, Values, Images
  <2>3. queue' \in Seq(Verdict) /\ Len(queue') <= PersistQueue
    BY <2>1, <2>2, ReportTyped DEF IInv
  <2>4. PipeInv'
    BY <2>1, <2>3 DEF IInv, PipeInv
  <2>5. SessionsInv'
    BY <2>1, SessionsStay DEF IInv
  <2>6. QED
    BY <2>1, <2>4, <2>5, SessionsAlone
<1>3. QED
  BY <1>1, <1>2

\* The audit row of a kill becomes the isolation of a session and a case (AuditSaved).
LEMMA AuditSavedKeepsIInv == ASSUME ReviewAssumption, IInv, AuditSaved PROVE IInv'
<1>0. /\ SessionsInv /\ CasesInv /\ OneCaseAtATime /\ PipeInv /\ ProposalsInv /\ RulesInv /\ RequestsInv
  BY DEF IInv
<1> DEFINE v == Head(queue)
<1> DEFINE row == Len(audit) + 1
<1> DEFINE S == {s \in Sandboxes \cap {v.of} : sessions[s] # None /\ sessions[s].iso = 0}
<1> DEFINE C == {i \in Used(cases) : i = v.case /\ Isolates(v) /\ cases[i].iso = 0}
<1>1. UNCHANGED <<proposals, blocklist, flushing, storedSessions, storedCases, storedProposals, storedBlocklist,
                  ruleset, starting, requests, crashes>>
  BY DEF AuditSaved, store
<1>2. /\ queue # <<>> /\ Len(audit) < MaxAudit /\ queue' = Tail(queue)
      /\ \/ UNCHANGED <<sessions, cases, dirtyInstalls, dirtyCases, audit>>
         \/ /\ audit' = Append(audit, v)
            /\ sessions' = [s \in Sandboxes |-> IF s \in S THEN [sessions[s] EXCEPT !.iso = row] ELSE sessions[s]]
            /\ cases' = [i \in CaseIds |-> IF i \in C THEN [cases[i] EXCEPT !.iso = row] ELSE cases[i]]
            /\ dirtyInstalls' = dirtyInstalls \cup S /\ dirtyCases' = dirtyCases \cup C
  BY DEF AuditSaved, dirty
<1>3. /\ queue \in Seq(Verdict) /\ Len(queue) <= PersistQueue /\ audit \in Seq(Verdict)
      /\ v \in Verdict /\ Len(audit) \in Nat /\ MaxAudit \in Nat /\ PersistQueue \in Nat /\ row \in 0 .. MaxAudit
  BY <1>0, <1>2 DEF PipeInv, ReviewAssumption
<1>4. ProposalsInv' /\ RulesInv' /\ RequestsInv'
  BY <1>0, <1>1, ProposalsStayToo, RulesStay, RequestsStay DEF ruleset
<1>5. PipeInv'
  <2> HIDE DEF v
  <2>1. Tail(queue) \in Seq(Verdict) /\ Len(Tail(queue)) <= PersistQueue
    BY <1>2, <1>3
  <2>2. audit' \in Seq(Verdict) /\ Len(audit') <= MaxAudit
    <3>1. audit' = audit \/ audit' = Append(audit, v)
      BY <1>2
    <3>2. Len(audit) < MaxAudit
      BY <1>2
    <3>3. QED
      BY <1>3, <3>1, <3>2, SMTT(20)
  <2>3. QED
    BY <1>0, <1>1, <1>2, <2>1, <2>2 DEF PipeInv
<1>6. CASE UNCHANGED <<sessions, cases, dirtyInstalls, dirtyCases>>
  BY <1>0, <1>1, <1>4, <1>5, <1>6, SessionsStay, CasesStay DEF IInv
<1>7. CASE /\ sessions' = [s \in Sandboxes |-> IF s \in S THEN [sessions[s] EXCEPT !.iso = row] ELSE sessions[s]]
           /\ cases' = [i \in CaseIds |-> IF i \in C THEN [cases[i] EXCEPT !.iso = row] ELSE cases[i]]
           /\ dirtyInstalls' = dirtyInstalls \cup S /\ dirtyCases' = dirtyCases \cup C
  <2> HIDE DEF row
  <2>1. SessionsInv'
    <3>1. CASE S = {}
      <4>1. sessions' = sessions /\ dirtyInstalls' = dirtyInstalls
        BY <1>0, <1>7, <3>1 DEF SessionsInv
      <4>2. QED
        BY <1>0, <1>1, <4>1, SessionsStay
    <3>2. CASE S # {}
      <4>1. PICK s \in Sandboxes : S = {s} /\ sessions[s] # None
        BY <3>2
      <4> HIDE DEF S
      <4> DEFINE x == [sessions[s] EXCEPT !.iso = row]
      <4>2. x \in GoodSession
        BY <1>0, <1>3, <4>1, GoodSessions DEF SessionsInv
      <4>3. sessions' = [sessions EXCEPT ![s] = x] /\ dirtyInstalls' = dirtyInstalls \cup {s}
        BY <1>0, <1>7, <4>1 DEF SessionsInv
      <4> HIDE DEF x
      <4>4. QED
        BY <1>0, <1>1, <4>2, <4>3, SessionMarked
    <3>3. QED
      BY <3>1, <3>2
  <2>2. CasesInv' /\ OneCaseAtATime'
    <3>1. CASE C = {}
      <4>1. cases' = cases /\ dirtyCases' = dirtyCases
        BY <1>0, <1>7, <3>1 DEF CasesInv
      <4>2. QED
        BY <1>0, <1>1, <4>1, CasesStay
    <3>2. CASE C # {}
      <4>1. PICK i \in CaseIds : C = {i} /\ cases[i] # None
        BY <1>0, <3>2 DEF Used, CasesInv
      <4> HIDE DEF C
      <4> DEFINE x == [cases[i] EXCEPT !.iso = row]
      <4>2. x \in GoodCase /\ SameLife(x, cases[i])
        BY <1>0, <1>3, <4>1, GoodIsolation DEF CasesInv
      <4>3. cases' = [cases EXCEPT ![i] = x] /\ dirtyCases' = dirtyCases \cup {i}
        BY <1>0, <1>7, <4>1 DEF CasesInv
      <4> HIDE DEF x
      <4>4. QED
        BY <1>0, <1>1, <4>1, <4>2, <4>3, CaseMarked
    <3>3. QED
      BY <3>1, <3>2
  <2>3. QED
    BY <1>1, <1>4, <1>5, <2>1, <2>2 DEF IInv
<1>8. QED
  BY <1>2, <1>6, <1>7

-----------------------------------------------------------------------------
(* Requests.                                                               *)

(***************************************************************************)
(* A draft asks for changes there are (maliciousChanges and                *)
(* falsePositiveChanges).                                                  *)
(***************************************************************************)
LEMMA DraftTyped ==
  ASSUME ReviewAssumption, NEW c \in GoodCase, NEW decision \in Decisions
  PROVE  Draft(c, decision) \in SUBSET Change
<1>1. /\ c.source \in Sources /\ c.of \in Subjects(c.source) /\ Violated(c.evidence) \subseteq Details
  BY DEF GoodCase, Case, Violated
<1>2. (IF c.source = "runtime" THEN ImageOf[c.of] ELSE PackageOf[c.of]) \in Values
  BY <1>1 DEF Sources, Subjects, Values, Images, Packages, Containers
<1>3. \A d \in Details : HostOf[d] \in Hosts \cup {NoHost}
  BY DEF ReviewAssumption
<1>4. {HostOf[d] : d \in Violated(c.evidence)} \ (AllowedHosts \cup {NoHost}) \subseteq Values
  BY <1>1, <1>3 DEF Values
<1>5. ASSUME NEW S, S \subseteq Values PROVE Blocks(S) \subseteq Change
  BY <1>5 DEF Blocks, Change
<1>6. MaliciousChanges(c) \subseteq Change
  BY <1>2, <1>4, <1>5 DEF MaliciousChanges
<1>7. FalsePositiveChanges(c) \subseteq Change
  BY <1>1 DEF FalsePositiveChanges, Change
<1>8. QED
  BY <1>6, <1>7 DEF Draft

(***************************************************************************)
(* Judging a case preserves the invariant (Decide, FromScan).              *)
(***************************************************************************)
LEMMA JudgeKeepsIInv ==
  ASSUME ReviewAssumption, IInv, NEW i \in CaseIds, NEW decision \in Decisions, Judge(i, decision), RequestsInv'
  PROVE  IInv'
<1> DEFINE p == NextId(proposals)
<1> DEFINE c == [cases[i] EXCEPT !.state = "decided", !.decision = decision, !.proposal = p]
<1> DEFINE x == [case |-> i, decision |-> decision, state |-> "draft", changes |-> Draft(cases[i], decision)]
<1>0. /\ SessionsInv /\ CasesInv /\ OneCaseAtATime /\ PipeInv /\ ProposalsInv /\ RulesInv
  BY DEF IInv
<1>1. /\ WriteLocked /\ cases[i] # None /\ cases[i].state = "open" /\ p \in ProposalIds
      /\ CommitCase(i, c) /\ CommitProposal(p, x)
      /\ UNCHANGED <<sessions, blocklist, dirtyInstalls, flushing, storedSessions, storedBlocklist, ruleset, pipe, crashes>>
  BY DEF Judge, Decidable
<1>2. cases[i] \in GoodCase
  BY <1>0, <1>1 DEF CasesInv
<1>3. proposals[p] = None
  BY <1>0, <1>1, FreeProposal
<1>4. x \in Proposal /\ x.case = i /\ x.state = "draft"
  BY <1>2, DraftTyped DEF Proposal
<1> HIDE DEF p
<1>5. c \in GoodCase /\ c.source = cases[i].source /\ c.of = cases[i].of /\ c.state = "decided" /\ c.proposal = p
  <2>1. p \in ProposalIds
    BY <1>1
  <2>2. c = [cases[i] EXCEPT !.state = "decided", !.decision = decision, !.proposal = p]
    OBVIOUS
  <2> HIDE DEF c
  <2>3. QED
    BY <1>2, <2>1, <2>2 DEF GoodCase, Case
<1> HIDE DEF c, x
<1>6. CasesInv' /\ OneCaseAtATime'
  BY <1>0, <1>1, <1>5, CaseCommitted
<1>7. ProposalsInv'
  <2>1. /\ proposals' \in [ProposalIds -> Proposal \cup {None}] /\ storedProposals' = proposals'
        /\ proposals'[p] = x /\ \A q \in ProposalIds : q # p => proposals'[q] = proposals[q]
    BY <1>0, <1>1, <1>4 DEF ProposalsInv, CommitProposal
  <2>2. c # None /\ storedCases'[i] = c /\ \A j \in CaseIds : j # i => storedCases'[j] = storedCases[j]
    BY <1>0, <1>1, <1>5, NothingIsNone DEF CasesInv, CommitCase, GoodCase
  <2>3. ASSUME NEW q \in Used(proposals'), proposals'[q].state = "draft"
        PROVE  LET y == storedCases'[proposals'[q].case]
               IN y # None /\ y.state = "decided" /\ y.proposal = q
    <3>1. CASE q = p
      BY <1>4, <1>5, <2>1, <2>2, <3>1
    <3>2. CASE q # p
      <4>1. q \in Used(proposals) /\ proposals'[q] = proposals[q] /\ proposals[q] \in Proposal
        BY <1>0, <2>1, <3>2 DEF Used, ProposalsInv
      <4> DEFINE j == proposals[q].case
      <4>2. j \in CaseIds /\ storedCases[j] # None /\ storedCases[j].state = "decided" /\ storedCases[j].proposal = q
        BY <1>0, <2>3, <4>1 DEF ProposalsInv, Proposal
      <4> HIDE DEF j
      <4>3. j # i
        BY <1>0, <1>1, <4>2 DEF CasesInv, Used, SameLife
      <4>4. storedCases'[j] = storedCases[j]
        BY <2>2, <4>2, <4>3
      <4>5. QED
        BY <4>1, <4>2, <4>4 DEF j
    <3>3. QED
      BY <3>1, <3>2
  <2>4. QED
    BY <2>1, <2>3 DEF ProposalsInv
<1>8. SessionsInv' /\ RulesInv' /\ PipeInv'
  <2>1. RulesInv'
    BY <1>0, <1>1, RulesStay DEF ruleset
  <2>2. QED
    BY <1>0, <1>1, <2>1, SessionsStay, PipeStays
<1>9. QED
  BY <1>1, <1>6, <1>7, <1>8 DEF IInv

(***************************************************************************)
(* A settled proposal and its closed case (Apply, Discard).                *)
(***************************************************************************)
LEMMA SettledKeeps ==
  ASSUME CasesInv, ProposalsInv, OneCaseAtATime, NEW p \in ProposalIds, NEW outcome \in {"applied", "discarded"},
         WriteLocked, proposals[p] # None, proposals[p].state = "draft", flushing' = flushing,
         cases[proposals[p].case] # None, CommitCase(proposals[p].case, ClosedBy(p)),
         CommitProposal(p, [proposals[p] EXCEPT !.state = outcome])
  PROVE  CasesInv' /\ ProposalsInv' /\ OneCaseAtATime'
<1> DEFINE i == proposals[p].case
<1> DEFINE c == ClosedBy(p)
<1> DEFINE x == [proposals[p] EXCEPT !.state = outcome]
<1>1. proposals[p] \in Proposal
  BY DEF ProposalsInv
<1>2. i \in CaseIds /\ cases[i] \in GoodCase /\ x \in Proposal /\ x.state = outcome
  BY <1>1 DEF Proposal, CasesInv
<1>3. c \in GoodCase /\ c.source = cases[i].source /\ c.of = cases[i].of /\ c.state = "closed"
  <2>1. c = [cases[i] EXCEPT !.state = "closed"]
    BY DEF ClosedBy
  <2> HIDE DEF c
  <2>2. QED
    BY <1>2, <2>1, GoodClosing
<1>4. CommitCase(i, c) /\ CommitProposal(p, x) /\ cases[i] # None
  OBVIOUS
<1>5. storedCases[i].proposal = p
  BY DEF ProposalsInv, Used
<1> HIDE DEF i, c, x
<1>6. CasesInv' /\ OneCaseAtATime'
  BY <1>2, <1>3, <1>4, CaseCommitted
<1>7. ProposalsInv'
  <2>1. /\ proposals' \in [ProposalIds -> Proposal \cup {None}] /\ storedProposals' = proposals'
        /\ proposals'[p] = x /\ \A q \in ProposalIds : q # p => proposals'[q] = proposals[q]
    BY <1>2, <1>4 DEF ProposalsInv, CommitProposal
  <2>2. \A j \in CaseIds : j # i => storedCases'[j] = storedCases[j]
    BY <1>4 DEF CasesInv, CommitCase
  <2>3. ASSUME NEW q \in Used(proposals'), proposals'[q].state = "draft"
        PROVE  LET y == storedCases'[proposals'[q].case]
               IN y # None /\ y.state = "decided" /\ y.proposal = q
    <3>1. q # p
      BY <1>2, <2>1, <2>3
    <3>2. q \in Used(proposals) /\ proposals'[q] = proposals[q] /\ proposals[q] \in Proposal
      BY <2>1, <3>1 DEF Used, ProposalsInv
    <3> DEFINE j == proposals[q].case
    <3>3. j \in CaseIds /\ storedCases[j] # None /\ storedCases[j].state = "decided" /\ storedCases[j].proposal = q
      BY <2>3, <3>2 DEF ProposalsInv, Proposal
    <3> HIDE DEF j
    <3>4. storedCases'[j] = storedCases[j]
      BY <1>5, <2>2, <3>1, <3>3
    <3>5. QED
      BY <3>2, <3>3, <3>4 DEF j
  <2>4. QED
    BY <2>1, <2>3 DEF ProposalsInv
<1>8. QED
  BY <1>6, <1>7

\* Applying a proposal (Apply).
LEMMA ApplyKeepsIInv == ASSUME ReviewAssumption, IInv, NEW p \in ProposalIds, Apply(p) PROVE IInv'
<1>0. /\ SessionsInv /\ CasesInv /\ OneCaseAtATime /\ PipeInv /\ ProposalsInv /\ RulesInv /\ RequestsInv
  BY DEF IInv
<1> DEFINE i == proposals[p].case
<1> DEFINE excepted == {ch.on : ch \in {x \in proposals[p].changes : x.op = "except"}}
<1> DEFINE added == {ch.on : ch \in {x \in proposals[p].changes : x.op = "block"}}
<1>1. /\ WriteLocked /\ proposals[p] # None /\ proposals[p].state = "draft" /\ cases[i] # None
      /\ CommitCase(i, ClosedBy(p)) /\ CommitProposal(p, [proposals[p] EXCEPT !.state = "applied"])
      /\ blocklist' = [v \in Values |-> IF v \in added /\ blocklist[v] = NoId THEN i ELSE blocklist[v]]
      /\ storedBlocklist' = blocklist'
      /\ policies' = [r \in Rules |-> [policies[r] EXCEPT !.allows = @ \cup {d \in excepted : RuleOf[d] = r}]]
      /\ engine' = EngineRules(policies', blocklist') /\ stale' = FALSE
      /\ UNCHANGED <<sessions, dirtyInstalls, flushing, storedSessions, writes, pipe, requests, crashes>>
  BY DEF Apply
<1>2. CasesInv' /\ ProposalsInv' /\ OneCaseAtATime'
  BY <1>0, <1>1, SettledKeeps
<1>3. RulesInv'
  <2>1. proposals[p] \in Proposal
    BY <1>0, <1>1 DEF ProposalsInv
  <2>2. i \in CaseIds /\ excepted \subseteq Details
    BY <2>1 DEF Proposal, Change
  <2> HIDE DEF i, excepted, added
  <2>3. blocklist' \in [Values -> CaseIds \cup {NoId}]
    BY <1>0, <1>1, <2>2 DEF RulesInv
  <2>4. policies' \in [Rules -> Policy]
    <3>1. ASSUME NEW r \in Rules
          PROVE  [policies[r] EXCEPT !.allows = @ \cup {d \in excepted : RuleOf[d] = r}] \in Policy
      <4>1. policies[r] \in Policy
        BY <1>0 DEF RulesInv
      <4>2. {d \in excepted : RuleOf[d] = r} \subseteq Details
        BY <2>2
      <4>3. QED
        BY <4>1, <4>2 DEF Policy
    <3>2. QED
      BY <1>1, <3>1
  <2>5. engine' \in [policies : [Rules -> Policy], hosts : SUBSET Hosts]
    BY <1>1, <2>4 DEF EngineRules, Blocked
  <2>6. EngineCurrent'
    BY <1>1 DEF EngineCurrent, EngineRules, Blocked
  <2>7. QED
    BY <1>1, <2>3, <2>4, <2>5, <2>6 DEF RulesInv
<1>4. SessionsInv' /\ PipeInv' /\ RequestsInv'
  BY <1>0, <1>1, SessionsStay, PipeStays, RequestsStay
<1>5. QED
  BY <1>1, <1>2, <1>3, <1>4 DEF IInv

\* Discarding a proposal (Discard); its case is there.
LEMMA DiscardKeepsIInv == ASSUME IInv, NEW p \in ProposalIds, Discard(p) PROVE IInv'
<1>0. /\ SessionsInv /\ CasesInv /\ OneCaseAtATime /\ PipeInv /\ ProposalsInv /\ RulesInv /\ RequestsInv
  BY DEF IInv
<1>1. /\ WriteLocked /\ proposals[p] # None /\ proposals[p].state = "draft"
      /\ CommitProposal(p, [proposals[p] EXCEPT !.state = "discarded"])
      /\ UNCHANGED <<sessions, blocklist, dirtyInstalls, flushing, storedSessions, storedBlocklist,
                     ruleset, pipe, requests, crashes>>
  BY DEF Discard
<1>2. cases[proposals[p].case] # None
  <2>1. p \in Used(proposals) /\ proposals[p] \in Proposal
    BY <1>0, <1>1 DEF ProposalsInv, Used
  <2>2. proposals[p].case \in CaseIds /\ storedCases[proposals[p].case] # None
    BY <1>0, <1>1, <2>1 DEF ProposalsInv, Proposal
  <2>3. QED
    BY <1>0, <2>2 DEF CasesInv, Used
<1>3. CommitCase(proposals[p].case, ClosedBy(p))
  BY <1>2 DEF Discard
<1>4. CasesInv' /\ ProposalsInv' /\ OneCaseAtATime'
  BY <1>0, <1>1, <1>2, <1>3, SettledKeeps
<1>5. SessionsInv' /\ RulesInv' /\ PipeInv' /\ RequestsInv'
  BY <1>0, <1>1, SessionsStay, RulesStay, PipeStays, RequestsStay DEF ruleset
<1>6. QED
  BY <1>1, <1>4, <1>5 DEF IInv

\* The block list and the policies change, and the engine with them (RemoveBlock, PolicyWrite).
LEMMA RuleStepsKeepIInv ==
  ASSUME ReviewAssumption, IInv,
         \/ \E v \in Values : RemoveBlock(v)
         \/ \E r \in Rules, policy \in {NoPolicy, PlainPolicy} : PolicyWrite(r, policy)
  PROVE  IInv'
<1>0. /\ SessionsInv /\ CasesInv /\ OneCaseAtATime /\ PipeInv /\ ProposalsInv /\ RulesInv /\ RequestsInv
  BY DEF IInv
<1>1. ASSUME NEW v \in Values, RemoveBlock(v) PROVE IInv'
  <2>1. /\ blocklist' = [blocklist EXCEPT ![v] = NoId] /\ storedBlocklist' = blocklist'
        /\ \/ engine' = EngineRules(policies, blocklist') /\ stale' = FALSE
           \/ v \notin Hosts /\ UNCHANGED <<engine, stale>>
        /\ UNCHANGED <<sessions, cases, proposals, dirtyInstalls, dirtyCases, flushing, storedSessions,
                       storedCases, storedProposals, policies, writes, pipe, requests, crashes>>
    BY <1>1 DEF RemoveBlock, dirty
  <2>2. blocklist' \in [Values -> CaseIds \cup {NoId}]
    BY <1>0, <2>1 DEF RulesInv
  <2>3. v \notin Hosts => Blocked(blocklist') = Blocked(blocklist)
    <3>1. \A h \in Hosts : h \in Values /\ (v # h => blocklist'[h] = blocklist[h])
      BY <1>0, <2>1 DEF RulesInv, Values
    <3>2. QED
      BY <3>1 DEF Blocked
  <2>4. RulesInv'
    <3>1. CASE engine' = EngineRules(policies, blocklist') /\ stale' = FALSE
      <4>1. engine' \in [policies : [Rules -> Policy], hosts : SUBSET Hosts]
        BY <1>0, <3>1 DEF RulesInv, EngineRules, Blocked
      <4>2. EngineCurrent'
        BY <2>1, <3>1 DEF EngineCurrent, EngineRules, Blocked
      <4>3. QED
        BY <1>0, <2>1, <2>2, <3>1, <4>1, <4>2 DEF RulesInv
    <3>2. CASE v \notin Hosts /\ UNCHANGED <<engine, stale>>
      <4>1. EngineCurrent'
        BY <1>0, <2>1, <2>3, <3>2 DEF RulesInv, EngineCurrent, EngineRules
      <4>2. QED
        BY <1>0, <2>1, <2>2, <3>2, <4>1 DEF RulesInv
    <3>3. QED
      BY <2>1, <3>1, <3>2
  <2>5. QED
    BY <1>0, <2>1, <2>4, SessionsStay, CasesStay, ProposalsStayToo, PipeStays, RequestsStay DEF IInv
<1>2. ASSUME NEW r \in Rules, NEW policy \in {NoPolicy, PlainPolicy}, PolicyWrite(r, policy) PROVE IInv'
  <2>1. /\ policies' = [policies EXCEPT ![r] = policy] /\ writes < MaxWrites /\ writes' = writes + 1
        /\ \/ engine' = EngineRules(policies', blocklist) /\ stale' = FALSE
           \/ stale' = TRUE /\ UNCHANGED engine
        /\ UNCHANGED <<sessions, cases, proposals, blocklist, dirtyInstalls, dirtyCases, flushing, storedSessions,
                       storedCases, storedProposals, storedBlocklist, pipe, requests, crashes>>
    BY <1>2 DEF PolicyWrite, cache, dirty, store
  <2>2. policies' \in [Rules -> Policy]
    <3>1. policy \in Policy
      <4>1. NoPolicy \in Policy
        BY DEF Policy, NoPolicy
      <4>2. PlainPolicy \in Policy
        BY DEF Policy, PlainPolicy
      <4>3. QED
        BY <4>1, <4>2
    <3>2. QED
      BY <1>0, <2>1, <3>1 DEF RulesInv
  <2>3. RulesInv'
    <3>1. CASE engine' = EngineRules(policies', blocklist) /\ stale' = FALSE
      <4>1. engine' \in [policies : [Rules -> Policy], hosts : SUBSET Hosts]
        BY <2>2, <3>1 DEF EngineRules, Blocked
      <4>2. EngineCurrent'
        BY <2>1, <3>1 DEF EngineCurrent, EngineRules, Blocked
      <4>3. QED
        BY <1>0, <2>1, <2>2, <3>1, <4>1, <4>2 DEF RulesInv
    <3>2. CASE stale' = TRUE /\ UNCHANGED engine
      BY <1>0, <2>1, <2>2, <3>2 DEF RulesInv, EngineCurrent
    <3>3. QED
      BY <2>1, <3>1, <3>2
  <2>4. RequestsInv'
    BY <1>0, <2>1 DEF RequestsInv, requests, ReviewAssumption
  <2>5. QED
    BY <1>0, <2>1, <2>3, <2>4, SessionsStay, CasesStay, ProposalsStayToo, PipeStays DEF IInv
<1>3. QED
  BY <1>1, <1>2

\* The first half of FromScan: the case of the selection.
LEMMA FromScanKeepsIInv ==
  ASSUME ReviewAssumption, IInv, NEW k \in Callers, NEW x \in Selections, FromScan(k, x)
  PROVE  IInv'
<1>0. /\ SessionsInv /\ CasesInv /\ OneCaseAtATime /\ PipeInv /\ ProposalsInv /\ RulesInv /\ RequestsInv
  BY DEF IInv
<1> DEFINE found == {i \in Used(cases) : cases[i].source = "scan" /\ cases[i].of = x}
<1> DEFINE i == IF found # {} THEN Newest(found) ELSE NextId(cases)
<1>1. /\ WriteLocked /\ i \in CaseIds /\ callers' = [callers EXCEPT ![k] = i]
      /\ \/ UNCHANGED <<cases, storedCases, dirtyCases>>
         \/ found = {} /\ CommitCase(i, NewCase("scan", x))
      /\ UNCHANGED <<sessions, proposals, blocklist, dirtyInstalls, flushing, storedSessions, storedProposals,
                     storedBlocklist, ruleset, pipe, refused, crashes>>
  BY DEF FromScan
<1>2. SessionsInv' /\ RulesInv' /\ PipeInv' /\ RequestsInv'
  <2> HIDE DEF i
  <2>1. RequestsInv'
    BY <1>0, <1>1 DEF RequestsInv, ruleset
  <2>2. RulesInv'
    BY <1>0, <1>1, RulesStay DEF ruleset
  <2>3. QED
    BY <1>0, <1>1, <2>1, <2>2, SessionsStay, PipeStays
<1>3. CASE UNCHANGED <<cases, storedCases, dirtyCases>>
  BY <1>0, <1>1, <1>2, <1>3, CasesStay, ProposalsStayToo DEF IInv
<1>4. CASE found = {} /\ CommitCase(i, NewCase("scan", x))
  <2>1. cases[i] = None
    BY <1>0, <1>1, <1>4, FreeCase
  <2>2. Unrivalled("scan", x)
    BY <1>4 DEF Unrivalled
  <2> HIDE DEF i, found
  <2> DEFINE c == NewCase("scan", x)
  <2>3. c \in GoodCase /\ c.source = "scan" /\ c.of = x
    <3>1. "scan" \in Sources /\ x \in Subjects("scan")
      BY DEF Sources, Subjects
    <3>2. QED
      BY <3>1, GoodNewCase
  <2>4. CommitCase(i, c)
    BY <1>4
  <2> HIDE DEF c
  <2>5. CasesInv' /\ OneCaseAtATime'
    BY <1>0, <1>1, <2>1, <2>2, <2>3, <2>4, CaseCommitted
  <2>6. ProposalsInv'
    <3>1. ASSUME NEW j \in Used(storedCases)
          PROVE  storedCases'[j] # None /\ SameLife(storedCases'[j], storedCases[j])
      <4>1. j \in CaseIds /\ storedCases[j] # None /\ cases[j] # None
        BY <1>0 DEF CasesInv, Used
      <4>2. storedCases'[j] = storedCases[j]
        BY <1>0, <2>1, <2>4, <4>1 DEF CasesInv, CommitCase
      <4>3. QED
        BY <4>1, <4>2 DEF SameLife
    <3>2. DOMAIN storedCases = CaseIds
      BY <1>0 DEF CasesInv
    <3>3. QED
      BY <1>0, <1>1, <3>1, <3>2, ProposalsStay
  <2>7. QED
    BY <1>1, <1>2, <2>5, <2>6 DEF IInv
<1>5. QED
  BY <1>1, <1>3, <1>4

\* The second half of FromScan: a decision or a conflict.
LEMMA AnswersKeepIInv ==
  ASSUME ReviewAssumption, IInv, NEW k \in Callers, FromScanDecides(k) \/ FromScanRefused(k)
  PROVE  IInv'
<1>1. callers' = [callers EXCEPT ![k] = NoId] /\ refused' \in {refused, refused \cup {k}} /\ callers[k] # NoId
  BY DEF FromScanDecides, FromScanRefused
<1>2. CASE FromScanDecides(k)
  <2>1. callers[k] \in CaseIds /\ "malicious" \in Decisions /\ Judge(callers[k], "malicious")
    BY <1>1, <1>2 DEF IInv, RequestsInv, FromScanDecides, Decisions
  <2>2. UNCHANGED <<writes, crashes>>
    BY <2>1 DEF Judge, ruleset
  <2>3. RequestsInv'
    BY <1>1, <2>2 DEF IInv, RequestsInv
  <2>4. QED
    BY <2>1, <2>3, JudgeKeepsIInv
<1>3. CASE FromScanRefused(k)
  <2>1. UNCHANGED <<sessions, cases, proposals, blocklist, dirtyInstalls, dirtyCases, flushing, storedSessions,
                    storedCases, storedProposals, storedBlocklist, ruleset, pipe, crashes>>
    BY <1>3 DEF FromScanRefused, cache, dirty, store
  <2>2. RequestsInv'
    BY <1>1, <2>1 DEF IInv, RequestsInv, ruleset
  <2>3. QED
    BY <2>1, <2>2, SessionsStay, CasesStay, ProposalsStayToo, RulesStay, PipeStays DEF IInv, ruleset
<1>4. QED
  BY <1>2, <1>3

-----------------------------------------------------------------------------
(* The invariant and what it says.                                         *)

\* The invariant holds of an empty store.
LEMMA InitIInv == ASSUME ReviewAssumption, Init PROVE IInv
<1>1. SessionsInv
  BY DEF Init, SessionsInv, NoFlush, Used
<1>2. CasesInv /\ OneCaseAtATime
  BY DEF Init, CasesInv, OneCaseAtATime, NoFlush, Used
<1>3. ProposalsInv
  BY DEF Init, ProposalsInv, Used
<1>4. RulesInv
  <2>1. PlainPolicy \in Policy
    BY DEF PlainPolicy, Policy
  <2>2. policies \in [Rules -> Policy] /\ blocklist \in [Values -> CaseIds \cup {NoId}]
    BY <2>1 DEF Init
  <2>3. engine = EngineRules(policies, blocklist) /\ stale = FALSE /\ storedBlocklist = blocklist
    BY DEF Init
  <2>4. engine \in [policies : [Rules -> Policy], hosts : SUBSET Hosts]
    BY <2>2, <2>3 DEF EngineRules, Blocked
  <2>5. QED
    BY <2>2, <2>3, <2>4 DEF RulesInv, EngineCurrent
<1>5. PipeInv
  BY DEF Init, PipeInv, ReviewAssumption
<1>6. RequestsInv
  BY DEF Init, RequestsInv, ReviewAssumption
<1>7. QED
  BY <1>1, <1>2, <1>3, <1>4, <1>5, <1>6 DEF IInv, Init, NoFlush

(***************************************************************************)
(* Every step preserves the invariant.                                     *)
(***************************************************************************)
LEMMA NextIInv == ASSUME ReviewAssumption, IInv, [Next]_vars PROVE IInv'
<1>1. ASSUME NEW s \in Sandboxes,
             StartInstall(s) \/ AttachScan(s) \/ FinishInstall(s) \/ ObserveNormal(s) \/ ContainerExited(s)
      PROVE  IInv'
  BY <1>1, SessionStepsKeepIInv
<1>2. ASSUME NEW s \in Sandboxes, NEW d \in Details, NEW l \in LevelsSeen, ObserveInstall(s, d, l) PROVE IInv'
  BY <1>2, ObserveInstallKeepsIInv
<1>3. ASSUME NEW c \in Runtimes, NEW d \in Details, NEW l \in LevelsSeen, ObserveRuntime(c, d, l) PROVE IInv'
  BY <1>3, ObserveRuntimeKeepsIInv
<1>4. CASE (\E c \in Containers : ContainerStarted(c)) \/ (\E l \in LevelsSeen \ {Alert} : ObserveBlockedImage(l))
  BY <1>4, StartsKeepIInv
<1>5. CASE AuditSaved
  BY <1>5, AuditSavedKeepsIInv
<1>6. CASE FlushBegin
  BY <1>6, FlushBeginKeepsIInv
<1>7. CASE FlushSaved
  BY <1>7, FlushSavedKeepsIInv
<1>8. CASE FlushFailed
  BY <1>8, FlushFailedKeepsIInv
<1>9. ASSUME NEW i \in CaseIds, NEW decision \in Decisions, Decide(i, decision) PROVE IInv'
  <2>1. Judge(i, decision) /\ UNCHANGED requests
    BY <1>9 DEF Decide
  <2>2. RequestsInv'
    BY <2>1, RequestsStay DEF Judge, IInv, ruleset
  <2>3. QED
    BY <2>1, <2>2, JudgeKeepsIInv
<1>10. ASSUME NEW p \in ProposalIds, Apply(p) \/ Discard(p) PROVE IInv'
  BY <1>10, ApplyKeepsIInv, DiscardKeepsIInv
<1>11. CASE \/ \E v \in Values : RemoveBlock(v)
            \/ \E r \in Rules, policy \in {NoPolicy, PlainPolicy} : PolicyWrite(r, policy)
  BY <1>11, RuleStepsKeepIInv
<1>12. ASSUME NEW k \in Callers, NEW x \in Selections, FromScan(k, x) PROVE IInv'
  BY <1>12, FromScanKeepsIInv
<1>13. ASSUME NEW k \in Callers, FromScanDecides(k) \/ FromScanRefused(k) PROVE IInv'
  BY <1>13, AnswersKeepIInv
<1>14. CASE Crash
  BY <1>14, CrashKeepsIInv
<1>15. CASE UNCHANGED vars
  <2>1. UNCHANGED <<sessions, cases, proposals, blocklist, dirtyInstalls, dirtyCases, flushing, storedSessions,
                    storedCases, storedProposals, storedBlocklist, ruleset, pipe, requests, crashes>>
    BY <1>15 DEF vars, cache, dirty, store
  <2>2. UNCHANGED <<policies, engine, stale, writes>>
    BY <2>1 DEF ruleset
  <2>3. QED
    BY <2>1, <2>2, SessionsStay, CasesStay, ProposalsStayToo, RulesStay, PipeStays, RequestsStay DEF IInv
<1>16. QED
  BY <1>1, <1>2, <1>3, <1>4, <1>5, <1>6, <1>7, <1>8, <1>9, <1>10, <1>11, <1>12, <1>13, <1>14, <1>15 DEF Next

\* The invariant holds of every behaviour.
LEMMA SpecIInv == Spec => []IInv
<1>1. Init => IInv
  BY ReviewAssumption, InitIInv
<1>2. IInv /\ [Next]_vars => IInv'
  BY ReviewAssumption, NextIInv
<1>3. QED
  BY <1>1, <1>2, PTL DEF Spec

(***************************************************************************)
(* Type correctness of the review service, with the limits of sessions and *)
(* cases on the violations they keep (addViolation, addToCase).            *)
(***************************************************************************)
THEOREM ReviewTypeCorrect == Spec => []TypeOK
<1>1. ASSUME IInv PROVE TypeOK
  <2>1. GoodSession \subseteq Session /\ GoodCase \subseteq Case
    BY DEF GoodSession, GoodCase
  <2>2. /\ sessions \in [Sandboxes -> Session \cup {None}] /\ storedSessions \in [Sandboxes -> Session \cup {None}]
        /\ cases \in [CaseIds -> Case \cup {None}] /\ storedCases \in [CaseIds -> Case \cup {None}]
        /\ dirtyInstalls \subseteq {s \in Sandboxes : sessions[s] # None}
        /\ dirtyCases \subseteq {i \in CaseIds : cases[i] # None}
    BY <1>1, <2>1 DEF IInv, SessionsInv, CasesInv, Used
  <2>3. \A s \in Sandboxes : sessions[s] # None => Cardinality(Violated(sessions[s].viol)) <= MaxViolations
    <3>1. \A x \in GoodSession : Cardinality(Violated(x.viol)) <= MaxViolations
      BY DEF GoodSession, Few
    <3>2. QED
      BY <1>1, <3>1 DEF IInv, SessionsInv
  <2>4. \A i \in CaseIds : cases[i] # None => Cardinality(Violated(cases[i].evidence)) <= MaxEvidence
    <3>1. \A c \in GoodCase : Cardinality(Violated(c.evidence)) <= MaxEvidence
      BY DEF GoodCase, Few
    <3>2. QED
      BY <1>1, <3>1 DEF IInv, CasesInv
  <2>5. flushing.active => /\ flushing.sessions \in [DOMAIN flushing.sessions -> Session]
                           /\ flushing.cases \in [DOMAIN flushing.cases -> Case]
    BY <1>1, <2>1 DEF IInv, SessionsInv, CasesInv
  <2>6. QED
    BY <1>1, <2>2, <2>3, <2>4, <2>5 DEF IInv, TypeOK, ProposalsInv, RulesInv, PipeInv, RequestsInv
<1>2. QED
  BY <1>1, SpecIInv, PTL

(***************************************************************************)
(* Nothing observed or requested is lost between cache and store, in any   *)
(* order of Observe, requests, flushes and crashes (commitLocked, Flush).  *)
(***************************************************************************)
THEOREM NothingIsLost == Spec => []CleanIsStored
<1>1. IInv => CleanIsStored
  BY DEF IInv, CleanIsStored, SessionsInv, CasesInv, ProposalsInv, RulesInv
<1>2. QED
  BY <1>1, SpecIInv, PTL

(***************************************************************************)
(* A container has one live runtime case and a selection one case, even    *)
(* with requests beside each other and lost numbers given out again        *)
(* (observeRuntime, FromScan, nextID).                                     *)
(***************************************************************************)
THEOREM CasesAreUnique == Spec => []OneCaseAtATime
<1>1. IInv => OneCaseAtATime
  BY DEF IInv
<1>2. QED
  BY <1>1, SpecIInv, PTL

(***************************************************************************)
(* The engine works with the rules people decided on (engineRules).        *)
(***************************************************************************)
THEOREM EngineStaysCurrent == Spec => []EngineCurrent
<1>1. IInv => EngineCurrent
  BY DEF IInv, RulesInv
<1>2. QED
  BY <1>1, SpecIInv, PTL

-----------------------------------------------------------------------------
(* The life of a case in the store.                                        *)

\* What CaseFlow sees of a case and of a proposal.
Stage(c) == IF c = None THEN "none" ELSE c.state
Answer(c) == IF c = None THEN NoId ELSE c.proposal
Topic(x) == IF x = None THEN NoId ELSE x.case

\* What CaseFlow requires of the initial states.
LEMMA LifeSees ==
  /\ Life!LInit <=> /\ [i \in CaseIds |-> Stage(storedCases[i])] = [i \in CaseIds |-> "none"]
                    /\ [i \in CaseIds |-> Answer(storedCases[i])] = [i \in CaseIds |-> 0]
                    /\ [p \in ProposalIds |-> Stage(storedProposals[p])] = [p \in ProposalIds |-> "none"]
                    /\ [p \in ProposalIds |-> Topic(storedProposals[p])] = [p \in ProposalIds |-> 0]
BY DEF Life!LInit, Stage, Answer, Topic

\* A step that leaves the stored cases and proposals alone is a stutter.
LEMMA LifeStutters == ASSUME UNCHANGED <<storedCases, storedProposals>> PROVE UNCHANGED Life!lvars
BY DEF Life!lvars

\* Cases that get into the store open become known.
LEMMA LifeOpens ==
  ASSUME storedProposals' = storedProposals,
         \A i \in CaseIds :
           \/ Stage(storedCases'[i]) = Stage(storedCases[i]) /\ Answer(storedCases'[i]) = Answer(storedCases[i])
           \/ /\ Stage(storedCases[i]) = "none" /\ Answer(storedCases[i]) = NoId
              /\ Stage(storedCases'[i]) = "open" /\ Answer(storedCases'[i]) = NoId
  PROVE  Life!LNext
<1> DEFINE status == [i \in CaseIds |-> Stage(storedCases[i])]
<1> DEFINE new == [i \in CaseIds |-> Stage(storedCases'[i])]
<1> DEFINE S == {i \in CaseIds : status[i] = "none" /\ new[i] = "open"}
<1>1. S \in SUBSET {i \in CaseIds : status[i] = "none"}
  OBVIOUS
<1>2. new = [i \in CaseIds |-> IF i \in S THEN "open" ELSE status[i]]
  <2>1. \A i \in CaseIds : new[i] = IF i \in S THEN "open" ELSE status[i]
    OBVIOUS
  <2>2. QED
    BY <2>1
<1>3. [i \in CaseIds |-> Answer(storedCases'[i])] = [i \in CaseIds |-> Answer(storedCases[i])]
  OBVIOUS
<1>4. Life!Open
  BY <1>1, <1>2, <1>3 DEF Life!Open, Stage, Answer
<1>5. QED
  BY <1>4 DEF Life!LNext

\* A case and its new draft.
LEMMA LifeJudges ==
  ASSUME CasesInv, ProposalsInv, NEW i \in CaseIds, NEW p \in ProposalIds, NEW c, NEW x,
         c # None, c.state = "decided", c.proposal = p, x # None, x.state = "draft", x.case = i,
         proposals[p] = None, Stage(storedCases[i]) \in {"none", "open"},
         CommitCase(i, c), CommitProposal(p, x)
  PROVE  Life!LNext
<1>1. /\ storedCases' = [storedCases EXCEPT ![i] = c] /\ storedProposals' = [storedProposals EXCEPT ![p] = x]
      /\ DOMAIN storedCases = CaseIds /\ DOMAIN storedProposals = ProposalIds /\ storedProposals[p] = None
  BY DEF CommitCase, CommitProposal, CasesInv, ProposalsInv
<1>2. /\ [j \in CaseIds |-> Stage(storedCases'[j])] = [[j \in CaseIds |-> Stage(storedCases[j])] EXCEPT ![i] = "decided"]
      /\ [j \in CaseIds |-> Answer(storedCases'[j])] = [[j \in CaseIds |-> Answer(storedCases[j])] EXCEPT ![i] = p]
      /\ [q \in ProposalIds |-> Stage(storedProposals'[q])]
           = [[q \in ProposalIds |-> Stage(storedProposals[q])] EXCEPT ![p] = "draft"]
      /\ [q \in ProposalIds |-> Topic(storedProposals'[q])]
           = [[q \in ProposalIds |-> Topic(storedProposals[q])] EXCEPT ![p] = i]
  BY <1>1 DEF Stage, Answer, Topic
<1>3. Stage(storedProposals[p]) = "none"
  BY <1>1 DEF Stage
<1>4. Life!Judge(i, p)
  BY <1>2, <1>3 DEF Life!Judge, Stage, Answer, Topic
<1>5. QED
  BY <1>4 DEF Life!LNext

\* A draft is settled, and its case closed.
LEMMA LifeSettles ==
  ASSUME CasesInv, ProposalsInv, NEW p \in ProposalIds, NEW outcome \in {"applied", "discarded"},
         proposals[p] # None, proposals[p].state = "draft", cases[proposals[p].case] # None,
         CommitCase(proposals[p].case, ClosedBy(p)),
         CommitProposal(p, [proposals[p] EXCEPT !.state = outcome])
  PROVE  Life!LNext
<1> DEFINE i == proposals[p].case
<1> DEFINE c == ClosedBy(p)
<1> DEFINE x == [proposals[p] EXCEPT !.state = outcome]
<1>1. proposals[p] \in Proposal /\ storedProposals[p] = proposals[p]
  BY DEF ProposalsInv
<1>2. i \in CaseIds /\ cases[i] \in GoodCase /\ x \in Proposal /\ x.state = outcome /\ x.case = i
  BY <1>1 DEF Proposal, CasesInv
<1>3. c \in GoodCase /\ c.state = "closed" /\ c.proposal = cases[i].proposal
  <2>1. c = [cases[i] EXCEPT !.state = "closed"]
    BY DEF ClosedBy
  <2> HIDE DEF c
  <2>2. QED
    BY <1>2, <2>1, GoodClosing
<1>4. storedCases[i] # None /\ storedCases[i].state = "decided" /\ storedCases[i].proposal = p
  BY DEF ProposalsInv, Used
<1>5. CommitCase(i, c) /\ CommitProposal(p, x)
  OBVIOUS
<1>6. storedProposals[p].case = i /\ storedProposals[p].state = "draft" /\ storedProposals[p] # None
  BY <1>1
<1> HIDE DEF i, c, x
<1>7. c # None /\ x # None /\ c.proposal = p
  BY <1>2, <1>3, <1>4, NothingIsNone DEF GoodCase, CasesInv, Used, SameLife
<1>8. /\ storedCases' = [storedCases EXCEPT ![i] = c] /\ storedProposals' = [storedProposals EXCEPT ![p] = x]
      /\ DOMAIN storedCases = CaseIds /\ DOMAIN storedProposals = ProposalIds
  BY <1>5 DEF CommitCase, CommitProposal, CasesInv, ProposalsInv
<1> DEFINE status == [j \in CaseIds |-> Stage(storedCases[j])]
<1> DEFINE answers == [j \in CaseIds |-> Answer(storedCases[j])]
<1> DEFINE outcomes == [q \in ProposalIds |-> Stage(storedProposals[q])]
<1> DEFINE topics == [q \in ProposalIds |-> Topic(storedProposals[q])]
<1>9. /\ [j \in CaseIds |-> Stage(storedCases'[j])] = [status EXCEPT ![i] = "closed"]
      /\ [j \in CaseIds |-> Answer(storedCases'[j])] = answers
      /\ [q \in ProposalIds |-> Stage(storedProposals'[q])] = [outcomes EXCEPT ![p] = outcome]
      /\ [q \in ProposalIds |-> Topic(storedProposals'[q])] = topics
  BY <1>2, <1>3, <1>4, <1>6, <1>7, <1>8 DEF Stage, Answer, Topic
<1>10. topics[p] = i /\ outcomes[p] = "draft" /\ status[topics[p]] = "decided" /\ answers[topics[p]] = p
  BY <1>2, <1>4, <1>6 DEF Stage, Answer, Topic
<1>11. Life!Settle(p)
  BY <1>9, <1>10 DEF Life!Settle, Stage, Answer, Topic
<1>12. QED
  BY <1>11 DEF Life!LNext

(***************************************************************************)
(* Every step of the service is a step in the life of a case or a stutter. *)
(***************************************************************************)
LEMMA NextImplementsLife ==
  ASSUME ReviewAssumption, IInv, [Next]_vars PROVE [Life!LNext]_(Life!lvars)
<1>0. CasesInv /\ ProposalsInv
  BY DEF IInv
<1>1. ASSUME NEW i \in CaseIds, NEW decision \in Decisions, Judge(i, decision) PROVE Life!LNext
  <2> DEFINE p == NextId(proposals)
  <2> DEFINE c == [cases[i] EXCEPT !.state = "decided", !.decision = decision, !.proposal = p]
  <2> DEFINE x == [case |-> i, decision |-> decision, state |-> "draft", changes |-> Draft(cases[i], decision)]
  <2>1. /\ cases[i] # None /\ cases[i].state = "open" /\ p \in ProposalIds
        /\ CommitCase(i, c) /\ CommitProposal(p, x)
    BY <1>1 DEF Judge, Decidable
  <2>2. cases[i] \in GoodCase /\ proposals[p] = None
    BY <1>0, <2>1, FreeProposal DEF CasesInv
  <2>3. x # None /\ x.state = "draft" /\ x.case = i
    BY DEF None
  <2> HIDE DEF p
  <2>4. c \in Case /\ c.state = "decided" /\ c.proposal = p
    BY <2>1, <2>2 DEF GoodCase, Case
  <2> HIDE DEF c, x
  <2>5. c # None
    BY <2>4, NothingIsNone
  <2>6. Stage(storedCases[i]) \in {"none", "open"}
    BY <1>0, <2>1 DEF Stage, CasesInv, Used, SameLife
  <2>7. QED
    BY <1>0, <2>1, <2>2, <2>3, <2>4, <2>5, <2>6, LifeJudges
<1>2. ASSUME NEW p \in ProposalIds, Apply(p) PROVE Life!LNext
  <2>1. "applied" \in {"applied", "discarded"}
    OBVIOUS
  <2>2. QED
    BY <1>0, <1>2, <2>1, LifeSettles DEF Apply
<1>3. ASSUME NEW p \in ProposalIds, Discard(p) PROVE Life!LNext
  <2>1. proposals[p] # None /\ proposals[p].state = "draft"
        /\ CommitProposal(p, [proposals[p] EXCEPT !.state = "discarded"])
    BY <1>3 DEF Discard
  <2>2. cases[proposals[p].case] # None
    <3>1. p \in Used(proposals) /\ proposals[p] \in Proposal
      BY <1>0, <2>1 DEF ProposalsInv, Used
    <3>2. proposals[p].case \in CaseIds /\ storedCases[proposals[p].case] # None
      BY <1>0, <2>1, <3>1 DEF ProposalsInv, Proposal
    <3>3. QED
      BY <1>0, <3>2 DEF CasesInv, Used
  <2>3. CommitCase(proposals[p].case, ClosedBy(p)) /\ "discarded" \in {"applied", "discarded"}
    BY <1>3, <2>2 DEF Discard
  <2>4. QED
    BY <1>0, <2>1, <2>2, <2>3, LifeSettles
<1>4. CASE FlushSaved
  <2>1. flushing.active /\ storedProposals' = storedProposals
        /\ storedCases' = Overwrite(storedCases, flushing.cases)
    BY <1>4 DEF FlushSaved
  <2>2. ASSUME NEW i \in CaseIds
        PROVE  \/ Stage(storedCases'[i]) = Stage(storedCases[i]) /\ Answer(storedCases'[i]) = Answer(storedCases[i])
               \/ /\ Stage(storedCases[i]) = "none" /\ Answer(storedCases[i]) = NoId
                  /\ Stage(storedCases'[i]) = "open" /\ Answer(storedCases'[i]) = NoId
    <3>1. storedCases'[i] = IF i \in DOMAIN flushing.cases THEN flushing.cases[i] ELSE storedCases[i]
      BY <1>0, <2>1 DEF Overwrite, CasesInv
    <3>2. CASE i \in DOMAIN flushing.cases
      <4>1. /\ flushing.cases[i] # None /\ cases[i] # None /\ SameLife(flushing.cases[i], cases[i])
            /\ i \in Used(cases)
        BY <1>0, <2>1, <3>2, NothingIsNone DEF CasesInv, Used, GoodCase
      <4>2. storedCases[i] # None => SameLife(storedCases[i], cases[i])
        BY <1>0 DEF CasesInv, Used
      <4>3. storedCases[i] = None => cases[i].state = "open" /\ cases[i].proposal = NoId
        BY <1>0, <4>1 DEF CasesInv
      <4>4. QED
        BY <3>1, <3>2, <4>1, <4>2, <4>3 DEF Stage, Answer, SameLife
    <3>3. CASE i \notin DOMAIN flushing.cases
      BY <3>1, <3>3
    <3>4. QED
      BY <3>2, <3>3
  <2>3. QED
    BY <2>1, <2>2, LifeOpens
<1>5. ASSUME NEW k \in Callers, NEW x \in Selections, FromScan(k, x) PROVE [Life!LNext]_(Life!lvars)
  <2>1. PICK i \in CaseIds :
          /\ storedProposals' = storedProposals
          /\ \/ storedCases' = storedCases
             \/ CommitCase(i, NewCase("scan", x)) /\ cases[i] = None
    BY <1>0, <1>5, FreeCase DEF FromScan
  <2>2. CASE storedCases' = storedCases
    BY <2>1, <2>2, LifeStutters
  <2>3. CASE CommitCase(i, NewCase("scan", x)) /\ cases[i] = None
    <3> DEFINE c == NewCase("scan", x)
    <3>1. c.state = "open" /\ c.proposal = NoId /\ c # None
      <4>1. "scan" \in Sources /\ x \in Subjects("scan")
        BY DEF Sources, Subjects
      <4>2. c \in GoodCase /\ c.state = "open" /\ c.proposal = NoId
        BY <4>1, GoodNewCase
      <4>3. QED
        BY <4>2, NothingIsNone DEF GoodCase
    <3>2. storedCases' = [storedCases EXCEPT ![i] = c]
      BY <2>3 DEF CommitCase
    <3> HIDE DEF c
    <3>3. storedCases[i] = None
      BY <1>0, <2>3 DEF CasesInv, Used
    <3>4. storedCases'[i] = c /\ \A j \in CaseIds : j # i => storedCases'[j] = storedCases[j]
      BY <1>0, <3>2 DEF CasesInv
    <3>5. \A j \in CaseIds :
           \/ Stage(storedCases'[j]) = Stage(storedCases[j]) /\ Answer(storedCases'[j]) = Answer(storedCases[j])
           \/ /\ Stage(storedCases[j]) = "none" /\ Answer(storedCases[j]) = NoId
              /\ Stage(storedCases'[j]) = "open" /\ Answer(storedCases'[j]) = NoId
      BY <3>1, <3>3, <3>4 DEF Stage, Answer
    <3>6. QED
      BY <2>1, <3>5, LifeOpens
  <2>4. QED
    BY <2>1, <2>2, <2>3
<1>6. ASSUME NEW i \in CaseIds, NEW decision \in Decisions, Decide(i, decision) PROVE Life!LNext
  BY <1>1, <1>6 DEF Decide
<1>7. ASSUME NEW k \in Callers, FromScanDecides(k) PROVE Life!LNext
  <2>1. callers[k] \in CaseIds /\ "malicious" \in Decisions /\ Judge(callers[k], "malicious")
    BY <1>7 DEF IInv, RequestsInv, FromScanDecides, Decisions
  <2>2. QED
    BY <1>1, <2>1
<1>8. ASSUME \/ \E s \in Sandboxes : StartInstall(s) \/ AttachScan(s) \/ FinishInstall(s) \/ ObserveNormal(s) \/ ContainerExited(s)
             \/ \E s \in Sandboxes, d \in Details, l \in LevelsSeen : ObserveInstall(s, d, l)
             \/ \E c \in Runtimes, d \in Details, l \in LevelsSeen : ObserveRuntime(c, d, l)
             \/ \E c \in Containers : ContainerStarted(c)
             \/ \E l \in LevelsSeen \ {Alert} : ObserveBlockedImage(l)
             \/ AuditSaved \/ FlushBegin \/ FlushFailed
             \/ \E v \in Values : RemoveBlock(v)
             \/ \E r \in Rules, policy \in {NoPolicy, PlainPolicy} : PolicyWrite(r, policy)
             \/ \E k \in Callers : FromScanRefused(k)
             \/ Crash \/ UNCHANGED vars
      PROVE  UNCHANGED Life!lvars
  <2>1. UNCHANGED <<storedCases, storedProposals>>
    BY <1>8, ZenonT(40) DEF StartInstall, AttachScan, FinishInstall, ObserveNormal, ContainerExited, ObserveInstall,
                ObserveRuntime, ContainerStarted, ObserveBlockedImage, AuditSaved, FlushBegin, FlushFailed,
                RemoveBlock, PolicyWrite, FromScanRefused, Crash, vars, store
  <2>2. QED
    BY <2>1, LifeStutters
<1>9. QED
  BY <1>2, <1>3, <1>4, <1>5, <1>6, <1>7, <1>8 DEF Next

(***************************************************************************)
(* The review service implements the life of a case: a judgement and its   *)
(* draft, a settled draft and its closed case get into the store together  *)
(* and stay there, whatever Flush writes late or a crash loses.            *)
(***************************************************************************)
THEOREM ReviewImplementsCaseFlow == Spec => ImplementsCaseFlow
<1>1. Init => Life!LInit
  BY LifeSees DEF Init, Stage, Answer, Topic, NoId
<1>2. IInv /\ [Next]_vars => [Life!LNext]_(Life!lvars)
  BY ReviewAssumption, NextImplementsLife
<1>3. QED
  BY <1>1, <1>2, SpecIInv, PTL DEF Spec, ImplementsCaseFlow, Life!LSpec


-----------------------------------------------------------------------------
(***************************************************************************)
(* The isolations the review service records (IsolationIsOwn of Review),   *)
(* for every set of containers, every limit and any number of crashes.     *)
(*                                                                         *)
(* AuditSaved records a row of the audit log in the session and the case   *)
(* of a kill that was judged some steps before.  So the argument follows a *)
(* verdict on its way: what waits in the queue names a case that is there  *)
(* and is of the killed container (QueueRows), which needs that sessions   *)
(* name cases of their own (SessionCases); and as requests, Flush and      *)
(* crashes move copies between cache and store, what is recorded must be   *)
(* right in every copy.                                                    *)
(***************************************************************************)

-----------------------------------------------------------------------------
(* The invariant.                                                          *)

\* f: sessions, cases; a: the audit log; n: the number of crashes.
SessionRows(f, a) ==
  \A s \in DOMAIN f : f[s] # None /\ f[s].iso # 0 =>
    f[s].iso \in DOMAIN a /\ a[f[s].iso].of = s

\* Verdict v is about the container of case c, or its own case was lost.
Fits(v, c, n) == v.of = c.of \/ (n > 0 /\ v.of \in Sandboxes)

CaseRow(i, c, a, n) ==
  c.iso # 0 => /\ c.iso \in DOMAIN a
               /\ a[c.iso].case = i /\ ~a[c.iso].blocked /\ Fits(a[c.iso], c, n)

CaseRows(f, a, n) == \A i \in DOMAIN f : f[i] # None => CaseRow(i, f[i], a, n)

QueueRows(q, f, n) ==
  \A k \in 1 .. Len(q) : q[k].case # NoId /\ ~q[k].blocked =>
    q[k].case \in CaseIds /\ f[q[k].case] # None /\ Fits(q[k], f[q[k].case], n)

SessionCases(f, g, n) ==
  n = 0 => \A s \in Sandboxes : f[s] # None /\ f[s].case # NoId =>
             g[f[s].case] # None /\ g[f[s].case].of = s

RowsInv ==
  /\ SessionRows(sessions, audit) /\ SessionRows(storedSessions, audit)
  /\ flushing.active => SessionRows(flushing.sessions, audit)
  /\ CaseRows(cases, audit, crashes) /\ CaseRows(storedCases, audit, crashes)
  /\ flushing.active => CaseRows(flushing.cases, audit, crashes)
  /\ QueueRows(queue, cases, crashes) /\ SessionCases(sessions, cases, crashes)

\* What the argument needs of the types.
LEMMA TypesKnown ==
  ASSUME IInv
  PROVE  /\ sessions \in [Sandboxes -> Session \cup {None}]
         /\ storedSessions \in [Sandboxes -> Session \cup {None}]
         /\ cases \in [CaseIds -> Case \cup {None}]
         /\ storedCases \in [CaseIds -> Case \cup {None}]
         /\ queue \in Seq(Verdict) /\ audit \in Seq(Verdict) /\ crashes \in Nat
BY DEF IInv, SessionsInv, CasesInv, PipeInv, RequestsInv, GoodSession, GoodCase

-----------------------------------------------------------------------------
(* Steps that record nothing.                                              *)

\* From f to g no session gets an isolation or another case.
SessionsEvolve(f, g) ==
  \A s \in Sandboxes : g[s] # None =>
    \/ g[s].iso = 0 /\ g[s].case = NoId
    \/ f[s] # None /\ g[s].iso = f[s].iso /\ g[s].case = f[s].case

\* From f to g no case gets an isolation or is lost, and new ones have none.
CasesEvolve(f, g) ==
  \A i \in CaseIds :
    /\ f[i] # None => g[i] # None /\ g[i].of = f[i].of /\ g[i].iso = f[i].iso
    /\ f[i] = None /\ g[i] # None => g[i].iso = 0

\* The store, from f to g, takes over what the cache now has, or stays.
Follows(f, g, c) == \A x \in DOMAIN g : g[x] = f[x] \/ g[x] = c[x]

LEMMA SessionRowsKept ==
  ASSUME NEW f, NEW g, NEW a, SessionRows(f, a), DOMAIN f = Sandboxes, DOMAIN g = Sandboxes,
         \A s \in Sandboxes : g[s] # None /\ g[s].iso # 0 => f[s] # None /\ g[s].iso = f[s].iso
  PROVE  SessionRows(g, a)
BY DEF SessionRows

LEMMA CaseRowsKept ==
  ASSUME NEW f, NEW g, NEW a, NEW n, CaseRows(f, a, n), DOMAIN f = CaseIds, DOMAIN g = CaseIds,
         CasesEvolve(f, g)
  PROVE  CaseRows(g, a, n)
<1> SUFFICES ASSUME NEW i \in CaseIds, g[i] # None, g[i].iso # 0
             PROVE  CaseRow(i, g[i], a, n)
  BY DEF CaseRows, CaseRow
<1>1. f[i] # None /\ g[i].iso = f[i].iso /\ g[i].of = f[i].of
  BY DEF CasesEvolve
<1>2. CaseRow(i, f[i], a, n)
  BY <1>1 DEF CaseRows
<1>3. QED
  BY <1>1, <1>2 DEF CaseRow, Fits

LEMMA QueueRowsKept ==
  ASSUME NEW q, NEW f, NEW g, NEW n, QueueRows(q, f, n), CasesEvolve(f, g)
  PROVE  QueueRows(q, g, n)
BY DEF QueueRows, CasesEvolve, Fits

LEMMA SessionCasesKept ==
  ASSUME NEW f \in [Sandboxes -> Session \cup {None}], NEW f2, NEW g, NEW g2, NEW n,
         SessionCases(f, g, n), SessionsEvolve(f, f2), CasesEvolve(g, g2)
  PROVE  SessionCases(f2, g2, n)
<1> SUFFICES ASSUME n = 0, NEW s \in Sandboxes, f2[s] # None, f2[s].case # NoId
             PROVE  g2[f2[s].case] # None /\ g2[f2[s].case].of = s
  BY DEF SessionCases
<1>1. f[s] # None /\ f2[s].case = f[s].case
  BY DEF SessionsEvolve
<1>2. f[s] \in Session
  BY <1>1
<1>3. f[s].case \in CaseIds
  BY <1>1, <1>2 DEF Session
<1>4. g[f[s].case] # None /\ g[f[s].case].of = s
  BY <1>1 DEF SessionCases
<1>5. QED
  BY <1>1, <1>3, <1>4 DEF CasesEvolve

LEMMA StoredSessionRows ==
  ASSUME NEW f, NEW g, NEW c, NEW a, SessionRows(f, a), SessionRows(c, a), Follows(f, g, c),
         DOMAIN f = DOMAIN g, DOMAIN c = DOMAIN g
  PROVE  SessionRows(g, a)
BY DEF SessionRows, Follows

LEMMA StoredCaseRows ==
  ASSUME NEW f, NEW g, NEW c, NEW a, NEW n, CaseRows(f, a, n), CaseRows(c, a, n), Follows(f, g, c),
         DOMAIN f = DOMAIN g, DOMAIN c = DOMAIN g
  PROVE  CaseRows(g, a, n)
BY DEF CaseRows, Follows

\* What a step leaves of all rows that records nothing and lets Flush be.
LEMMA RowsStay ==
  ASSUME IInv, IInv', RowsInv, UNCHANGED <<flushing, audit, crashes>>,
         \A s \in Sandboxes : sessions'[s] # None /\ sessions'[s].iso # 0
                                => sessions[s] # None /\ sessions'[s].iso = sessions[s].iso,
         CasesEvolve(cases, cases'),
         Follows(storedSessions, storedSessions', sessions'),
         Follows(storedCases, storedCases', cases')
  PROVE  /\ SessionRows(sessions, audit)' /\ SessionRows(storedSessions, audit)'
         /\ flushing'.active => SessionRows(flushing'.sessions, audit')
         /\ CaseRows(cases, audit, crashes)' /\ CaseRows(storedCases, audit, crashes)'
         /\ flushing'.active => CaseRows(flushing'.cases, audit', crashes')
<1>1. /\ DOMAIN sessions = Sandboxes /\ DOMAIN storedSessions = Sandboxes
      /\ DOMAIN cases = CaseIds /\ DOMAIN storedCases = CaseIds
  BY TypesKnown
<1>2. /\ DOMAIN sessions' = Sandboxes /\ DOMAIN storedSessions' = Sandboxes
      /\ DOMAIN cases' = CaseIds /\ DOMAIN storedCases' = CaseIds
  BY DEF IInv, SessionsInv, CasesInv
<1>3. SessionRows(sessions', audit)
  BY <1>1, <1>2, SessionRowsKept DEF RowsInv
<1>4. SessionRows(storedSessions', audit)
  BY <1>1, <1>2, <1>3, StoredSessionRows DEF RowsInv
<1>5. CaseRows(cases', audit, crashes)
  BY <1>1, <1>2, CaseRowsKept DEF RowsInv
<1>6. CaseRows(storedCases', audit, crashes)
  BY <1>1, <1>2, <1>5, StoredCaseRows DEF RowsInv
<1>7. audit' = audit /\ crashes' = crashes /\ flushing' = flushing
  OBVIOUS
<1>8. QED
  BY <1>3, <1>4, <1>5, <1>6, <1>7 DEF RowsInv, SessionRows, CaseRows

LEMMA QuietKeeps ==
  ASSUME IInv, IInv', RowsInv, UNCHANGED <<flushing, queue, audit, crashes>>,
         SessionsEvolve(sessions, sessions'), CasesEvolve(cases, cases'),
         Follows(storedSessions, storedSessions', sessions'),
         Follows(storedCases, storedCases', cases')
  PROVE  RowsInv'
<1>1. \A s \in Sandboxes : sessions'[s] # None /\ sessions'[s].iso # 0
                             => sessions[s] # None /\ sessions'[s].iso = sessions[s].iso
  BY DEF SessionsEvolve
<1>2. QueueRows(queue, cases', crashes)
  BY QueueRowsKept DEF RowsInv
<1>3. SessionCases(sessions', cases', crashes)
  BY TypesKnown, SessionCasesKept DEF RowsInv
<1>4. QueueRows(queue, cases, crashes)' /\ SessionCases(sessions, cases, crashes)'
  BY <1>2, <1>3 DEF QueueRows, SessionCases
<1>5. QED
  BY <1>1, <1>4, RowsStay DEF RowsInv

LEMMA NothingEvolves ==
  /\ UNCHANGED sessions => SessionsEvolve(sessions, sessions')
  /\ UNCHANGED cases => CasesEvolve(cases, cases')
  /\ UNCHANGED storedSessions => Follows(storedSessions, storedSessions', sessions')
  /\ UNCHANGED storedCases => Follows(storedCases, storedCases', cases')
BY DEF SessionsEvolve, CasesEvolve, Follows

\* One session changes, in the cache or also in the store.
LEMMA OneSessionEvolves ==
  ASSUME IInv, NEW s \in Sandboxes, NEW x, sessions' = [sessions EXCEPT ![s] = x],
         \/ x.iso = 0 /\ x.case = NoId
         \/ sessions[s] # None /\ x.iso = sessions[s].iso /\ x.case = sessions[s].case
  PROVE  SessionsEvolve(sessions, sessions')
BY TypesKnown DEF SessionsEvolve

LEMMA OneCaseEvolves ==
  ASSUME IInv, NEW i \in CaseIds, NEW c, c # None, cases' = [cases EXCEPT ![i] = c],
         \/ cases[i] # None /\ c.of = cases[i].of /\ c.iso = cases[i].iso
         \/ cases[i] = None /\ c.iso = 0
  PROVE  CasesEvolve(cases, cases')
BY TypesKnown DEF CasesEvolve

LEMMA CommitsFollow ==
  ASSUME IInv
  PROVE  /\ \A s \in Sandboxes : \A x : CommitSession(s, x) => Follows(storedSessions, storedSessions', sessions')
         /\ \A i \in CaseIds : \A c : CommitCase(i, c) => Follows(storedCases, storedCases', cases')
BY TypesKnown DEF CommitSession, CommitCase, Follows

LEMMA SessionStepsKeepRows ==
  ASSUME IInv, IInv', RowsInv, NEW s \in Sandboxes,
         StartInstall(s) \/ AttachScan(s) \/ FinishInstall(s) \/ ObserveNormal(s) \/ ContainerExited(s)
  PROVE  RowsInv'
<1>1. UNCHANGED <<cases, storedCases, flushing, queue, audit, crashes>>
  BY DEF StartInstall, AttachScan, FinishInstall, ObserveNormal, ContainerExited, pipe, store
<1>2. sessions[s] # None => sessions[s] \in Session
  BY TypesKnown
<1>3. PICK x : /\ sessions' = [sessions EXCEPT ![s] = x]
               /\ \/ x.iso = 0 /\ x.case = NoId
                  \/ sessions[s] # None /\ x.iso = sessions[s].iso /\ x.case = sessions[s].case
               /\ UNCHANGED storedSessions \/ CommitSession(s, x)
  <2>1. CASE StartInstall(s)
    BY <2>1 DEF StartInstall, CommitSession, NewSession
  <2>2. CASE AttachScan(s)
    <3> DEFINE x == [sessions[s] EXCEPT !.notes = @ \cup {"scanned"}]
    <3>1. sessions[s] # None /\ x.iso = sessions[s].iso /\ x.case = sessions[s].case
      BY <1>2, <2>2 DEF AttachScan, Session
    <3>2. \/ CommitSession(s, x)
          \/ sessions' = [sessions EXCEPT ![s] = x] /\ UNCHANGED storedSessions
      BY <2>2 DEF AttachScan
    <3> HIDE DEF x
    <3>3. QED
      BY <3>1, <3>2 DEF CommitSession
  <2>3. CASE FinishInstall(s)
    <3> DEFINE x == [sessions[s] EXCEPT !.finished = TRUE]
    <3>1. sessions[s] # None /\ x.iso = sessions[s].iso /\ x.case = sessions[s].case
      BY <1>2, <2>3 DEF FinishInstall, Session
    <3>2. CommitSession(s, x)
      BY <2>3 DEF FinishInstall
    <3> HIDE DEF x
    <3>3. QED
      BY <3>1, <3>2 DEF CommitSession
  <2>4. CASE ObserveNormal(s) \/ ContainerExited(s)
    <3>1. PICK note : Noted(s, note) /\ sessions[s] # None /\ UNCHANGED storedSessions
      BY <2>4 DEF ObserveNormal, ContainerExited, store
    <3> DEFINE x == [sessions[s] EXCEPT !.notes = @ \cup {note}]
    <3>2. x.iso = sessions[s].iso /\ x.case = sessions[s].case
      BY <1>2, <3>1 DEF Session
    <3>3. sessions' = [sessions EXCEPT ![s] = x]
      BY <3>1 DEF Noted
    <3> HIDE DEF x
    <3>4. QED
      BY <3>1, <3>2, <3>3
  <2>5. QED
    BY <2>1, <2>2, <2>3, <2>4
<1>4. SessionsEvolve(sessions, sessions')
  BY <1>3, OneSessionEvolves
<1>5. Follows(storedSessions, storedSessions', sessions')
  BY <1>3, NothingEvolves, CommitsFollow
<1>6. QED
  BY <1>1, <1>4, <1>5, NothingEvolves, QuietKeeps

\* One case changes, in the cache and the store.
LEMMA CommitKeepsRows ==
  ASSUME IInv, IInv', RowsInv, UNCHANGED <<sessions, storedSessions, flushing, queue, audit, crashes>>,
         NEW i \in CaseIds, NEW c \in Case, CommitCase(i, c),
         \/ cases[i] # None /\ c.of = cases[i].of /\ c.iso = cases[i].iso
         \/ cases[i] = None /\ c.iso = 0
  PROVE  RowsInv'
<1>1. CasesEvolve(cases, cases')
  BY OneCaseEvolves, NothingIsNone DEF CommitCase
<1>2. Follows(storedCases, storedCases', cases')
  BY CommitsFollow
<1>3. QED
  BY <1>1, <1>2, NothingEvolves, QuietKeeps

LEMMA JudgeKeepsRows ==
  ASSUME IInv, IInv', RowsInv, NEW i \in CaseIds, NEW decision \in Decisions, Judge(i, decision)
  PROVE  RowsInv'
<1> DEFINE p == NextId(proposals)
           c == [cases[i] EXCEPT !.state = "decided", !.decision = decision, !.proposal = p]
<1>1. /\ cases[i] # None /\ p \in ProposalIds /\ CommitCase(i, c)
      /\ UNCHANGED <<sessions, storedSessions, flushing, queue, audit, crashes>>
  BY DEF Judge, Decidable, pipe
<1>2. cases[i] \in Case
  BY <1>1, TypesKnown
<1> HIDE DEF p
<1>3. c \in Case /\ c.of = cases[i].of /\ c.iso = cases[i].iso
  BY <1>1, <1>2 DEF Case
<1> HIDE DEF c
<1>4. QED
  BY <1>1, <1>3, CommitKeepsRows

LEMMA SettlingKeepsRows ==
  ASSUME IInv, IInv', RowsInv, NEW p \in ProposalIds, Apply(p) \/ Discard(p)
  PROVE  RowsInv'
<1> DEFINE i == proposals[p].case
<1>1. /\ UNCHANGED <<sessions, storedSessions, flushing, queue, audit, crashes>>
      /\ proposals[p] # None
      /\ \/ cases[i] # None /\ CommitCase(i, ClosedBy(p))
         \/ UNCHANGED <<cases, storedCases>>
  BY DEF Apply, Discard, pipe
<1>2. i \in CaseIds
  BY <1>1 DEF IInv, ProposalsInv, Proposal
<1> HIDE DEF i
<1>3. CASE UNCHANGED <<cases, storedCases>>
  BY <1>1, <1>3, NothingEvolves, QuietKeeps
<1>4. CASE cases[i] # None /\ CommitCase(i, ClosedBy(p))
  <2>1. cases[i] \in Case
    BY <1>2, <1>4, TypesKnown
  <2>2. ClosedBy(p) = [cases[i] EXCEPT !.state = "closed"]
    BY DEF ClosedBy, i
  <2>3. ClosedBy(p) \in Case /\ ClosedBy(p).of = cases[i].of /\ ClosedBy(p).iso = cases[i].iso
    BY <2>1, <2>2 DEF Case
  <2>4. QED
    BY <1>1, <1>2, <1>4, <2>3, CommitKeepsRows
<1>5. QED
  BY <1>1, <1>3, <1>4

LEMMA NewCaseTyped ==
  ASSUME NEW source \in Sources, NEW of \in Containers \cup Selections
  PROVE  /\ NewCase(source, of) \in Case /\ NewCase(source, of) # None
         /\ NewCase(source, of).iso = 0 /\ NewCase(source, of).of = of
<1>1. NoViolations \in [Details -> Levels]
  BY NothingIsFew
<1>2. 0 \in 0 .. MaxAudit
  BY ReviewAssumption
<1>3. NewCase(source, of) \in Case
  BY <1>1, <1>2 DEF NewCase, Case, Decisions
<1>4. QED
  BY <1>3, NothingIsNone DEF NewCase

LEMMA FromScanKeepsRows ==
  ASSUME IInv, IInv', RowsInv, NEW k \in Callers, NEW x \in Selections, FromScan(k, x)
  PROVE  RowsInv'
<1>1. UNCHANGED <<sessions, storedSessions, flushing, queue, audit, crashes>>
  BY DEF FromScan, pipe
<1>2. CASE UNCHANGED <<cases, storedCases>>
  BY <1>1, <1>2, NothingEvolves, QuietKeeps
<1>3. CASE NextId(cases) \in CaseIds /\ CommitCase(NextId(cases), NewCase("scan", x))
  <2>1. cases[NextId(cases)] = None
    BY <1>3, FreeCase, ReviewAssumption DEF IInv
  <2>2. NewCase("scan", x) \in Case /\ NewCase("scan", x).iso = 0
    BY NewCaseTyped DEF Sources
  <2>3. QED
    BY <1>1, <1>3, <2>1, <2>2, CommitKeepsRows
<1>4. QED
  BY <1>2, <1>3 DEF FromScan

-----------------------------------------------------------------------------
(* What the pipeline observes.                                             *)

\* The session of a started container is noted.
LEMMA StartKeepsRows ==
  ASSUME IInv, IInv', RowsInv, NEW c \in Containers, ContainerStarted(c)
  PROVE  RowsInv'
<1>1. UNCHANGED <<cases, storedSessions, storedCases, flushing, queue, audit, crashes>>
  BY DEF ContainerStarted, store
<1>2. CASE UNCHANGED sessions
  BY <1>1, <1>2, NothingEvolves, QuietKeeps
<1>3. CASE c \in Sandboxes /\ sessions[c] # None /\ Noted(c, "active")
  <2> DEFINE x == [sessions[c] EXCEPT !.notes = @ \cup {"active"}]
  <2>1. sessions[c] \in Session
    BY <1>3, TypesKnown
  <2>2. x.iso = sessions[c].iso /\ x.case = sessions[c].case
    BY <2>1 DEF Session
  <2>3. sessions' = [sessions EXCEPT ![c] = x]
    BY <1>3 DEF Noted
  <2> HIDE DEF x
  <2>4. SessionsEvolve(sessions, sessions')
    BY <1>3, <2>2, <2>3, OneSessionEvolves
  <2>5. QED
    BY <1>1, <2>4, NothingEvolves, QuietKeeps
<1>4. QED
  BY <1>2, <1>3 DEF ContainerStarted

\* A verdict that goes on to the audit log is of the container it names.
LEMMA ReportedRows ==
  ASSUME queue \in Seq(Verdict), NEW f, NEW n, QueueRows(queue, f, n),
         NEW c, NEW l, NEW i, NEW b, Report(c, l, i, b),
         i # NoId /\ ~b => /\ i \in CaseIds /\ f[i] # None
                           /\ f[i].of = c \/ (n > 0 /\ c \in Sandboxes)
  PROVE  QueueRows(queue', f, n)
<1> DEFINE v == [of |-> c, case |-> i, blocked |-> b]
<1>1. CASE queue' = queue
  BY <1>1
<1>2. CASE queue' = Append(queue, v)
  <2>1. v.of = c /\ v.case = i /\ v.blocked = b
    OBVIOUS
  <2> HIDE DEF v
  <2>2. \A k \in 1 .. Len(queue') : queue'[k] = v \/ (k \in 1 .. Len(queue) /\ queue'[k] = queue[k])
    BY <1>2
  <2>3. QED
    BY <2>1, <2>2 DEF QueueRows, Fits
<1>3. QED
  BY <1>1, <1>2 DEF Report

LEMMA BlockedImageKeepsRows ==
  ASSUME IInv, IInv', RowsInv, NEW l, ObserveBlockedImage(l)
  PROVE  RowsInv'
<1>1. UNCHANGED <<sessions, cases, storedSessions, storedCases, flushing, audit, crashes>>
  BY DEF ObserveBlockedImage, cache, store
<1>2. QueueRows(queue', cases, crashes)
  BY TypesKnown, ReportedRows DEF ObserveBlockedImage, RowsInv
<1>3. QueueRows(queue, cases, crashes)' /\ SessionCases(sessions, cases, crashes)'
  BY <1>1, <1>2 DEF RowsInv, QueueRows, SessionCases
<1>4. QED
  BY <1>1, <1>3, NothingEvolves, RowsStay DEF RowsInv, SessionsEvolve

\* Evidence leaves container and isolation of a case alone.
LEMMA EvidenceEvolves ==
  ASSUME NEW c \in Case, NEW d, NEW l
  PROVE  /\ WithEvidence(c, d, l).of = c.of /\ WithEvidence(c, d, l).iso = c.iso
         /\ WithEvidence(c, d, l) # None
<1> DEFINE w == WithEvidence(c, d, l)
<1>1. DOMAIN w = DOMAIN c /\ w.of = c.of /\ w.iso = c.iso
  BY DEF WithEvidence, Case
<1>2. "of" \in DOMAIN c
  BY DEF Case
<1>3. DOMAIN None = {"none"}
  BY DEF None
<1>4. QED
  BY <1>1, <1>2, <1>3

LEMMA RuntimeKeepsRows ==
  ASSUME IInv, IInv', RowsInv, NEW c \in Runtimes, NEW d \in Details, NEW l \in LevelsSeen,
         ObserveRuntime(c, d, l)
  PROVE  RowsInv'
<1> DEFINE i == IF Active(c) # {} THEN Newest(Active(c)) ELSE NextId(cases)
           old == IF Active(c) # {} THEN cases[i] ELSE NewCase("runtime", c)
<1>1. /\ i \in CaseIds /\ cases' = [cases EXCEPT ![i] = WithEvidence(old, d, l)]
      /\ Report(c, l, i, FALSE)
      /\ UNCHANGED <<sessions, storedSessions, storedCases, flushing, audit, crashes>>
  BY DEF ObserveRuntime, store
<1>2. /\ old \in Case /\ old.of = c
      /\ (cases[i] # None /\ old = cases[i]) \/ (cases[i] = None /\ old.iso = 0)
  <2>1. CASE Active(c) # {}
    <3>1. Active(c) \subseteq 1 .. MaxCases /\ MaxCases \in Nat
      BY TypesKnown, ReviewAssumption DEF Active, Used, CaseIds
    <3>2. i \in Active(c)
      BY <2>1, <3>1, NewestIsMember
    <3>3. cases[i] # None /\ cases[i].of = c
      BY <3>2 DEF Active, Used
    <3>4. QED
      BY <1>1, <2>1, <3>3, TypesKnown
  <2>2. CASE Active(c) = {}
    <3>1. cases[i] = None
      BY <1>1, <2>2, FreeCase, ReviewAssumption DEF IInv
    <3>2. old = NewCase("runtime", c) /\ "runtime" \in Sources /\ c \in Containers
      BY <2>2 DEF Sources, Containers
    <3>3. QED
      BY <3>1, <3>2, NewCaseTyped
  <2>3. QED
    BY <2>1, <2>2
<1> DEFINE w == WithEvidence(old, d, l)
<1>3. w.of = c /\ w.iso = old.iso /\ w # None
  BY <1>2, EvidenceEvolves
<1>4. cases' = [cases EXCEPT ![i] = w]
  BY <1>1
<1> HIDE DEF i, old, w
<1>5. CasesEvolve(cases, cases')
  BY <1>1, <1>2, <1>3, <1>4, OneCaseEvolves
<1>6. cases'[i] # None /\ cases'[i].of = c
  BY <1>1, <1>3, <1>4, TypesKnown
<1>7. QueueRows(queue, cases', crashes)
  BY <1>5, QueueRowsKept DEF RowsInv
<1>8. QueueRows(queue', cases', crashes)
  BY <1>1, <1>6, <1>7, TypesKnown, ReportedRows
<1>9. SessionCases(sessions, cases', crashes)
  BY <1>5, TypesKnown, SessionCasesKept DEF RowsInv, SessionsEvolve
<1>10. QueueRows(queue, cases, crashes)' /\ SessionCases(sessions, cases, crashes)'
  BY <1>1, <1>8, <1>9 DEF QueueRows, SessionCases
<1>11. QED
  BY <1>1, <1>5, <1>10, NothingEvolves, RowsStay DEF RowsInv, SessionsEvolve

\* Unless a crash took it away, the case a session names is its own: the first
\* violation opens it, and nobody else gets its number.
LEMMA InstallKeepsRows ==
  ASSUME IInv, IInv', RowsInv, NEW s \in Sandboxes, NEW d \in Details, NEW l \in LevelsSeen,
         ObserveInstall(s, d, l)
  PROVE  RowsInv'
<1>1. UNCHANGED <<storedSessions, storedCases, flushing, audit, crashes>>
  BY DEF ObserveInstall, store
<1>2. CASE sessions[s] = None
  <2>1. Report(s, l, NoId, FALSE) /\ UNCHANGED <<sessions, cases>>
    BY <1>2 DEF ObserveInstall
  <2>2. QueueRows(queue', cases, crashes)
    BY <2>1, TypesKnown, ReportedRows DEF RowsInv
  <2>3. QueueRows(queue, cases, crashes)' /\ SessionCases(sessions, cases, crashes)'
    BY <1>1, <2>1, <2>2 DEF RowsInv, QueueRows, SessionCases
  <2>4. QED
    BY <1>1, <2>1, <2>3, NothingEvolves, RowsStay DEF RowsInv, SessionsEvolve
<1>3. CASE sessions[s] # None
  <2> DEFINE known == sessions[s].case # NoId
             i == IF known THEN sessions[s].case ELSE NextId(cases)
             c == IF known THEN cases[i] ELSE NewCase("install", s)
             x == [sessions[s] EXCEPT !.notes = @ \cup {"active"},
                                      !.viol = Raise(@, d, l, MaxViolations), !.case = i]
             w == WithEvidence(c, d, l)
  <2>1. /\ i \in CaseIds /\ c # None
        /\ sessions' = [sessions EXCEPT ![s].notes = @ \cup {"active"},
                                        ![s].viol = Raise(@, d, l, MaxViolations), ![s].case = i]
        /\ \/ c.state = "closed" /\ Report(s, l, NoId, FALSE) /\ UNCHANGED cases
           \/ cases' = [cases EXCEPT ![i] = w] /\ Report(s, l, i, FALSE)
    BY <1>3 DEF ObserveInstall
  <2>2. sessions[s] \in Session
    BY <1>3, TypesKnown
  <2>3. sessions' = [sessions EXCEPT ![s] = x] /\ x.iso = sessions[s].iso /\ x.case = i
    BY <2>1, <2>2, TypesKnown DEF Session
  <2>4. /\ c \in Case /\ (c.of = s \/ (known /\ crashes > 0))
        /\ (cases[i] # None /\ c = cases[i]) \/ (cases[i] = None /\ c.iso = 0 /\ c.state = "open")
    <3>1. CASE known
      <4>1. cases[i] # None /\ c = cases[i]
        BY <2>1, <3>1
      <4>2. crashes = 0 => cases[i].of = s
        BY <1>3, <3>1 DEF RowsInv, SessionCases
      <4>3. QED
        BY <2>1, <3>1, <4>1, <4>2, TypesKnown
    <3>2. CASE ~known
      <4>1. cases[i] = None
        BY <2>1, <3>2, FreeCase, ReviewAssumption DEF IInv
      <4>2. c = NewCase("install", s) /\ "install" \in Sources /\ s \in Containers
        BY <3>2 DEF Sources, Containers
      <4>3. c.state = "open"
        BY <4>2 DEF NewCase
      <4>4. QED
        BY <4>1, <4>2, <4>3, NewCaseTyped
    <3>3. QED
      BY <3>1, <3>2
  <2>5. w.of = c.of /\ w.iso = c.iso /\ w # None
    BY <2>4, EvidenceEvolves
  <2> HIDE DEF c, x, w
  <2>6. \/ UNCHANGED cases /\ c = cases[i] /\ cases[i] # None
        \/ cases' = [cases EXCEPT ![i] = w]
    BY <2>1, <2>4
  <2>7. CasesEvolve(cases, cases')
    BY <2>1, <2>4, <2>5, <2>6, OneCaseEvolves, NothingEvolves
  <2>8. cases'[i] # None /\ cases'[i].of = c.of
    BY <2>1, <2>5, <2>6, TypesKnown
  <2>9. QueueRows(queue', cases', crashes)
    <3>1. QueueRows(queue, cases', crashes)
      BY <2>7, QueueRowsKept DEF RowsInv
    <3>2. cases'[i].of = s \/ (crashes > 0 /\ s \in Sandboxes)
      BY <2>4, <2>8
    <3>3. CASE Report(s, l, NoId, FALSE)
      BY <3>1, <3>3, TypesKnown, ReportedRows
    <3>4. CASE Report(s, l, i, FALSE)
      BY <2>1, <2>8, <3>1, <3>2, <3>4, TypesKnown, ReportedRows
    <3>5. QED
      BY <2>1, <3>3, <3>4
  <2>10. SessionCases(sessions', cases', crashes)
    <3> SUFFICES ASSUME crashes = 0, NEW t \in Sandboxes, sessions'[t] # None, sessions'[t].case # NoId
                 PROVE  cases'[sessions'[t].case] # None /\ cases'[sessions'[t].case].of = t
      BY DEF SessionCases
    <3>1. CASE t = s
      <4>1. sessions'[t].case = i
        BY <2>3, <3>1, TypesKnown
      <4>2. QED
        BY <2>4, <2>8, <3>1, <4>1
    <3>2. CASE t # s
      <4>1. sessions'[t] = sessions[t]
        BY <2>3, <3>2, TypesKnown
      <4>2. sessions[t] \in Session
        BY <4>1, TypesKnown
      <4>3. sessions[t].case \in CaseIds
        BY <4>1, <4>2 DEF Session
      <4>4. cases[sessions[t].case] # None /\ cases[sessions[t].case].of = t
        BY <4>1 DEF RowsInv, SessionCases
      <4>5. QED
        BY <2>7, <4>1, <4>3, <4>4 DEF CasesEvolve
    <3>3. QED
      BY <3>1, <3>2
  <2>11. \A t \in Sandboxes : sessions'[t] # None /\ sessions'[t].iso # 0
                                => sessions[t] # None /\ sessions'[t].iso = sessions[t].iso
    BY <1>3, <2>3, TypesKnown
  <2>12. QueueRows(queue, cases, crashes)' /\ SessionCases(sessions, cases, crashes)'
    BY <1>1, <2>9, <2>10 DEF QueueRows, SessionCases
  <2>13. QED
    BY <1>1, <2>7, <2>11, <2>12, NothingEvolves, RowsStay DEF RowsInv
<1>4. QED
  BY <1>2, <1>3

-----------------------------------------------------------------------------
(* The audit log.                                                          *)

\* A longer audit log has the rows it had.
LEMMA RowsGrow ==
  ASSUME NEW a \in Seq(Verdict), NEW v \in Verdict, NEW f, NEW n
  PROVE  /\ SessionRows(f, a) => SessionRows(f, Append(a, v))
         /\ CaseRows(f, a, n) => CaseRows(f, Append(a, v), n)
<1>1. \A k \in DOMAIN a : k \in DOMAIN Append(a, v) /\ Append(a, v)[k] = a[k]
  OBVIOUS
<1>2. QED
  BY <1>1 DEF SessionRows, CaseRows, CaseRow

LEMMA AuditKeepsRows ==
  ASSUME IInv, IInv', RowsInv, AuditSaved
  PROVE  RowsInv'
<1> DEFINE v == Head(queue)
           row == Len(audit) + 1
           S == {s \in Sandboxes \cap {v.of} : sessions[s] # None /\ sessions[s].iso = 0}
           C == {i \in Used(cases) : i = v.case /\ Isolates(v) /\ cases[i].iso = 0}
<1>1. /\ queue # <<>> /\ queue' = Tail(queue)
      /\ \/ UNCHANGED <<sessions, cases, audit>>
         \/ /\ audit' = Append(audit, v)
            /\ sessions' = [s \in Sandboxes |-> IF s \in S THEN [sessions[s] EXCEPT !.iso = row] ELSE sessions[s]]
            /\ cases' = [i \in CaseIds |-> IF i \in C THEN [cases[i] EXCEPT !.iso = row] ELSE cases[i]]
      /\ UNCHANGED <<storedSessions, storedCases, flushing, crashes>>
  BY DEF AuditSaved, store
<1>2. v \in Verdict /\ v = queue[1] /\ audit \in Seq(Verdict)
  BY <1>1, TypesKnown
<1>3. QueueRows(queue', cases, crashes)
  <2>1. \A k \in 1 .. Len(queue') : k + 1 \in 1 .. Len(queue) /\ queue'[k] = queue[k + 1]
    BY <1>1, TypesKnown
  <2>2. QED
    BY <2>1 DEF RowsInv, QueueRows
<1>4. CASE UNCHANGED <<sessions, cases, audit>>
  <2>1. QueueRows(queue, cases, crashes)' /\ SessionCases(sessions, cases, crashes)'
    BY <1>1, <1>3, <1>4 DEF RowsInv, QueueRows, SessionCases
  <2>2. QED
    BY <1>1, <1>4, <2>1, NothingEvolves, RowsStay DEF RowsInv, SessionsEvolve
<1>5. CASE /\ audit' = Append(audit, v)
           /\ sessions' = [s \in Sandboxes |-> IF s \in S THEN [sessions[s] EXCEPT !.iso = row] ELSE sessions[s]]
           /\ cases' = [i \in CaseIds |-> IF i \in C THEN [cases[i] EXCEPT !.iso = row] ELSE cases[i]]
  <2>1. /\ DOMAIN sessions = Sandboxes /\ DOMAIN sessions' = Sandboxes
        /\ DOMAIN cases = CaseIds /\ DOMAIN cases' = CaseIds
    BY <1>5, TypesKnown
  <2>2. v \in Verdict /\ row \in DOMAIN audit' /\ audit'[row] = v
    <3> HIDE DEF v
    <3>1. QED
      BY <1>2, <1>5
  <2>3. /\ SessionRows(sessions, audit') /\ SessionRows(storedSessions, audit')
        /\ flushing.active => SessionRows(flushing.sessions, audit')
        /\ CaseRows(cases, audit', crashes) /\ CaseRows(storedCases, audit', crashes)
        /\ flushing.active => CaseRows(flushing.cases, audit', crashes)
    <3> HIDE DEF v
    <3>1. QED
      BY <1>2, <1>5, RowsGrow DEF RowsInv
  <2>4. \A s \in Sandboxes :
          /\ sessions'[s] # None <=> sessions[s] # None
          /\ sessions[s] # None => /\ sessions'[s].case = sessions[s].case
                                   /\ s \notin S => sessions'[s] = sessions[s]
                                   /\ s \in S => sessions'[s].iso = row
    <3> SUFFICES ASSUME NEW s \in Sandboxes
                 PROVE  /\ sessions'[s] # None <=> sessions[s] # None
                        /\ sessions[s] # None => /\ sessions'[s].case = sessions[s].case
                                                 /\ s \notin S => sessions'[s] = sessions[s]
                                                 /\ s \in S => sessions'[s].iso = row
      OBVIOUS
    <3>1. CASE s \notin S
      BY <1>5, <3>1
    <3>2. CASE s \in S
      <4>1. sessions[s] # None /\ sessions[s] \in Session
        BY <3>2, TypesKnown
      <4>2. sessions'[s] = [sessions[s] EXCEPT !.iso = row]
        BY <1>5, <3>2
      <4> HIDE DEF row, S
      <4>3. "case" \in DOMAIN sessions'[s] /\ sessions'[s].case = sessions[s].case /\ sessions'[s].iso = row
        BY <4>1, <4>2 DEF Session
      <4>4. DOMAIN None = {"none"}
        BY DEF None
      <4>5. QED
        BY <3>2, <4>1, <4>3, <4>4
    <3>3. QED
      BY <3>1, <3>2
  <2>5. \A i \in CaseIds :
          /\ cases'[i] # None <=> cases[i] # None
          /\ cases[i] # None => /\ cases'[i].of = cases[i].of
                                /\ i \notin C => cases'[i] = cases[i]
                                /\ i \in C => cases'[i].iso = row
    <3> SUFFICES ASSUME NEW i \in CaseIds
                 PROVE  /\ cases'[i] # None <=> cases[i] # None
                        /\ cases[i] # None => /\ cases'[i].of = cases[i].of
                                              /\ i \notin C => cases'[i] = cases[i]
                                              /\ i \in C => cases'[i].iso = row
      OBVIOUS
    <3>1. CASE i \notin C
      BY <1>5, <3>1
    <3>2. CASE i \in C
      <4>1. cases[i] # None /\ cases[i] \in Case
        BY <3>2, TypesKnown DEF Used
      <4>2. cases'[i] = [cases[i] EXCEPT !.iso = row]
        BY <1>5, <3>2
      <4> HIDE DEF row, C
      <4>3. "of" \in DOMAIN cases'[i] /\ cases'[i].of = cases[i].of /\ cases'[i].iso = row
        BY <4>1, <4>2 DEF Case
      <4>4. DOMAIN None = {"none"}
        BY DEF None
      <4>5. QED
        BY <3>2, <4>1, <4>3, <4>4
    <3>3. QED
      BY <3>1, <3>2
  <2>6. SessionRows(sessions', audit')
    <3>1. \A s \in S : v.of = s
      OBVIOUS
    <3> HIDE DEF S, v, row
    <3>2. QED
      BY <2>1, <2>2, <2>3, <2>4, <3>1 DEF SessionRows
  <2>7. CaseRows(cases', audit', crashes)
    <3>1. ASSUME NEW i \in C PROVE v.case = i /\ ~v.blocked /\ Fits(v, cases[i], crashes)
      <4>1. v.case = i /\ v.case # NoId /\ ~v.blocked
        BY <3>1 DEF Isolates
      <4>2. 1 \in 1 .. Len(queue)
        BY <1>1, TypesKnown
      <4> HIDE DEF v
      <4>3. QED
        BY <1>2, <4>1, <4>2 DEF RowsInv, QueueRows
    <3> HIDE DEF C, v, row
    <3> SUFFICES ASSUME NEW i \in CaseIds, cases'[i] # None PROVE CaseRow(i, cases'[i], audit', crashes)
      BY <2>1 DEF CaseRows
    <3>2. CASE i \in C
      BY <2>2, <2>5, <3>1, <3>2 DEF CaseRow, Fits
    <3>3. CASE i \notin C
      BY <2>1, <2>3, <2>5, <3>3 DEF CaseRows
    <3>4. QED
      BY <3>2, <3>3
  <2> HIDE DEF S, C, v, row
  <2>8. QueueRows(queue', cases', crashes)
    BY <1>3, <2>5 DEF QueueRows, Fits
  <2>9. SessionCases(sessions', cases', crashes)
    <3> SUFFICES ASSUME crashes = 0, NEW s \in Sandboxes, sessions'[s] # None, sessions'[s].case # NoId
                 PROVE  cases'[sessions'[s].case] # None /\ cases'[sessions'[s].case].of = s
      BY DEF SessionCases
    <3>1. sessions[s] \in Session /\ sessions[s] # None /\ sessions'[s].case = sessions[s].case
      BY <2>4, TypesKnown
    <3>2. sessions[s].case \in CaseIds
      BY <3>1 DEF Session
    <3>3. cases[sessions[s].case] # None /\ cases[sessions[s].case].of = s
      BY <3>1 DEF RowsInv, SessionCases
    <3>4. QED
      BY <2>5, <3>1, <3>2, <3>3
  <2>10. crashes' = crashes /\ storedSessions' = storedSessions /\ storedCases' = storedCases
         /\ flushing' = flushing
    BY <1>1
  <2>11. QED
    BY <2>3, <2>6, <2>7, <2>8, <2>9, <2>10
       DEF RowsInv, SessionRows, CaseRows, QueueRows, SessionCases
<1>6. QED
  BY <1>1, <1>4, <1>5

-----------------------------------------------------------------------------
(* Flush, and a crash.                                                     *)

\* Flush carries copies of the cache to the store, and its failure none.
LEMMA FlushKeepsRows ==
  ASSUME IInv, IInv', RowsInv, FlushBegin \/ FlushSaved \/ FlushFailed
  PROVE  RowsInv'
<1>1. UNCHANGED <<sessions, cases, queue, audit, crashes>>
  BY DEF FlushBegin, FlushSaved, FlushFailed, cache, store, pipe
<1>2. /\ SessionRows(sessions, audit') /\ CaseRows(cases, audit', crashes')
      /\ QueueRows(queue', cases', crashes') /\ SessionCases(sessions', cases', crashes')
  BY <1>1 DEF RowsInv
<1>3. /\ SessionRows(storedSessions', audit') /\ CaseRows(storedCases', audit', crashes')
  <2>1. CASE UNCHANGED <<storedSessions, storedCases>>
    BY <1>1, <2>1 DEF RowsInv
  <2>2. CASE FlushSaved
    <3>1. /\ storedSessions' = Overwrite(storedSessions, flushing.sessions)
          /\ storedCases' = Overwrite(storedCases, flushing.cases)
          /\ SessionRows(storedSessions, audit) /\ CaseRows(storedCases, audit, crashes)
          /\ SessionRows(flushing.sessions, audit) /\ CaseRows(flushing.cases, audit, crashes)
      BY <2>2 DEF FlushSaved, RowsInv
    <3>2. SessionRows(storedSessions', audit)
      BY <3>1 DEF SessionRows, Overwrite
    <3>3. CaseRows(storedCases', audit, crashes)
      BY <3>1 DEF CaseRows, Overwrite
    <3>4. QED
      BY <1>1, <3>2, <3>3
  <2>3. QED
    BY <2>1, <2>2 DEF FlushBegin, FlushFailed, store
<1>4. flushing'.active => SessionRows(flushing'.sessions, audit') /\ CaseRows(flushing'.cases, audit', crashes')
  <2>1. CASE FlushBegin
    <3>1. /\ flushing'.sessions = [s \in dirtyInstalls |-> sessions[s]]
          /\ flushing'.cases = [i \in dirtyCases |-> cases[i]]
      BY <2>1 DEF FlushBegin
    <3>2. dirtyInstalls \subseteq DOMAIN sessions /\ dirtyCases \subseteq DOMAIN cases
      BY DEF IInv, SessionsInv, CasesInv, Used
    <3>3. SessionRows(flushing'.sessions, audit')
      BY <1>2, <3>1, <3>2 DEF SessionRows
    <3>4. CaseRows(flushing'.cases, audit', crashes')
      BY <1>2, <3>1, <3>2 DEF CaseRows
    <3>5. QED
      BY <3>3, <3>4
  <2>2. CASE FlushSaved \/ FlushFailed
    BY <2>2 DEF FlushSaved, FlushFailed, NoFlush
  <2>3. QED
    BY <2>1, <2>2
<1>5. QED
  BY <1>1, <1>2, <1>3, <1>4 DEF RowsInv, SessionRows, CaseRows, QueueRows, SessionCases

\* After a crash the cache is the store, and nothing is on its way.
LEMMA CrashKeepsRows ==
  ASSUME IInv, IInv', RowsInv, Crash
  PROVE  RowsInv'
<1>1. /\ sessions' = storedSessions /\ cases' = storedCases /\ queue' = <<>> /\ ~flushing'.active
      /\ UNCHANGED <<storedSessions, storedCases, audit>> /\ crashes' = crashes + 1
  BY DEF Crash, store, NoFlush
<1>2. crashes \in Nat
  BY TypesKnown
<1>3. SessionRows(storedSessions, audit) /\ CaseRows(storedCases, audit, crashes')
  <2>1. \A v, c : Fits(v, c, crashes) => Fits(v, c, crashes')
    BY <1>1, <1>2 DEF Fits
  <2>2. QED
    BY <2>1 DEF RowsInv, CaseRows, CaseRow
<1>4. QueueRows(<<>>, storedCases, crashes') /\ SessionCases(storedSessions, storedCases, crashes')
  BY <1>1, <1>2 DEF QueueRows, SessionCases
<1>5. QED
  BY <1>1, <1>3, <1>4 DEF RowsInv, SessionRows, CaseRows, QueueRows, SessionCases

-----------------------------------------------------------------------------
(* All steps.                                                              *)

LEMMA RowsNext ==
  ASSUME IInv, RowsInv, [Next]_vars
  PROVE  RowsInv'
<1>0. IInv'
  BY ReviewAssumption, NextIInv
<1>1. ASSUME NEW s \in Sandboxes,
             StartInstall(s) \/ AttachScan(s) \/ FinishInstall(s) \/ ObserveNormal(s) \/ ContainerExited(s)
      PROVE  RowsInv'
  BY <1>0, <1>1, SessionStepsKeepRows
<1>2. ASSUME NEW s \in Sandboxes, NEW d \in Details, NEW l \in LevelsSeen, ObserveInstall(s, d, l)
      PROVE  RowsInv'
  BY <1>0, <1>2, InstallKeepsRows
<1>3. ASSUME NEW c \in Runtimes, NEW d \in Details, NEW l \in LevelsSeen, ObserveRuntime(c, d, l)
      PROVE  RowsInv'
  BY <1>0, <1>3, RuntimeKeepsRows
<1>4. CASE (\E c \in Containers : ContainerStarted(c)) \/ (\E l \in LevelsSeen \ {Alert} : ObserveBlockedImage(l))
  BY <1>0, <1>4, StartKeepsRows, BlockedImageKeepsRows
<1>5. CASE AuditSaved
  BY <1>0, <1>5, AuditKeepsRows
<1>6. CASE FlushBegin \/ FlushSaved \/ FlushFailed
  BY <1>0, <1>6, FlushKeepsRows
<1>7. ASSUME NEW i \in CaseIds, NEW decision \in Decisions, Judge(i, decision) PROVE RowsInv'
  BY <1>0, <1>7, JudgeKeepsRows
<1>8. ASSUME NEW k \in Callers, FromScanDecides(k) PROVE RowsInv'
  <2>1. callers[k] \in CaseIds /\ "malicious" \in Decisions
    BY <1>8 DEF FromScanDecides, IInv, RequestsInv, Decisions
  <2>2. QED
    BY <1>8, <2>1, <1>7 DEF FromScanDecides
<1>9. ASSUME NEW p \in ProposalIds, Apply(p) \/ Discard(p) PROVE RowsInv'
  BY <1>0, <1>9, SettlingKeepsRows
<1>10. ASSUME NEW k \in Callers, NEW x \in Selections, FromScan(k, x) PROVE RowsInv'
  BY <1>0, <1>10, FromScanKeepsRows
<1>11. CASE \/ \E v \in Values : RemoveBlock(v)
            \/ \E r \in Rules, policy \in {NoPolicy, PlainPolicy} : PolicyWrite(r, policy)
            \/ \E k \in Callers : FromScanRefused(k)
            \/ UNCHANGED vars
  <2>1. UNCHANGED <<sessions, cases, storedSessions, storedCases, flushing, queue, audit, crashes>>
    BY <1>11 DEF RemoveBlock, PolicyWrite, FromScanRefused, vars, cache, store, pipe
  <2>2. QED
    BY <1>0, <2>1, NothingEvolves, QuietKeeps
<1>12. CASE Crash
  BY <1>0, <1>12, CrashKeepsRows
<1>13. QED
  BY <1>1, <1>2, <1>3, <1>4, <1>5, <1>6, <1>7, <1>8, <1>9, <1>10, <1>11, <1>12 DEF Next, Decide

LEMMA RowsInit ==
  Init => RowsInv
BY DEF Init, RowsInv, NoFlush, SessionRows, CaseRows, QueueRows, SessionCases

(***************************************************************************)
(* What the service records as an isolation is one: the audit row is       *)
(* there, and the kill was one of the session's or case's own container,   *)
(* unless a crash lost the case of a sandbox (AuditSaved, Load).           *)
(***************************************************************************)
THEOREM IsolationsAreOwn == Spec => []IsolationIsOwn
<1>1. Init => RowsInv
  BY RowsInit
<1>2. IInv /\ RowsInv /\ [Next]_vars => RowsInv'
  BY RowsNext
<1>3. IInv /\ RowsInv => IsolationIsOwn
  <2> SUFFICES ASSUME IInv, RowsInv PROVE IsolationIsOwn
    OBVIOUS
  <2>1. DOMAIN sessions = Sandboxes
    BY TypesKnown
  <2>2. QED
    BY <2>1 DEF RowsInv, SessionRows, CaseRows, CaseRow, Fits, IsolationIsOwn, Used
<1>4. QED
  BY <1>1, <1>2, <1>3, SpecIInv, PTL DEF Spec
=============================================================================
