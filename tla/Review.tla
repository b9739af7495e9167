------------------------------- MODULE Review -------------------------------
(***************************************************************************)
(* The review service (internal/review): install sessions, cases,          *)
(* proposals, the block list and the rules in use.                         *)
(*                                                                         *)
(* The service works on a cache and writes it to a store.  What a person   *)
(* or the CLI does (Decide, Apply, StartInstall ...) is committed at once, *)
(* under wmu and mu; what the pipeline observes only changes the cache and *)
(* marks it dirty, under mu, until Flush writes it.  Flush holds wmu while *)
(* it commits, but not mu.  A crash loses the cache; Load reads the store. *)
(*                                                                         *)
(* There is one session per reported sandbox container, so a session is    *)
(* named by its container; cases and proposals are named by their numbers. *)
(* A violation is named by its rule, kind and detail together (Details).   *)
(* A request whose commit fails changes nothing and is left out, unless    *)
(* the code does something about it; a commit that reports an error is     *)
(* taken not to have happened.                                             *)
(***************************************************************************)
EXTENDS Integers, Sequences, FiniteSets

CONSTANTS
  Sandboxes,       \* names of sg-install containers
  Runtimes,        \* names of all other containers
  Selections,      \* (scan, chosen packages) pairs put on the block list
  Callers,         \* concurrent requests for FromScan
  Details,         \* violations that differ in rule, kind or detail
  Rules,           \* policy IDs
  RuleOf,          \* RuleOf[d]: the policy that d violates
  HostOf,          \* HostOf[d]: the domain d names, or NoHost
  Hosts,           \* domains
  AllowedHosts,    \* domains in the allowHosts of some policy
  KillRules,       \* policies as strong as the one made of the blocked hosts
  Excusable,       \* policies narrowestException has an exception for
  PackageOf,       \* PackageOf[x]: package of a sandbox or selection
  ImageOf,         \* ImageOf[c]: image of a container
  LevelsSeen,      \* levels the verdicts on violations have
  MaxViolations,   \* maxViolations of a session
  MaxEvidence,     \* maxEvidence of a case
  PersistQueue,    \* verdicts on their way to the audit log
  MaxCases, MaxProposals, MaxAudit, MaxWrites, MaxCrashes   \* bounds

NoHost == "noHost"
Containers == Sandboxes \cup Runtimes
CaseIds == 1 .. MaxCases
ProposalIds == 1 .. MaxProposals
NoId == 0

Packages == {PackageOf[x] : x \in Sandboxes \cup Selections}
Images == {ImageOf[c] : c \in Containers}
Values == Packages \cup Images \cup Hosts

\* model.LevelOf a verdict, by rank.
Normal == 0
Alert == 1
Held == 2
Killed == 3
Levels == Normal .. Killed

ASSUME ReviewAssumption ==
  /\ LevelsSeen \subseteq Alert .. Killed
  /\ RuleOf \in [Details -> Rules]
  /\ HostOf \in [Details -> Hosts \cup {NoHost}] /\ NoHost \notin Hosts
  /\ AllowedHosts \subseteq Hosts /\ KillRules \subseteq Rules /\ Excusable \subseteq Rules
  /\ Sandboxes \cap Runtimes = {} /\ Containers \cap Selections = {}
  /\ Hosts \cap (Packages \cup Images) = {}
  /\ MaxViolations \in Nat /\ MaxEvidence \in Nat /\ PersistQueue \in Nat
  /\ MaxCases \in Nat /\ MaxProposals \in Nat /\ MaxAudit \in Nat
  /\ MaxWrites \in Nat /\ MaxCrashes \in Nat

VARIABLES
  sessions, cases, proposals, blocklist,            \* the cache
  dirtyInstalls, dirtyCases,                        \* to be flushed
  flushing,                                         \* the commit Flush is at
  storedSessions, storedCases, storedProposals,     \* the store
  storedBlocklist, policies,
  engine,      \* rules.Engine: the policies and blocked hosts in use
  stale,       \* history: the last policy write did not reload the engine
  starting,    \* container of a blocked image, on its way to Observe
  queue,       \* kills on their way to AuditSaved
  audit,       \* rows of kills in the audit log
  callers,     \* FromScan between its two lock sections: the case, or NoId
  refused,     \* history: callers of FromScan that got a conflict
  writes,      \* history: number of policy writes
  crashes      \* history: number of crashes

cache == <<sessions, cases, proposals, blocklist>>
dirty == <<dirtyInstalls, dirtyCases>>
store == <<storedSessions, storedCases, storedProposals, storedBlocklist>>
ruleset == <<policies, engine, stale, writes>>
pipe == <<starting, queue, audit>>
requests == <<callers, refused>>
vars == <<cache, dirty, flushing, store, ruleset, pipe, requests, crashes>>

Sources == {"install", "runtime", "scan"}
Decisions == {"malicious", "falsePositive"}
Notes == {"active", "exited", "scanned"}  \* what else a session records
Session == [viol : [Details -> Levels], notes : SUBSET Notes, finished : BOOLEAN,
            case : CaseIds \cup {NoId}, iso : 0 .. MaxAudit]
Case == [source : Sources, of : Containers \cup Selections, evidence : [Details -> Levels],
         state : {"open", "decided", "closed"}, decision : Decisions \cup {"pending"},
         proposal : ProposalIds \cup {NoId}, iso : 0 .. MaxAudit]
Change == [op : {"block"}, on : Values] \cup [op : {"except"}, on : Details]
Proposal == [case : CaseIds, decision : Decisions,
             state : {"draft", "applied", "discarded"}, changes : SUBSET Change]
Policy == [there : BOOLEAN, allows : SUBSET Details]  \* allows: its exceptions
NoPolicy == [there |-> FALSE, allows |-> {}]
PlainPolicy == [there |-> TRUE, allows |-> {}]
Verdict == [of : Containers, case : CaseIds \cup {NoId}, blocked : BOOLEAN]
None == [none |-> TRUE]
NoFlush == [active |-> FALSE, sessions |-> <<>>, cases |-> <<>>]
NoContainer == "noContainer"

NoViolations == [d \in Details |-> Normal]
Violated(v) == {d \in Details : v[d] # Normal}
NewSession == [viol |-> NoViolations, notes |-> {}, finished |-> FALSE, case |-> NoId, iso |-> 0]
NewCase(source, of) ==
  [source |-> source, of |-> of, evidence |-> NoViolations, state |-> "open",
   decision |-> "pending", proposal |-> NoId, iso |-> 0]

TypeOK ==
  /\ sessions \in [Sandboxes -> Session \cup {None}]
  /\ cases \in [CaseIds -> Case \cup {None}]
  /\ proposals \in [ProposalIds -> Proposal \cup {None}]
  /\ blocklist \in [Values -> CaseIds \cup {NoId}]
  /\ \A s \in Sandboxes : sessions[s] # None => Cardinality(Violated(sessions[s].viol)) <= MaxViolations
  /\ \A i \in CaseIds : cases[i] # None => Cardinality(Violated(cases[i].evidence)) <= MaxEvidence
  /\ dirtyInstalls \subseteq {s \in Sandboxes : sessions[s] # None}
  /\ dirtyCases \subseteq {i \in CaseIds : cases[i] # None}
  /\ flushing.active => /\ flushing.sessions \in [DOMAIN flushing.sessions -> Session]
                           /\ flushing.cases \in [DOMAIN flushing.cases -> Case]
  /\ storedSessions \in [Sandboxes -> Session \cup {None}]
  /\ storedCases \in [CaseIds -> Case \cup {None}]
  /\ storedProposals \in [ProposalIds -> Proposal \cup {None}]
  /\ storedBlocklist \in [Values -> CaseIds \cup {NoId}]
  /\ policies \in [Rules -> Policy]
  /\ engine \in [policies : [Rules -> Policy], hosts : SUBSET Hosts] /\ stale \in BOOLEAN
  /\ starting \in Containers \cup {NoContainer}
  /\ queue \in Seq(Verdict) /\ Len(queue) <= PersistQueue
  /\ audit \in Seq(Verdict) /\ Len(audit) <= MaxAudit
  /\ callers \in [Callers -> CaseIds \cup {NoId}] /\ refused \subseteq Callers
  /\ writes \in 0 .. MaxWrites /\ crashes \in 0 .. MaxCrashes

Blocked(list) == {h \in Hosts : list[h] # NoId}

\* engineRules: the stored policies and the rule made of the blocked hosts.
EngineRules(pols, list) == [policies |-> pols, hosts |-> Blocked(list)]

Init ==
  /\ sessions = [s \in Sandboxes |-> None] /\ storedSessions = sessions
  /\ cases = [i \in CaseIds |-> None] /\ storedCases = cases
  /\ proposals = [i \in ProposalIds |-> None] /\ storedProposals = proposals
  /\ blocklist = [v \in Values |-> NoId] /\ storedBlocklist = blocklist
  /\ dirtyInstalls = {} /\ dirtyCases = {} /\ flushing = NoFlush
  /\ policies = [r \in Rules |-> PlainPolicy]
  /\ engine = EngineRules(policies, blocklist) /\ stale = FALSE /\ writes = 0
  /\ starting = NoContainer /\ queue = <<>> /\ audit = <<>>
  /\ callers = [k \in Callers |-> NoId] /\ refused = {}
  /\ crashes = 0

-----------------------------------------------------------------------------
(* Numbers and commits.                                                    *)

Used(m) == {i \in DOMAIN m : m[i] # None}

\* nextID: seq is the largest number in the cache; releaseID keeps it so.
NextId(m) == IF Used(m) = {} THEN 1 ELSE 1 + CHOOSE i \in Used(m) : \A j \in Used(m) : j <= i

\* lockWrite: a request waits for the commit Flush is at.
WriteLocked == ~flushing.active

\* commitLocked, for cases: cache and store move together, marks are dropped.
CommitCase(i, c) ==
  /\ cases' = [cases EXCEPT ![i] = c] /\ storedCases' = [storedCases EXCEPT ![i] = c]
  /\ dirtyCases' = dirtyCases \ {i}

CommitSession(s, x) ==
  /\ sessions' = [sessions EXCEPT ![s] = x]
  /\ storedSessions' = [storedSessions EXCEPT ![s] = x]
  /\ dirtyInstalls' = dirtyInstalls \ {s}

CommitProposal(p, x) ==
  /\ proposals' = [proposals EXCEPT ![p] = x]
  /\ storedProposals' = [storedProposals EXCEPT ![p] = x]

-----------------------------------------------------------------------------
(* What the CLI and the scanner report of an installation.                 *)

StartInstall(s) ==
  /\ WriteLocked /\ sessions[s] = None
  /\ CommitSession(s, NewSession)
  /\ UNCHANGED <<cases, proposals, blocklist, dirtyCases, flushing, storedCases, storedProposals,
                 storedBlocklist, ruleset, pipe, requests, crashes>>

\* Mutant: the session is not marked when the commit fails.
MutAttachForgets(s) ==
  /\ WriteLocked /\ sessions[s] # None
  /\ LET x == [sessions[s] EXCEPT !.notes = @ \cup {"scanned"}]
     IN CommitSession(s, x) \/ (sessions' = [sessions EXCEPT ![s] = x]
                               /\ UNCHANGED <<dirtyInstalls, storedSessions>>)
  /\ UNCHANGED <<cases, proposals, blocklist, dirtyCases, flushing, storedCases, storedProposals,
                 storedBlocklist, ruleset, pipe, requests, crashes>>

\* AttachScan: the session keeps the scan although the commit fails.
AttachScan(s) ==
  /\ WriteLocked /\ sessions[s] # None
  /\ LET x == [sessions[s] EXCEPT !.notes = @ \cup {"scanned"}]
     IN \/ CommitSession(s, x)
        \/ /\ sessions' = [sessions EXCEPT ![s] = x]
           /\ dirtyInstalls' = dirtyInstalls \cup {s}
           /\ UNCHANGED storedSessions
  /\ UNCHANGED <<cases, proposals, blocklist, dirtyCases, flushing, storedCases, storedProposals,
                 storedBlocklist, ruleset, pipe, requests, crashes>>

FinishInstall(s) ==
  /\ WriteLocked /\ sessions[s] # None /\ ~sessions[s].finished
  /\ CommitSession(s, [sessions[s] EXCEPT !.finished = TRUE])
  /\ UNCHANGED <<cases, proposals, blocklist, dirtyCases, flushing, storedCases, storedProposals,
                 storedBlocklist, ruleset, pipe, requests, crashes>>

-----------------------------------------------------------------------------
(* What the pipeline observes: the cache changes, Flush writes it later.   *)
(* The pipeline observes one verdict at a time.                            *)

\* addViolation: a new violation if there is room, a stronger verdict on an old one.
Raise(v, d, l, limit) ==
  IF l > v[d] /\ (v[d] # Normal \/ Cardinality(Violated(v)) < limit)
  THEN [v EXCEPT ![d] = l] ELSE v

\* addToCase
WithEvidence(c, d, l) == [c EXCEPT !.evidence = Raise(@, d, l, MaxEvidence)]

\* A verdict goes on to the audit log; Docker confirmed the kill, and there is room.
Report(c, l, case, blocked) ==
  \/ UNCHANGED queue
  \/ /\ l = Killed /\ Len(queue) < PersistQueue
     /\ queue' = Append(queue, [of |-> c, case |-> case, blocked |-> blocked])

Noted(s, note) ==
  /\ sessions' = [sessions EXCEPT ![s].notes = @ \cup {note}]
  /\ dirtyInstalls' = dirtyInstalls \cup {s}

\* observeInstall, a verdict without a violation: only the activity changes.
ObserveNormal(s) ==
  /\ starting = NoContainer /\ sessions[s] # None
  /\ Noted(s, "active")
  /\ UNCHANGED <<cases, proposals, blocklist, dirtyCases, flushing, store, ruleset, pipe, requests, crashes>>

\* observeInstall, a violation.  The first one opens the case of the session; a
\* closed case is left alone.  A case that is missing is a nil dereference, which
\* ends the process: that step is Crash.
ObserveInstall(s, d, l) ==
  /\ starting = NoContainer
  /\ \/ /\ sessions[s] = None
        /\ Report(s, l, NoId, FALSE)
        /\ UNCHANGED <<sessions, cases, dirty>>
     \/ /\ sessions[s] # None
        /\ LET known == sessions[s].case # NoId
               i == IF known THEN sessions[s].case ELSE NextId(cases)
               c == IF known THEN cases[i] ELSE NewCase("install", s)
           IN /\ i \in CaseIds /\ c # None
              /\ sessions' = [sessions EXCEPT ![s].notes = @ \cup {"active"},
                                              ![s].viol = Raise(@, d, l, MaxViolations),
                                              ![s].case = i]
              /\ dirtyInstalls' = dirtyInstalls \cup {s}
              /\ \/ /\ c.state = "closed"
                    /\ Report(s, l, NoId, FALSE)
                    /\ UNCHANGED <<cases, dirtyCases>>
                 \/ /\ c.state # "closed"
                    /\ cases' = [cases EXCEPT ![i] = WithEvidence(c, d, l)]
                    /\ dirtyCases' = dirtyCases \cup {i}
                    /\ Report(s, l, i, FALSE)
  /\ UNCHANGED <<proposals, blocklist, flushing, store, ruleset, starting, audit, requests, crashes>>

\* Mutant: a case that is decided no longer takes violations.
MutActiveOpenOnly(c) ==
  {i \in Used(cases) : cases[i].source = "runtime" /\ cases[i].of = c /\ cases[i].state = "open"}

\* The cases of a container that observeRuntime can add to.
Active(c) ==
  {i \in Used(cases) : cases[i].source = "runtime" /\ cases[i].of = c /\ cases[i].state # "closed"}

Newest(S) == CHOOSE i \in S : \A j \in S : j <= i

\* observeRuntime: an alert alone opens no case.
ObserveRuntime(c, d, l) ==
  /\ starting = NoContainer
  /\ Active(c) # {} \/ l # Alert
  /\ LET i == IF Active(c) # {} THEN Newest(Active(c)) ELSE NextId(cases)
         old == IF Active(c) # {} THEN cases[i] ELSE NewCase("runtime", c)
     IN /\ i \in CaseIds
        /\ cases' = [cases EXCEPT ![i] = WithEvidence(old, d, l)]
        /\ dirtyCases' = dirtyCases \cup {i}
        /\ Report(c, l, i, FALSE)
  /\ UNCHANGED <<sessions, proposals, blocklist, dirtyInstalls, flushing, store, ruleset,
                 starting, audit, requests, crashes>>

\* ContainerStarted: a blocked image goes on to the isolation.
ContainerStarted(c) ==
  /\ starting = NoContainer
  /\ c \in Sandboxes \/ blocklist[ImageOf[c]] # NoId
  /\ \/ c \in Sandboxes /\ sessions[c] # None /\ Noted(c, "active")
     \/ (c \in Sandboxes => sessions[c] = None) /\ UNCHANGED <<sessions, dirtyInstalls>>
  /\ starting' = IF blocklist[ImageOf[c]] # NoId THEN c ELSE starting
  /\ UNCHANGED <<cases, proposals, blocklist, dirtyCases, flushing, store, ruleset, queue, audit,
                 requests, crashes>>

\* observeBlockedImage: the verdict carries the case the image is blocked for now.
ObserveBlockedImage(l) ==
  /\ starting # NoContainer
  /\ Report(starting, l, blocklist[ImageOf[starting]], TRUE)
  /\ starting' = NoContainer
  /\ UNCHANGED <<cache, dirty, flushing, store, ruleset, audit, requests, crashes>>

ContainerExited(s) ==
  /\ starting = NoContainer /\ sessions[s] # None /\ "exited" \notin sessions[s].notes
  /\ Noted(s, "exited")
  /\ UNCHANGED <<cases, proposals, blocklist, dirtyCases, flushing, store, ruleset, pipe, requests, crashes>>

\* Mutant: the kill of a blocked image counts as the isolation of its old case.
MutIsolatesBlocked(v) == v.case # NoId

\* The case whose isolation AuditSaved may record.
Isolates(v) == v.case # NoId /\ ~v.blocked

\* AuditSaved: the first kill is the isolation of its session and its case.
AuditSaved ==
  /\ queue # <<>> /\ Len(audit) < MaxAudit
  /\ queue' = Tail(queue)
  /\ \/ UNCHANGED <<sessions, cases, dirty, audit>>  \* SaveAudit failed
     \/ LET v == Head(queue)
            row == Len(audit) + 1
            S == {s \in Sandboxes \cap {v.of} : sessions[s] # None /\ sessions[s].iso = 0}
            C == {i \in Used(cases) : i = v.case /\ Isolates(v) /\ cases[i].iso = 0}
        IN /\ audit' = Append(audit, v)
           /\ sessions' = [s \in Sandboxes |-> IF s \in S THEN [sessions[s] EXCEPT !.iso = row] ELSE sessions[s]]
           /\ cases' = [i \in CaseIds |-> IF i \in C THEN [cases[i] EXCEPT !.iso = row] ELSE cases[i]]
           /\ dirtyInstalls' = dirtyInstalls \cup S /\ dirtyCases' = dirtyCases \cup C
  /\ UNCHANGED <<proposals, blocklist, flushing, store, ruleset, starting, requests, crashes>>

-----------------------------------------------------------------------------
(* Flush.                                                                  *)

\* Under mu: take copies of what is dirty, forget the marks.
FlushBegin ==
  /\ WriteLocked /\ (dirtyInstalls # {} \/ dirtyCases # {})
  /\ flushing' = [active |-> TRUE,
                  sessions |-> [s \in dirtyInstalls |-> sessions[s]],
                  cases |-> [i \in dirtyCases |-> cases[i]]]
  /\ dirtyInstalls' = {} /\ dirtyCases' = {}
  /\ UNCHANGED <<cache, store, ruleset, pipe, requests, crashes>>

Overwrite(m, part) == [x \in DOMAIN m |-> IF x \in DOMAIN part THEN part[x] ELSE m[x]]

\* Mutant: the marks are removed when the commit is done.
MutFlushClearsLate ==
  /\ flushing.active
  /\ storedSessions' = Overwrite(storedSessions, flushing.sessions)
  /\ storedCases' = Overwrite(storedCases, flushing.cases)
  /\ dirtyInstalls' = dirtyInstalls \ DOMAIN flushing.sessions
  /\ dirtyCases' = dirtyCases \ DOMAIN flushing.cases
  /\ flushing' = NoFlush
  /\ UNCHANGED <<cache, storedProposals, storedBlocklist, ruleset, pipe, requests, crashes>>

FlushSaved ==
  /\ flushing.active
  /\ storedSessions' = Overwrite(storedSessions, flushing.sessions)
  /\ storedCases' = Overwrite(storedCases, flushing.cases)
  /\ flushing' = NoFlush
  /\ UNCHANGED <<cache, dirty, storedProposals, storedBlocklist, ruleset, pipe, requests, crashes>>

\* The commit failed: everything in it is dirty again.
FlushFailed ==
  /\ flushing.active
  /\ dirtyInstalls' = dirtyInstalls \cup DOMAIN flushing.sessions
  /\ dirtyCases' = dirtyCases \cup DOMAIN flushing.cases
  /\ flushing' = NoFlush
  /\ UNCHANGED <<cache, store, ruleset, pipe, requests, crashes>>

-----------------------------------------------------------------------------
(* Decisions and proposals.                                                *)

Blocks(S) == [op : {"block"}, on : S]

\* maliciousChanges: the package or image, and the domains it should not have asked for.
MaliciousChanges(c) ==
  Blocks({IF c.source = "runtime" THEN ImageOf[c.of] ELSE PackageOf[c.of]}
         \cup ({HostOf[d] : d \in Violated(c.evidence)} \ (AllowedHosts \cup {NoHost})))

\* falsePositiveChanges: an exception for every violation a policy still catches, unless
\* the domain is blocked and that is the stronger reason.
FalsePositiveChanges(c) ==
  [op : {"except"},
   on : {d \in Violated(c.evidence) :
           /\ RuleOf[d] \in Excusable
           /\ engine.policies[RuleOf[d]].there /\ d \notin engine.policies[RuleOf[d]].allows
           /\ HostOf[d] \in engine.hosts => RuleOf[d] \in KillRules}]

Draft(c, decision) ==
  IF decision = "malicious" THEN MaliciousChanges(c) ELSE FalsePositiveChanges(c)

Decidable(i) == cases[i] # None /\ cases[i].state = "open"

\* Mutant: Decide does not wait for Flush.
MutDecideInFlush(i, decision) ==
  /\ Decidable(i) /\ NextId(proposals) \in ProposalIds
  /\ LET p == NextId(proposals)
     IN /\ CommitCase(i, [cases[i] EXCEPT !.state = "decided", !.decision = decision, !.proposal = p])
        /\ CommitProposal(p, [case |-> i, decision |-> decision, state |-> "draft",
                              changes |-> Draft(cases[i], decision)])
  /\ UNCHANGED <<sessions, blocklist, dirtyInstalls, flushing, storedSessions, storedBlocklist,
                 ruleset, pipe, crashes>>

\* Decide: the case and the draft of its proposal in one commit.
Judge(i, decision) ==
  /\ WriteLocked /\ Decidable(i) /\ NextId(proposals) \in ProposalIds
  /\ LET p == NextId(proposals)
     IN /\ CommitCase(i, [cases[i] EXCEPT !.state = "decided", !.decision = decision, !.proposal = p])
        /\ CommitProposal(p, [case |-> i, decision |-> decision, state |-> "draft",
                              changes |-> Draft(cases[i], decision)])
  /\ UNCHANGED <<sessions, blocklist, dirtyInstalls, flushing, storedSessions, storedBlocklist,
                 ruleset, pipe, crashes>>

Decide(i, decision) == Judge(i, decision) /\ UNCHANGED requests

ClosedBy(p) == [cases[proposals[p].case] EXCEPT !.state = "closed"]

\* Apply: block list, policies, proposal and case in one commit, then the engine.
\* An exception for a policy that is gone is a conflict.
Apply(p) ==
  /\ WriteLocked /\ proposals[p] # None /\ proposals[p].state = "draft"
  /\ cases[proposals[p].case] # None
  /\ LET i == proposals[p].case
         excepted == {ch.on : ch \in {x \in proposals[p].changes : x.op = "except"}}
         added == {ch.on : ch \in {x \in proposals[p].changes : x.op = "block"}}
     IN /\ \A d \in excepted : policies[RuleOf[d]].there
        /\ CommitCase(i, ClosedBy(p))
        /\ CommitProposal(p, [proposals[p] EXCEPT !.state = "applied"])
        /\ blocklist' = [v \in Values |-> IF v \in added /\ blocklist[v] = NoId THEN i ELSE blocklist[v]]
        /\ storedBlocklist' = blocklist'
        /\ policies' = [r \in Rules |->
                          [policies[r] EXCEPT !.allows = @ \cup {d \in excepted : RuleOf[d] = r}]]
        /\ engine' = EngineRules(policies', blocklist')
        /\ stale' = FALSE
  /\ UNCHANGED <<sessions, dirtyInstalls, flushing, storedSessions, writes, pipe, requests, crashes>>

\* Discard: the case is closed without a change.
Discard(p) ==
  /\ WriteLocked /\ proposals[p] # None /\ proposals[p].state = "draft"
  /\ LET i == proposals[p].case
     IN \/ cases[i] # None /\ CommitCase(i, ClosedBy(p))
        \/ cases[i] = None /\ UNCHANGED <<cases, storedCases, dirtyCases>>
  /\ CommitProposal(p, [proposals[p] EXCEPT !.state = "discarded"])
  /\ UNCHANGED <<sessions, blocklist, dirtyInstalls, flushing, storedSessions, storedBlocklist,
                 ruleset, pipe, requests, crashes>>

-----------------------------------------------------------------------------
(* The block list, the policies and the scan view.                         *)

\* Mutant: the engine keeps the rule of the removed domain.
MutRemoveKeepsRule(v) ==
  /\ WriteLocked /\ blocklist[v] # NoId
  /\ blocklist' = [blocklist EXCEPT ![v] = NoId] /\ storedBlocklist' = blocklist'
  /\ UNCHANGED <<sessions, cases, proposals, dirty, flushing, storedSessions, storedCases,
                 storedProposals, ruleset, pipe, requests, crashes>>

\* RemoveBlock: only a domain needs the engine to be reloaded.
RemoveBlock(v) ==
  /\ WriteLocked /\ blocklist[v] # NoId
  /\ blocklist' = [blocklist EXCEPT ![v] = NoId] /\ storedBlocklist' = blocklist'
  /\ \/ v \in Hosts /\ engine' = EngineRules(policies, blocklist') /\ stale' = FALSE
     \/ v \notin Hosts /\ UNCHANGED <<engine, stale>>
  /\ UNCHANGED <<sessions, cases, proposals, dirty, flushing, storedSessions, storedCases,
                 storedProposals, policies, writes, pipe, requests, crashes>>

\* PolicyWrite: the engine keeps the old policies if they cannot be read back.
PolicyWrite(r, policy) ==
  /\ WriteLocked /\ writes < MaxWrites /\ policies[r] # policy
  /\ policies' = [policies EXCEPT ![r] = policy]
  /\ \/ engine' = EngineRules(policies', blocklist) /\ stale' = FALSE
     \/ stale' = TRUE /\ UNCHANGED engine
  /\ writes' = writes + 1
  /\ UNCHANGED <<cache, dirty, flushing, store, pipe, requests, crashes>>

\* FromScan, first lock section: the case of this selection, opened if need be.
\* If it has a proposal already, that is the answer and nothing changes.
FromScan(k, x) ==
  /\ WriteLocked /\ callers[k] = NoId
  /\ LET found == {i \in Used(cases) : cases[i].source = "scan" /\ cases[i].of = x}
         i == IF found # {} THEN Newest(found) ELSE NextId(cases)
     IN /\ i \in CaseIds
        /\ callers' = [callers EXCEPT ![k] = i]
        /\ \/ found # {} /\ cases[i].proposal = NoId /\ UNCHANGED <<cases, storedCases, dirtyCases>>
           \/ found = {} /\ CommitCase(i, NewCase("scan", x))
  /\ UNCHANGED <<sessions, proposals, blocklist, dirtyInstalls, flushing, storedSessions,
                 storedProposals, storedBlocklist, ruleset, pipe, refused, crashes>>

\* FromScan, second lock section: Decide, malicious.
FromScanDecides(k) ==
  /\ callers[k] # NoId
  /\ callers' = [callers EXCEPT ![k] = NoId]
  /\ Judge(callers[k], "malicious")
  /\ UNCHANGED refused

\* The case was judged in between: the caller gets a conflict.
FromScanRefused(k) ==
  /\ WriteLocked /\ callers[k] # NoId /\ ~Decidable(callers[k])
  /\ callers' = [callers EXCEPT ![k] = NoId]
  /\ refused' = refused \cup {k}
  /\ UNCHANGED <<cache, dirty, flushing, store, ruleset, pipe, crashes>>

-----------------------------------------------------------------------------
(* Crash, Load and Reload.                                                 *)

Crash ==
  /\ crashes < MaxCrashes /\ crashes' = crashes + 1
  /\ sessions' = storedSessions /\ cases' = storedCases
  /\ proposals' = storedProposals /\ blocklist' = storedBlocklist
  /\ dirtyInstalls' = {} /\ dirtyCases' = {} /\ flushing' = NoFlush
  /\ engine' = EngineRules(policies, storedBlocklist) /\ stale' = FALSE
  /\ starting' = NoContainer /\ queue' = <<>>
  /\ callers' = [k \in Callers |-> NoId]
  /\ UNCHANGED <<store, policies, writes, audit, refused>>

Next ==
  \/ \E s \in Sandboxes : StartInstall(s)
  \/ \E s \in Sandboxes : AttachScan(s)
  \/ \E s \in Sandboxes : FinishInstall(s)
  \/ \E s \in Sandboxes : ObserveNormal(s)
  \/ \E s \in Sandboxes, d \in Details, l \in LevelsSeen : ObserveInstall(s, d, l)
  \/ \E c \in Runtimes, d \in Details, l \in LevelsSeen : ObserveRuntime(c, d, l)
  \/ \E c \in Containers : ContainerStarted(c)
  \/ \E l \in LevelsSeen \ {Alert} : ObserveBlockedImage(l)
  \/ \E s \in Sandboxes : ContainerExited(s)
  \/ AuditSaved
  \/ FlushBegin
  \/ FlushSaved
  \/ FlushFailed
  \/ \E i \in CaseIds, decision \in Decisions : Decide(i, decision)
  \/ \E p \in ProposalIds : Apply(p)
  \/ \E p \in ProposalIds : Discard(p)
  \/ \E v \in Values : RemoveBlock(v)
  \/ \E r \in Rules, policy \in {NoPolicy, PlainPolicy} : PolicyWrite(r, policy)
  \/ \E k \in Callers, x \in Selections : FromScan(k, x)
  \/ \E k \in Callers : FromScanDecides(k)
  \/ \E k \in Callers : FromScanRefused(k)
  \/ Crash

Spec == Init /\ [][Next]_vars

(***************************************************************************)
(* Run flushes again and again, and the store does not refuse every write. *)
(* Nothing is assumed of people, containers or the audit log.              *)
(***************************************************************************)
Fairness == WF_vars(FlushBegin) /\ WF_vars(FlushSaved \/ FlushFailed) /\ SF_vars(FlushSaved)

FairSpec == Spec /\ Fairness

-----------------------------------------------------------------------------
(* Properties.                                                             *)

InFlight(part, x) == flushing.active /\ x \in DOMAIN flushing[part]

(***************************************************************************)
(* What is neither marked nor on its way is stored as it is in the cache:  *)
(* no order of Observe, requests and Flush loses a change (commitLocked,   *)
(* Flush).  Proposals and the block list are never behind.                 *)
(***************************************************************************)
CleanIsStored ==
  /\ \A s \in Sandboxes : s \in dirtyInstalls \/ InFlight("sessions", s) \/ sessions[s] = storedSessions[s]
  /\ \A i \in CaseIds : i \in dirtyCases \/ InFlight("cases", i) \/ cases[i] = storedCases[i]
  /\ proposals = storedProposals /\ blocklist = storedBlocklist

(***************************************************************************)
(* A container never has two runtime cases that can take violations, and a *)
(* selection never has two cases, whatever is decided, closed, requested   *)
(* twice or lost in a crash in between (observeRuntime, FromScan).         *)
(***************************************************************************)
OneCaseAtATime ==
  \A i, j \in Used(cases) :
    /\ cases[i].of = cases[j].of /\ cases[i].source = cases[j].source
    /\ \/ cases[i].source = "runtime" /\ "closed" \notin {cases[i].state, cases[j].state}
       \/ cases[i].source = "scan"
    => i = j

(***************************************************************************)
(* The isolation a session or a case records is an audit row that was      *)
(* saved, of a kill of its own container, and one that made the case: not  *)
(* the kill of an image the case had blocked (AuditSaved).  Only after a   *)
(* crash it may be that of a sandbox whose own case was lost, and whose    *)
(* session goes on adding to the number (see CaseOfSession).               *)
(***************************************************************************)
IsolationIsOwn ==
  /\ \A s \in Sandboxes : sessions[s] # None /\ sessions[s].iso # 0 =>
       sessions[s].iso \in DOMAIN audit /\ audit[sessions[s].iso].of = s
  /\ \A i \in Used(cases) : cases[i].iso # 0 =>
       /\ cases[i].iso \in DOMAIN audit
       /\ LET row == audit[cases[i].iso]
          IN /\ row.case = i /\ ~row.blocked
             /\ row.of = cases[i].of \/ (crashes > 0 /\ row.of \in Sandboxes)

(***************************************************************************)
(* The engine works with the stored policies and the blocked domains,      *)
(* whatever requests ran in whatever order, unless the last policy write   *)
(* could not read the policies back (engineRules, Reload).                 *)
(***************************************************************************)
EngineCurrent == ~stale => engine = EngineRules(policies, blocklist)

Life ==
  INSTANCE CaseFlow WITH
    status <- [i \in CaseIds |-> IF storedCases[i] = None THEN "none" ELSE storedCases[i].state],
    proposal <- [i \in CaseIds |-> IF storedCases[i] = None THEN NoId ELSE storedCases[i].proposal],
    outcome <- [p \in ProposalIds |-> IF storedProposals[p] = None THEN "none" ELSE storedProposals[p].state],
    about <- [p \in ProposalIds |-> IF storedProposals[p] = None THEN NoId ELSE storedProposals[p].case]

(***************************************************************************)
(* The store implements the life of a case: see module CaseFlow.  Flush,   *)
(* whose copies are made before a request and written after it or lost in  *)
(* a crash, takes no decision back.                                        *)
(***************************************************************************)
ImplementsCaseFlow == Life!LSpec

(***************************************************************************)
(* Evidence that reaches a case is stored in the end, unless the server    *)
(* crashes first: a failed or a running flush does not lose it (Flush).    *)
(***************************************************************************)
EvidenceIsStored ==
  \A i \in CaseIds, d \in Details, l \in LevelsSeen, n \in 0 .. MaxCrashes :
    (crashes = n /\ cases[i] # None /\ cases[i].evidence[d] = l)
      ~> (crashes > n \/ (storedCases[i] # None /\ storedCases[i].evidence[d] >= l))

(***************************************************************************)
(* installs.go says of Observe: the first violation of a sandbox opens the *)
(* case of its session, and Observe follows the session's case from then   *)
(* on without looking whether it is there.                                 *)
(***************************************************************************)
CaseOfSession ==
  \A s \in Sandboxes : sessions[s] # None /\ sessions[s].case # NoId =>
    LET c == cases[sessions[s].case] IN c # None /\ c.source = "install" /\ c.of = s

(***************************************************************************)
(* cases.go says of FromScan: the same selection returns the same case and *)
(* proposal.                                                               *)
(***************************************************************************)
SameSelectionSameAnswer == refused = {}

=============================================================================
