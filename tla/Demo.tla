-------------------------------- MODULE Demo --------------------------------
(***************************************************************************)
(* The demonstration page: useDemo, which polls the run of the server,     *)
(* loads its installation and, once that was isolated, the evidence, and   *)
(* the model the page is drawn from (features/demo).                       *)
(*                                                                         *)
(* Answers come in any order.  A run is its number; its container's name   *)
(* is its own.  The verdict that isolates may be recorded after the run    *)
(* has ended.                                                              *)
(***************************************************************************)
EXTENDS Naturals, Sequences, FiniteSets, Requests

CONSTANTS
  MaxRun,         \* bound: runs
  EvidenceTries,  \* EVIDENCE_TRIES
  MaxDemoCalls,   \* bound: requests of each kind under way
  MaxDemoTrouble  \* bound: failed requests, starts by others

ASSUME DemoAssumption ==
  MaxRun \in Nat \ {0} /\ EvidenceTries \in Nat \ {0} /\ MaxDemoCalls \in Nat
  /\ MaxDemoTrouble \in Nat /\ Nothing \notin Nat

Runs == 1 .. MaxRun
NoEvidence == 0

VARIABLES
  demoStatus,   \* server: status of each run, "none" before it
  demoKilled,   \* server: runs whose container was isolated, as the session has it
  demo,         \* the page: run, session, evidence, starting
  runCalls,     \* GET /api/demo under way
  sessionCalls, \* GET /api/installs/{id} under way
  evidenceCall, \* the live GET /api/evidence, or Nothing
  demoStart,    \* POST /api/demo/run
  demoTrouble   \* history: for the bound

demoServer == <<demoStatus, demoKilled>>
demoCalls == <<runCalls, sessionCalls, evidenceCall, demoStart>>
demoVars == <<demoServer, demo, demoCalls, demoTrouble>>

Ended == {"finished", "refused"}
KnownRuns == {r \in Runs : demoStatus[r] # "none"}
RunningRuns == {r \in Runs : demoStatus[r] = "running"}
\* running, or else last.
Latest == IF RunningRuns # {} THEN CHOOSE r \in RunningRuns : TRUE
          ELSE IF KnownRuns = {} THEN Nothing ELSE CHOOSE r \in KnownRuns : \A q \in KnownRuns : q <= r

\* A run as GET /api/demo tells it: with the rule that decided, once there is one.
RunSeen(r) ==
  [id |-> r, status |-> demoStatus[r],
   decided |-> IF demoStatus[r] = "refused" THEN "absent"
               ELSE IF r \in demoKilled THEN "killed" ELSE "null"]
SessionSeen(r) == [id |-> r, isolated |-> r \in demoKilled]
DemoTroubled == demoTrouble < MaxDemoTrouble /\ demoTrouble' = demoTrouble + 1

DemoCall(of, answer) == [of |-> of, answer |-> answer]
CallsLeft(calls) == Cardinality(calls) < MaxDemoCalls
AskSession(calls, r) == IF CallsLeft(calls) THEN calls \cup {DemoCall(r, Sent)} ELSE calls

-----------------------------------------------------------------------------
(* The model of the page (model.ts).                                       *)

\* Who decided: the run's explanation, but not yet while it runs without one;
\* where there is none, the session: isolated, passed, or not known yet.
decider(run, session) ==
  LET d == IF run = Nothing THEN "absent"
           ELSE IF run.decided = "null" /\ run.status = "running" THEN "unknown"
           ELSE run.decided
  IN IF d # "absent" THEN d
     ELSE IF run = Nothing \/ session = Nothing THEN "unknown"
     ELSE IF session.isolated THEN "killed"
     ELSE IF run.status # "running" THEN "null" ELSE "unknown"

outcome(run, session) ==
  IF run = Nothing THEN "none"
  ELSE IF run.status \in {"running", "refused"} THEN run.status
  ELSE IF decider(run, session) = "killed" \/ (session # Nothing /\ session.isolated)
  THEN "isolated" ELSE "passed"

\* The evidence cell of the "why" card.
whyEvidence ==
  IF outcome(demo.run, demo.session) # "isolated" THEN "notCollected"
  ELSE IF demo.evidence = Nothing THEN "collecting"
  ELSE IF demo.evidence = NoEvidence THEN "noInformation" ELSE "shown"

\* The button is locked while a run is under way or being started.
locked == demo.starting \/ (demo.run # Nothing /\ demo.run.status = "running")

isolatedDone(d) ==
  d.run # Nothing /\ d.run.status # "running" /\ d.session # Nothing /\ d.session.isolated

-----------------------------------------------------------------------------
DemoInit ==
  /\ demoStatus = [r \in Runs |-> "none"] /\ demoKilled = {}
  /\ demo = [run |-> Nothing, session |-> Nothing, evidence |-> Nothing,
             starting |-> FALSE]
  /\ runCalls = {DemoCall(Nothing, Sent)} /\ sessionCalls = {}
  /\ evidenceCall = Nothing /\ demoStart = Idle
  /\ demoTrouble = 0

-----------------------------------------------------------------------------
(* The server: one run at a time.                                          *)

RunStarts(r, how) ==
  /\ RunningRuns = {} /\ demoStatus[r] = "none" /\ \A q \in 1 .. r - 1 : demoStatus[q] # "none"
  /\ demoStatus' = [demoStatus EXCEPT ![r] = how]

OtherStarts(r) ==
  /\ DemoTroubled /\ \E how \in {"running", "refused"} : RunStarts(r, how)
  /\ UNCHANGED <<demoKilled, demo, demoCalls>>

RunKilled(r) ==
  /\ demoStatus[r] \in {"running", "finished"} /\ r \notin demoKilled
  /\ demoKilled' = demoKilled \cup {r}
  /\ UNCHANGED <<demoStatus, demo, demoCalls, demoTrouble>>

RunEnds(r) ==
  /\ demoStatus[r] = "running" /\ demoStatus' = [demoStatus EXCEPT ![r] = "finished"]
  /\ UNCHANGED <<demoKilled, demo, demoCalls, demoTrouble>>

\* Every request is answered with what holds then, or fails.
RunReplied(c) ==
  /\ c.answer = Sent
  /\ \/ /\ runCalls' = (runCalls \ {c}) \cup
             {DemoCall(Nothing, Answer(IF Latest = Nothing THEN Nothing ELSE RunSeen(Latest)))}
        /\ UNCHANGED demoTrouble
     \/ DemoTroubled /\ runCalls' = (runCalls \ {c}) \cup {DemoCall(Nothing, Failed)}
  /\ UNCHANGED <<demoServer, demo, sessionCalls, evidenceCall, demoStart>>

SessionReplied(c) ==
  /\ c.answer = Sent
  /\ \/ /\ sessionCalls' = (sessionCalls \ {c}) \cup {DemoCall(c.of, Answer(SessionSeen(c.of)))}
        /\ UNCHANGED demoTrouble
     \/ DemoTroubled /\ sessionCalls' = sessionCalls \ {c}
  /\ UNCHANGED <<demoServer, demo, runCalls, evidenceCall, demoStart>>

DemoStartReplied ==
  /\ demoStart = Sent
  /\ \/ \E r \in Runs, how \in {"running", "refused"} :
          /\ RunStarts(r, how)
          /\ demoStart' = Answer([id |-> r, status |-> how, decided |-> "absent"])
     \/ /\ RunningRuns # {} /\ UNCHANGED demoStatus      \* 409 with the run under way
        /\ demoStart' = [at |-> "conflict", data |-> [id |-> Latest, status |-> "running",
                                                      decided |-> "absent"]]
     \/ demoStart' = Failed /\ UNCHANGED demoStatus
  /\ UNCHANGED <<demoKilled, demo, runCalls, sessionCalls, evidenceCall,
                 demoTrouble>>

-----------------------------------------------------------------------------
(* useDemo.                                                                *)

\* adopt: another run starts without a session and evidence.
adopt(d, r) ==
  LET new == r # Nothing /\ (d.run = Nothing \/ d.run.id # r.id)
  IN [run |-> r, session |-> IF new THEN Nothing ELSE d.session,
      evidence |-> IF new THEN Nothing ELSE d.evidence, starting |-> d.starting]

\* The poll: every second, or every fourth while nothing runs.
PollRun ==
  /\ CallsLeft(runCalls) /\ runCalls' = runCalls \cup {DemoCall(Nothing, Sent)} /\ runCalls' # runCalls
  /\ UNCHANGED <<demoServer, demo, sessionCalls, evidenceCall, demoStart, demoTrouble>>

RunTaken(c) ==
  /\ c.answer # Sent /\ runCalls' = runCalls \ {c}
  /\ IF c.answer = Failed THEN UNCHANGED <<demo, sessionCalls>>
     ELSE /\ demo' = adopt(demo, c.answer.data)
          /\ sessionCalls' = IF c.answer.data = Nothing THEN sessionCalls
                             ELSE AskSession(sessionCalls, c.answer.data.id)
  /\ UNCHANGED <<demoServer, evidenceCall, demoStart, demoTrouble>>

\* Mutant: an answer about the installation of an earlier run counts too.
MutTakesSession(r) == TRUE
\* loadSession: only for the run on the page.
TakesSession(r) == demo.run # Nothing /\ demo.run.id = r

SessionTaken(c) ==
  /\ c.answer # Sent /\ sessionCalls' = sessionCalls \ {c}
  /\ demo' = IF TakesSession(c.of) THEN [demo EXCEPT !.session = c.answer.data] ELSE demo
  /\ UNCHANGED <<demoServer, runCalls, evidenceCall, demoStart, demoTrouble>>

\* 0.3 s after a verdict of the run's container came on the stream.
VerdictHeard ==
  /\ demo.run # Nothing /\ demo.run.id \in demoKilled
  /\ DemoCall(demo.run.id, Sent) \notin sessionCalls /\ CallsLeft(sessionCalls)
  /\ sessionCalls' = AskSession(sessionCalls, demo.run.id)
  /\ UNCHANGED <<demoServer, demo, runCalls, evidenceCall, demoStart, demoTrouble>>

\* The effect: evidence of a run that ended isolated, looked for a few times;
\* it may be saved late or not at all.
AskEvidence ==
  /\ isolatedDone(demo) /\ demo.evidence = Nothing /\ evidenceCall = Nothing
  /\ evidenceCall' = [of |-> demo.run.id, left |-> EvidenceTries, answer |-> Sent]
  /\ UNCHANGED <<demoServer, demo, runCalls, sessionCalls, demoStart, demoTrouble>>

EvidenceReplied ==
  /\ evidenceCall # Nothing /\ evidenceCall.answer = Sent
  /\ \/ /\ \E found \in BOOLEAN : evidenceCall' = [evidenceCall EXCEPT !.answer = Answer(found)]
        /\ UNCHANGED demoTrouble
     \/ DemoTroubled /\ evidenceCall' = [evidenceCall EXCEPT !.answer = Failed]
  /\ UNCHANGED <<demoServer, demo, runCalls, sessionCalls, demoStart>>

\* The cleanup of that effect, once what it depends on has changed.  The answers
\* that adopt a run or a session only set state; the page is drawn and the
\* effect cleaned up in a later task, and the search is live until then.
EvidenceDropped ==
  /\ evidenceCall # Nothing
  /\ ~(isolatedDone(demo) /\ demo.evidence = Nothing /\ evidenceCall.of = demo.run.id)
  /\ evidenceCall' = Nothing
  /\ UNCHANGED <<demoServer, demo, runCalls, sessionCalls, demoStart, demoTrouble>>

\* Found; not found and to be asked again; given up, also after a failure.
EvidenceTaken ==
  /\ evidenceCall # Nothing /\ evidenceCall.answer # Sent
  /\ LET found == evidenceCall.answer = Answer(TRUE)
         again == evidenceCall.answer = Answer(FALSE) /\ evidenceCall.left > 1
     IN /\ demo' = IF again THEN demo
                   ELSE [demo EXCEPT !.evidence = IF found THEN evidenceCall.of ELSE NoEvidence]
        /\ evidenceCall' = IF again THEN [evidenceCall EXCEPT !.left = @ - 1, !.answer = Sent]
                           ELSE Nothing
  /\ UNCHANGED <<demoServer, runCalls, sessionCalls, demoStart, demoTrouble>>

StartDemo ==
  /\ ~locked
  /\ demo' = [demo EXCEPT !.starting = TRUE]
  /\ demoStart' = Sent
  /\ UNCHANGED <<demoServer, runCalls, sessionCalls, evidenceCall, demoTrouble>>

DemoStartTaken ==
  /\ demoStart.at \in {"answered", "conflict", "failed"} /\ demoStart' = Idle
  /\ LET d == IF demoStart = Failed THEN demo ELSE adopt(demo, demoStart.data)
     IN demo' = [d EXCEPT !.starting = FALSE]
  /\ runCalls' = IF demoStart.at = "conflict" /\ CallsLeft(runCalls)
                 THEN runCalls \cup {DemoCall(Nothing, Sent)} ELSE runCalls
  /\ sessionCalls' = IF demoStart.at = "answered" THEN AskSession(sessionCalls, demoStart.data.id)
                     ELSE sessionCalls
  /\ UNCHANGED <<demoServer, evidenceCall, demoTrouble>>

-----------------------------------------------------------------------------
DemoNext ==
  \/ \E r \in Runs : OtherStarts(r) \/ RunKilled(r) \/ RunEnds(r)
  \/ \E c \in runCalls : RunReplied(c) \/ RunTaken(c)
  \/ \E c \in sessionCalls : SessionReplied(c) \/ SessionTaken(c)
  \/ PollRun \/ VerdictHeard \/ AskEvidence \/ EvidenceReplied \/ EvidenceTaken
  \/ EvidenceDropped
  \/ StartDemo \/ DemoStartReplied \/ DemoStartTaken

DemoSpec == DemoInit /\ [][DemoNext]_demoVars
-----------------------------------------------------------------------------
\* Every variable keeps its kind of value.
DemoTypeOK ==
  /\ demoStatus \in [Runs -> {"none", "running"} \cup Ended]
  /\ demoKilled \subseteq Runs
  /\ demo.run = Nothing \/ demo.run.id \in Runs
  /\ demo.evidence \in {Nothing, NoEvidence} \cup Runs

\* The session the page shows beside a run is that of its installation, never
\* that of a run shown before, whatever order the answers come in: adopt empties
\* it and loadSession takes answers for the run on the page only.
DemoShowsOneRun ==
  demo.run # Nothing /\ demo.session # Nothing => demo.session.id = demo.run.id

\* What useDemo.ts:44 says: a new run empties session and evidence, so the
\* evidence the page shows is that of the run it shows.  The code does not keep
\* this: EvidenceTaken may come between the adoption of the next run and
\* EvidenceDropped, and what it sets stays.
EvidenceOfShownRun == whyEvidence = "shown" => demo.evidence = demo.run.id
=============================================================================
