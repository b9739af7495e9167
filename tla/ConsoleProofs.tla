--------------------------- MODULE ConsoleProofs ----------------------------
(***************************************************************************)
(* Safety of the console's pages whose state several answers write: the    *)
(* sign-in gate and the accounts (Gate, Accounts), the demonstration page  *)
(* (Demo), what the console tells of new cases (Cases, Guide), the pages   *)
(* of policies (Policies, PolicyEdit) and the audit log (Audit), for any   *)
(* number of sessions, users, runs, cases, entries and requests under way. *)
(***************************************************************************)
EXTENDS Gate, Accounts, Demo, Guide, Policies, Audit, PolicyEdit, SequenceTheorems, TLAPS

-----------------------------------------------------------------------------
(***************************************************************************)
(* The sign-in gate of the console (Gate), for any number of sessions,     *)
(* users and requests under way: its variables keep their types, pages are *)
(* shown only behind an answer that said "active", and a gate that was     *)
(* closed is opened only by a finish() asked after that.                   *)
(*                                                                         *)
(* The last two do not follow from each other's conditions.  The second    *)
(* needs what the generation counter is there for, stated of the calls     *)
(* under way: the current finish() was asked after the gate was last       *)
(* closed (CurrentIsFresh).                                                *)
(*                                                                         *)
(* Behind the gate, an administrator always remains (SomeAdminStays of     *)
(* Accounts), for any number of accounts, administrators and requests.     *)
(* The server refuses what would leave none at the moment it carries a     *)
(* request out, so it does not matter how old the list was from which it   *)
(* was sent; the pages matter only in that they send well-formed requests. *)
(***************************************************************************)

CurrentIsFresh == \A c \in calls : c.kind = "finish" /\ c.current => c.fresh

\* A session that has a stage has a user.
StageHasOwner == \A s \in Sessions : stage[s] \in Stages => owner[s] \in GateUsers

\* The console's own variables, but for its calls.
ClientTyped ==
  /\ cookie \in 0 .. MaxSessions /\ gate \in Steps \cup {"loading", "active"}
  /\ me \in Mes /\ who \in GateUsers \cup {Nothing} /\ asked \in Nat /\ noAuth \in BOOLEAN

\* What the server has, and what it answers to a call.
ServerTyped ==
  /\ owner \in [Sessions -> GateUsers \cup {Nothing}]
  /\ stage \in [Sessions -> Stages \cup {"none", "ended"}]
  /\ trouble \in Nat /\ StageHasOwner

GateInv == ServerTyped /\ ClientTyped /\ calls \subseteq Calls /\ ShellNeedsSignIn /\ CurrentIsFresh

AnswerGiven(c) ==
  \E code \in Codes, m \in Mes, o \in 0 .. MaxSessions :
    calls' = (calls \ {c}) \cup {[c EXCEPT !.code = code, !.me = m, !.opened = o]}

-----------------------------------------------------------------------------
(* Calls and answers.                                                      *)

LEMMA StepOfTyped ==
  \A st \in DOMAIN StepOf : st \in Stages /\ StepOf[st] \in Steps
BY DEF StepOf, Stages, Steps

LEMMA CallTyped ==
  ASSUME NEW k \in {"finish", "refresh", "recheck", "page", "step", "logout"},
         NEW st \in Steps \cup {"none"}, NEW s \in 0 .. MaxSessions
  PROVE  Call(k, st, s) \in Calls /\ Call(k, st, s).fresh
<1>1. 0 \in 0 .. MaxSessions
  BY GateAssumption
<1>2. NoMe \in Mes
  BY DEF Mes
<1>3. "waiting" \in Codes
  BY DEF Codes
<1>4. QED
  BY <1>1, <1>2, <1>3 DEF Call, Calls

\* A new call of any kind is a fresh one.
LEMMA AskedKeeps ==
  ASSUME CurrentIsFresh, calls \subseteq Calls, NEW done,
         NEW k \in {"finish", "refresh", "recheck", "page", "step", "logout"},
         NEW st \in Steps \cup {"none"}, NEW s \in 0 .. MaxSessions,
         calls' = (calls \ done) \cup {Call(k, st, s)}
  PROVE  calls' \subseteq Calls /\ CurrentIsFresh'
BY CallTyped DEF CurrentIsFresh

\* Calls that are taken leave the others as they were.
LEMMA TakenKeeps ==
  ASSUME CurrentIsFresh, calls \subseteq Calls, NEW c, calls' = calls \ {c}
  PROVE  calls' \subseteq Calls /\ CurrentIsFresh'
BY DEF CurrentIsFresh

\* A new generation leaves no finish() current, so that none has to be fresh.
LEMMA GenerationTyped ==
  ASSUME NEW cs \in SUBSET Calls
  PROVE  /\ NewGeneration(cs) \subseteq Calls
         /\ \A c \in NewGeneration(cs) : c.kind = "finish" => ~c.current
<1>1. \A c \in Calls : [c EXCEPT !.current = FALSE] \in Calls
                       /\ ~[c EXCEPT !.current = FALSE].current
  BY DEF Calls
<1>2. QED
  BY <1>1 DEF NewGeneration

LEMMA StaleTyped ==
  ASSUME NEW cs \in SUBSET Calls
  PROVE  /\ Stale(cs) \subseteq Calls
         /\ \A d \in Stale(cs) : \E c \in cs : d.kind = c.kind /\ d.current = c.current
<1>1. \A c \in Calls : LET d == [c EXCEPT !.fresh = FALSE]
                       IN  d \in Calls /\ d.kind = c.kind /\ d.current = c.current
  BY DEF Calls
<1>2. QED
  BY <1>1 DEF Stale

\* Closing the gate: a new generation of the calls, all of them stale.
LEMMA ClosedCalls ==
  ASSUME NEW cs \in SUBSET Calls
  PROVE  /\ Stale(NewGeneration(cs)) \subseteq Calls
         /\ \A c \in Stale(NewGeneration(cs)) : c.kind = "finish" => ~c.current
<1>1. NewGeneration(cs) \in SUBSET Calls
  BY GenerationTyped
<1>2. QED
  BY <1>1, GenerationTyped, StaleTyped

\* The step screens taken down: only their own call changes.
LEMMA UnmountedKeeps ==
  ASSUME NEW cs \in SUBSET Calls
  PROVE  /\ Unmounted(cs) \subseteq Calls
         /\ \A d \in Unmounted(cs) : d.kind = "finish" => d \in cs
<1>1. \A c \in Calls : LET d == [c EXCEPT !.current = FALSE]
                       IN  d \in Calls /\ d.kind = c.kind
  BY DEF Calls
<1>2. QED
  BY <1>1 DEF Unmounted

-----------------------------------------------------------------------------
(* The server.                                                             *)

\* An answer fills in code, user and session, and nothing that the gate's
\* generations are about.
LEMMA AnswerTyped ==
  ASSUME NEW c \in Calls, NEW code \in Codes, NEW m \in Mes, NEW o \in 0 .. MaxSessions
  PROVE  LET a == [c EXCEPT !.code = code, !.me = m, !.opened = o]
         IN  a \in Calls /\ a.kind = c.kind /\ a.current = c.current /\ a.fresh = c.fresh
BY DEF Calls

LEMMA AnsweredKeeps ==
  ASSUME CurrentIsFresh, calls \subseteq Calls, NEW c \in calls, AnswerGiven(c)
  PROVE  calls' \subseteq Calls /\ CurrentIsFresh'
<1>1. PICK code \in Codes, m \in Mes, o \in 0 .. MaxSessions :
        calls' = (calls \ {c}) \cup {[c EXCEPT !.code = code, !.me = m, !.opened = o]}
  BY DEF AnswerGiven
<1> DEFINE a == [c EXCEPT !.code = code, !.me = m, !.opened = o]
<1>2. a \in Calls /\ a.kind = c.kind /\ a.current = c.current /\ a.fresh = c.fresh
  BY DEF Calls
<1>3. calls' = (calls \ {c}) \cup {a}
  BY <1>1
<1> HIDE DEF a
<1>4. QED
  BY <1>2, <1>3 DEF CurrentIsFresh

\* Answers that set only the code, or the code and the user.
LEMMA AnswersCode ==
  ASSUME NEW c \in Calls, NEW code \in Codes, Answered(c, [c EXCEPT !.code = code])
  PROVE  AnswerGiven(c)
<1>1. c.me \in Mes /\ c.opened \in 0 .. MaxSessions
  BY DEF Calls
<1>2. [c EXCEPT !.code = code] = [c EXCEPT !.code = code, !.me = c.me, !.opened = c.opened]
  BY DEF Calls
<1>3. QED
  BY <1>1, <1>2 DEF Answered, AnswerGiven

LEMMA AnswersUser ==
  ASSUME NEW c \in Calls, NEW code \in Codes, NEW m \in Mes,
         Answered(c, [c EXCEPT !.code = code, !.me = m])
  PROVE  AnswerGiven(c)
<1>1. c.opened \in 0 .. MaxSessions
  BY DEF Calls
<1>2. [c EXCEPT !.code = code, !.me = m] = [c EXCEPT !.code = code, !.me = m, !.opened = c.opened]
  BY DEF Calls
<1>3. QED
  BY <1>1, <1>2 DEF Answered, AnswerGiven

LEMMA KnownTyped ==
  ASSUME ServerTyped, NEW s, Known(s)
  PROVE  s \in Sessions /\ owner[s] \in GateUsers /\ stage[s] \in Stages /\ MeOf(s) \in Mes
BY DEF Known, ServerTyped, StageHasOwner, MeOf, Mes

LEMMA ServerStays ==
  ASSUME ServerTyped, UNCHANGED <<owner, stage>>, trouble' \in Nat
  PROVE  ServerTyped'
BY DEF ServerTyped, StageHasOwner

\* A session that ends: no stage, whoever it belonged to.
LEMMA SessionEndsTyped ==
  ASSUME ServerTyped, NEW s, stage' = [stage EXCEPT ![s] = "ended"], owner' = owner,
         trouble' \in Nat
  PROVE  ServerTyped'
BY DEF ServerTyped, StageHasOwner, Stages

\* A session that gets a stage, and its user.
LEMMA SessionMovesTyped ==
  ASSUME ServerTyped, NEW s \in Sessions, NEW u \in GateUsers, NEW st \in Stages,
         stage' = [stage EXCEPT ![s] = st], owner' = [owner EXCEPT ![s] = u],
         trouble' = trouble
  PROVE  ServerTyped'
BY DEF ServerTyped, StageHasOwner

LEMMA CodeNames ==
  /\ "ok" \in Codes /\ "unauthorized" \in Codes /\ "forbidden" \in Codes
  /\ "missing" \in Codes /\ "failed" \in Codes /\ NoMe \in Mes
  /\ UsedStages \subseteq Stages /\ MaxTrouble \in Nat
  /\ \A s \in Sessions : s \in 0 .. MaxSessions
BY GateAssumption DEF Codes, Mes, Stages, Sessions

\* The handlers of the sign-in.
LEMMA LoginAnswers ==
  ASSUME ServerTyped, NEW c \in Calls, AnswersLogin(c)
  PROVE  AnswerGiven(c) /\ ServerTyped'
<1>1. trouble' = trouble /\ trouble \in Nat
  BY DEF AnswersLogin, ServerTyped
<1>2. CASE Answered(c, [c EXCEPT !.code = "unauthorized"]) /\ UNCHANGED serverSide
  BY <1>1, <1>2, AnswersCode, ServerStays, CodeNames DEF serverSide
<1>3. ASSUME NEW s \in Sessions, NEW u \in GateUsers, NEW st \in UsedStages,
             owner' = [owner EXCEPT ![s] = u], stage' = [stage EXCEPT ![s] = st],
             Answered(c, [c EXCEPT !.code = "ok", !.me = [user |-> u, stage |-> st],
                                 !.opened = s])
      PROVE  AnswerGiven(c) /\ ServerTyped'
  <2>1. st \in Stages /\ s \in 0 .. MaxSessions
    BY CodeNames
  <2>2. ServerTyped'
    BY <1>1, <1>3, <2>1, SessionMovesTyped
  <2>3. [user |-> u, stage |-> st] \in Mes
    BY <2>1 DEF Mes
  <2>4. QED
    BY <1>3, <2>1, <2>2, <2>3, CodeNames DEF Answered, AnswerGiven
<1>4. QED
  BY <1>2, <1>3 DEF AnswersLogin

LEMMA StepAnswers ==
  ASSUME ServerTyped, NEW c \in Calls, AnswersStep(c)
  PROVE  AnswerGiven(c) /\ ServerTyped'
<1>1. trouble' = trouble /\ owner' = owner /\ trouble \in Nat
  BY DEF AnswersStep, ServerTyped
<1>2. CASE UNCHANGED stage /\ \E r \in {"unauthorized", "failed"} :
             Answered(c, [c EXCEPT !.code = r])
  BY <1>1, <1>2, AnswersCode, ServerStays, CodeNames
<1>3. ASSUME NEW st \in DOMAIN StepOf, StageOf(c.sid) = st,
             NEW next \in UsedStages, stage' = [stage EXCEPT ![c.sid] = next],
             Answered(c, [c EXCEPT !.code = "ok",
                                 !.me = [user |-> owner[c.sid], stage |-> next]])
      PROVE  AnswerGiven(c) /\ ServerTyped'
  <2>1. Known(c.sid)
    BY <1>3, StepOfTyped DEF StageOf, Stages
  <2>2. c.sid \in Sessions /\ owner[c.sid] \in GateUsers
    BY <2>1, KnownTyped
  <2>3. next \in Stages
    BY CodeNames
  <2>4. [user |-> owner[c.sid], stage |-> next] \in Mes
    BY <2>2, <2>3 DEF Mes
  <2>5. AnswerGiven(c)
    BY <1>3, <2>4, AnswersUser, CodeNames
  <2>6. owner' = [owner EXCEPT ![c.sid] = owner[c.sid]]
    BY <1>1, <2>2 DEF ServerTyped
  <2>7. ServerTyped'
    BY <1>1, <1>3, <2>2, <2>3, <2>6, SessionMovesTyped
  <2>8. QED
    BY <2>5, <2>7
<1>4. QED
  BY <1>2, <1>3 DEF AnswersStep

\* Every other answer of the server.
LEMMA OtherAnswers ==
  ASSUME ServerTyped, NEW c \in Calls,
         AnswersMe(c) \/ AnswersOld(c) \/ AnswersPage(c) \/ AnswersLogout(c)
           \/ ServerUnreachable(c)
  PROVE  AnswerGiven(c) /\ ServerTyped'
<1>1. trouble \in Nat
  BY DEF ServerTyped
<1>2. CASE AnswersMe(c)
  <2>1. ServerTyped'
    BY <1>1, <1>2, ServerStays DEF AnswersMe, serverSide
  <2>2. CASE Known(c.sid)
    BY <1>2, <2>1, <2>2, KnownTyped, AnswersUser, CodeNames DEF AnswersMe
  <2>3. CASE ~Known(c.sid)
    BY <1>2, <2>1, <2>3, AnswersCode, CodeNames DEF AnswersMe
  <2>4. QED
    BY <2>2, <2>3
<1>3. CASE AnswersOld(c)
  BY <1>3, ServerStays, AnswersCode, CodeNames DEF AnswersOld, serverSide
<1>4. CASE AnswersPage(c)
  <2>1. ServerTyped'
    BY <1>1, <1>4, ServerStays DEF AnswersPage, serverSide
  <2>2. CASE \E r \in {"ok", "forbidden"} : Answered(c, [c EXCEPT !.code = r])
    BY <2>1, <2>2, AnswersCode, CodeNames
  <2>3. CASE Answered(c, [c EXCEPT !.code = "unauthorized",
                                 !.me = IF Known(c.sid) THEN MeOf(c.sid) ELSE NoMe])
    <3>1. (IF Known(c.sid) THEN MeOf(c.sid) ELSE NoMe) \in Mes
      BY KnownTyped, CodeNames
    <3>2. QED
      BY <2>1, <2>3, <3>1, AnswersUser, CodeNames
  <2>4. QED
    BY <1>4, <2>2, <2>3 DEF AnswersPage
<1>5. CASE AnswersLogout(c)
  <2>1. AnswerGiven(c)
    BY <1>5, AnswersCode, CodeNames DEF AnswersLogout
  <2>2. owner' = owner /\ trouble' = trouble
    BY <1>5 DEF AnswersLogout
  <2>3. CASE stage' = stage
    BY <1>1, <2>1, <2>2, <2>3, ServerStays
  <2>4. CASE stage' = [stage EXCEPT ![c.sid] = "ended"]
    BY <1>1, <2>1, <2>2, <2>4, SessionEndsTyped
  <2>5. QED
    BY <1>5, <2>3, <2>4 DEF AnswersLogout
<1>6. CASE ServerUnreachable(c)
  <2>1. trouble' \in Nat
    BY <1>1, <1>6 DEF ServerUnreachable
  <2>2. QED
    BY <1>6, <2>1, ServerStays, AnswersCode, CodeNames DEF ServerUnreachable, serverSide
<1>7. QED
  BY <1>2, <1>3, <1>4, <1>5, <1>6

LEMMA ServerGivesAnswers ==
  ASSUME ServerTyped, NEW c \in Calls, ServerSteps(c)
  PROVE  AnswerGiven(c) /\ ServerTyped' /\ ClientUnchanged
<1>1. AnswerGiven(c) /\ ServerTyped'
  BY LoginAnswers, StepAnswers, OtherAnswers DEF ServerSteps
<1>2. ClientUnchanged
  BY DEF ServerSteps, AnswersMe, AnswersOld, AnswersLogin, AnswersStep, AnswersPage,
         AnswersLogout, ServerUnreachable
<1>3. QED
  BY <1>1, <1>2

-----------------------------------------------------------------------------
(* The console.                                                            *)

\* The gate opens only when a fresh finish() is taken.
OpensByFresh ==
  gate # "active" /\ gate' = "active" => \E c \in calls \ calls' : c.kind = "finish" /\ c.fresh

\* What every step of the console does.
ConsoleStep ==
  /\ ClientTyped' /\ calls' \subseteq Calls /\ ShellNeedsSignIn' /\ CurrentIsFresh'
  /\ OpensByFresh /\ UNCHANGED <<owner, stage, trouble>>

LEMMA ToStepClosed ==
  ASSUME NEW st, toStep(st)
  PROVE  gate' \in Steps /\ gate' # "active"
BY StepOfTyped DEF toStep, Steps

LEMMA FinishKeeps ==
  ASSUME GateInv, NEW c \in calls, FinishTaken(c)
  PROVE  ConsoleStep
<1>1. c \in Calls /\ c.me \in Mes
  BY DEF GateInv, Calls
<1>2. c.me.user \in GateUsers \cup {Nothing} /\ NoMe \in Mes /\ OldMe \in Mes
  BY <1>1 DEF Mes, NoMe, OldMe
<1>3. calls \ {c} \in SUBSET Calls
  BY DEF GateInv
<1>4. calls' = calls \ {c} \/ calls' = Unmounted(calls \ {c})
  BY DEF FinishTaken
<1>5. calls' \subseteq Calls /\ \A d \in calls' : d.kind = "finish" => d \in calls \ {c}
  BY <1>3, <1>4, UnmountedKeeps
<1>6. CurrentIsFresh' /\ c \notin calls'
  BY <1>5 DEF GateInv, CurrentIsFresh, FinishTaken
<1>7. UNCHANGED <<owner, stage, cookie, asked, trouble>>
  BY DEF FinishTaken, serverSide
<1>8. CASE ~c.current /\ UNCHANGED <<gate, me, who, noAuth>>
  BY <1>5, <1>6, <1>7, <1>8 DEF GateInv, ClientTyped, ShellNeedsSignIn, ConsoleStep, OpensByFresh
<1>9. CASE c.current
  <2>1. c.fresh
    BY <1>9 DEF GateInv, CurrentIsFresh, FinishTaken
  <2>2. OpensByFresh
    BY <1>6, <2>1 DEF OpensByFresh, FinishTaken
  <2>3. CASE c.me.stage = "active" /\ gate' = "active" /\ me' = c.me /\ who' = c.me.user
             /\ UNCHANGED noAuth
    BY <1>1, <1>2, <1>5, <1>6, <1>7, <2>2, <2>3
       DEF GateInv, ClientTyped, ShellNeedsSignIn, ConsoleStep
  <2>4. CASE toStep(c.me.stage) /\ me' = c.me /\ who' = c.me.user /\ UNCHANGED noAuth
    BY <1>1, <1>2, <1>5, <1>6, <1>7, <2>2, <2>4, ToStepClosed
       DEF GateInv, ClientTyped, ShellNeedsSignIn, ConsoleStep
  <2>5. CASE noAuth' = TRUE /\ me' = OldMe /\ gate' = "active" /\ UNCHANGED who
    BY <1>2, <1>5, <1>6, <1>7, <2>2, <2>5
       DEF GateInv, ClientTyped, ShellNeedsSignIn, ConsoleStep, OldMe
  <2>6. CASE gate' = "login" /\ UNCHANGED <<me, who, noAuth>>
    BY <1>5, <1>6, <1>7, <2>2, <2>6
       DEF GateInv, ClientTyped, ShellNeedsSignIn, ConsoleStep, Steps
  <2>7. QED
    BY <1>9, <2>3, <2>4, <2>5, <2>6 DEF FinishTaken
<1>10. QED
  BY <1>8, <1>9 DEF FinishTaken

LEMMA RefreshKeeps ==
  ASSUME GateInv, NEW c \in calls, RefreshTaken(c)
  PROVE  ConsoleStep
<1>1. c.me \in Mes
  BY DEF GateInv, Calls
<1>2. calls' \subseteq Calls /\ CurrentIsFresh'
  BY TakenKeeps DEF GateInv, RefreshTaken
<1>3. UNCHANGED <<owner, stage, cookie, who, noAuth, asked, trouble>>
  BY DEF RefreshTaken, serverSide
<1>4. CASE UNCHANGED <<gate, me>>
  BY <1>2, <1>3, <1>4 DEF GateInv, ClientTyped, ShellNeedsSignIn, ConsoleStep, OpensByFresh
<1>5. CASE me' = c.me /\ c.me.stage = "active" /\ UNCHANGED gate
  BY <1>1, <1>2, <1>3, <1>5 DEF GateInv, ClientTyped, ShellNeedsSignIn, ConsoleStep, OpensByFresh
<1>6. CASE me' = c.me /\ toStep(c.me.stage)
  BY <1>1, <1>2, <1>3, <1>6, ToStepClosed
     DEF GateInv, ClientTyped, ShellNeedsSignIn, ConsoleStep, OpensByFresh
<1>7. QED
  BY <1>4, <1>5, <1>6 DEF RefreshTaken

\* A step of the console that leaves what the server said alone and closes the
\* gate, or leaves it as it is.
LEMMA ClosingKeeps ==
  ASSUME GateInv, calls' \subseteq Calls, CurrentIsFresh',
         UNCHANGED <<owner, stage, trouble, noAuth, me>>,
         cookie' \in 0 .. MaxSessions, asked' \in Nat, who' \in GateUsers \cup {Nothing},
         gate' = gate \/ (gate' \in Steps /\ gate' # "active")
  PROVE  ConsoleStep
BY DEF GateInv, ClientTyped, ShellNeedsSignIn, ConsoleStep, OpensByFresh

LEMMA UnauthorizedKeeps ==
  ASSUME GateInv, NEW c \in calls, unauthorized(c)
  PROVE  calls' \subseteq Calls /\ CurrentIsFresh' /\ gate' \in Steps /\ gate' # "active"
<1>1. calls \ {c} \in SUBSET Calls
  BY DEF GateInv
<1>2. gate' \in Steps /\ gate' # "active"
  BY ToStepClosed DEF unauthorized
<1>3. QED
  BY <1>1, <1>2, ClosedCalls DEF unauthorized, CurrentIsFresh

LEMMA PageKeeps ==
  ASSUME GateInv, NEW c \in calls, PageTaken(c)
  PROVE  ConsoleStep
<1>1. UNCHANGED <<owner, stage, cookie, me, who, noAuth, asked, trouble>>
  BY DEF PageTaken, serverSide
<1>2. CASE unauthorized(c)
  BY <1>1, <1>2, UnauthorizedKeeps, ClosingKeeps DEF GateInv, ClientTyped
<1>3. CASE UNCHANGED gate /\ calls' = (calls \ {c}) \cup {Call("refresh", "none", cookie)}
  <2>1. calls' \subseteq Calls /\ CurrentIsFresh'
    BY <1>3, AskedKeeps DEF GateInv, ClientTyped
  <2>2. QED
    BY <1>1, <1>3, <2>1, ClosingKeeps DEF GateInv, ClientTyped
<1>4. CASE UNCHANGED gate /\ calls' = calls \ {c}
  <2>1. calls' \subseteq Calls /\ CurrentIsFresh'
    BY <1>4, TakenKeeps DEF GateInv
  <2>2. QED
    BY <1>1, <1>4, <2>1, ClosingKeeps DEF GateInv, ClientTyped
<1>5. QED
  BY <1>2, <1>3, <1>4 DEF PageTaken

LEMMA RecheckKeeps ==
  ASSUME GateInv, NEW c \in calls, RecheckTaken(c)
  PROVE  ConsoleStep
<1>1. UNCHANGED <<owner, stage, cookie, me, who, noAuth, asked, trouble>>
  BY DEF RecheckTaken, serverSide
<1>2. CASE unauthorized(c)
  BY <1>1, <1>2, UnauthorizedKeeps, ClosingKeeps DEF GateInv, ClientTyped
<1>3. CASE UNCHANGED gate /\ calls' = calls \ {c}
  <2>1. calls' \subseteq Calls /\ CurrentIsFresh'
    BY <1>3, TakenKeeps DEF GateInv
  <2>2. QED
    BY <1>1, <1>3, <2>1, ClosingKeeps DEF GateInv, ClientTyped
<1>4. QED
  BY <1>2, <1>3 DEF RecheckTaken

LEMMA StepKeeps ==
  ASSUME GateInv, NEW c \in calls, StepTaken(c)
  PROVE  ConsoleStep
<1>1. c.me \in Mes /\ c.opened \in 0 .. MaxSessions
  BY DEF GateInv, Calls
<1>2. c.me.user \in GateUsers \cup {Nothing}
  BY <1>1 DEF Mes, NoMe, OldMe
<1>3. cookie' \in 0 .. MaxSessions /\ who' \in GateUsers \cup {Nothing}
  BY <1>1, <1>2 DEF GateInv, ClientTyped, StepTaken
<1>4. UNCHANGED <<owner, stage, me, noAuth, asked, trouble>> /\ asked' \in Nat
  BY DEF StepTaken, serverSide, GateInv, ClientTyped
<1>5. gate' = gate \/ (gate' \in Steps /\ gate' # "active")
  <2>1. "login" \in Steps /\ "recovery-codes" \in Steps
    BY DEF Steps
  <2>2. QED
    BY <2>1, ToStepClosed DEF StepTaken
<1>6. CASE finish({c})
  <2>1. NewGeneration(calls \ {c}) \subseteq Calls
        /\ \A d \in NewGeneration(calls \ {c}) : d.kind = "finish" => ~d.current
    BY GenerationTyped DEF GateInv
  <2>2. Call("finish", "none", cookie') \in Calls /\ Call("finish", "none", cookie').fresh
    BY <1>3, CallTyped
  <2>3. calls' \subseteq Calls /\ CurrentIsFresh'
    BY <1>6, <2>1, <2>2 DEF finish, CurrentIsFresh
  <2>4. QED
    BY <1>3, <1>4, <1>5, <2>3, ClosingKeeps
<1>7. CASE calls' = calls \ {c}
  <2>1. calls' \subseteq Calls /\ CurrentIsFresh'
    BY <1>7, TakenKeeps DEF GateInv
  <2>2. QED
    BY <1>3, <1>4, <1>5, <2>1, ClosingKeeps
<1>8. QED
  BY <1>6, <1>7 DEF StepTaken

LEMMA LogoutKeeps ==
  ASSUME GateInv, Logout
  PROVE  ConsoleStep
<1>1. calls \in SUBSET Calls /\ cookie \in 0 .. MaxSessions
  BY DEF GateInv, ClientTyped
<1>2. Call("logout", "none", cookie) \in Calls /\ Call("logout", "none", cookie).fresh
  BY <1>1, CallTyped
<1>3. calls' \subseteq Calls /\ CurrentIsFresh'
  BY <1>1, <1>2, ClosedCalls DEF Logout, CurrentIsFresh
<1>4. QED
  BY <1>3, ClosingKeeps DEF Logout, GateInv, ClientTyped, serverSide

LEMMA LogoutTakenKeeps ==
  ASSUME GateInv, NEW c \in calls, LogoutTaken(c)
  PROVE  ConsoleStep
<1>1. calls' \subseteq Calls /\ CurrentIsFresh'
  BY TakenKeeps DEF GateInv, LogoutTaken
<1>2. me' \in Mes /\ gate' \in Steps /\ gate' # "active"
  BY DEF LogoutTaken, Mes, Steps
<1>3. cookie' \in 0 .. MaxSessions
  BY GateAssumption DEF LogoutTaken, GateInv, ClientTyped
<1>4. UNCHANGED <<owner, stage, who, noAuth, asked, trouble>>
  BY DEF LogoutTaken, serverSide
<1>5. QED
  BY <1>1, <1>2, <1>3, <1>4 DEF GateInv, ClientTyped, ShellNeedsSignIn, ConsoleStep, OpensByFresh

\* What the user and the pages ask for.
LEMMA AsksKeep ==
  ASSUME GateInv,
         SubmitForm \/ SubmitCode \/ \E k \in {"page", "recheck", "refresh"} : AppAsks(k)
  PROVE  ConsoleStep
<1>1. asked' \in Nat /\ UNCHANGED <<owner, stage, cookie, gate, me, who, noAuth, trouble>>
  BY DEF SubmitForm, SubmitCode, AppAsks, serverSide, GateInv, ClientTyped
<1>2. PICK k \in {"page", "recheck", "refresh", "step"}, st \in Steps \cup {"none"} :
        calls' = (calls \ {}) \cup {Call(k, st, cookie)}
  <2>1. CASE SubmitForm \/ SubmitCode
    <3>1. gate \in Steps /\ calls' = (calls \ {}) \cup {Call("step", gate, cookie)}
      BY <2>1 DEF SubmitForm, SubmitCode, Submits, Steps
    <3>2. QED
      BY <3>1
  <2>2. ASSUME NEW k \in {"page", "recheck", "refresh"}, AppAsks(k)
        PROVE  calls' = (calls \ {}) \cup {Call(k, "none", cookie)}
    BY <2>2 DEF AppAsks
  <2>3. QED
    BY <2>1, <2>2
<1>3. calls' \subseteq Calls /\ CurrentIsFresh'
  <2>1. calls \subseteq Calls /\ CurrentIsFresh /\ cookie \in 0 .. MaxSessions
    BY DEF GateInv, ClientTyped
  <2>2. QED
    BY <1>2, <2>1, AskedKeeps
<1>4. QED
  BY <1>1, <1>3, ClosingKeeps DEF GateInv, ClientTyped

LEMMA CodesSavedKeeps ==
  ASSUME GateInv, CodesSaved
  PROVE  ConsoleStep
<1>1. UNCHANGED <<owner, stage, cookie, gate, me, who, noAuth, trouble>> /\ asked' \in Nat
  BY DEF CodesSaved, serverSide, GateInv, ClientTyped
<1>2. NewGeneration(calls) \subseteq Calls
      /\ \A d \in NewGeneration(calls) : d.kind = "finish" => ~d.current
  BY GenerationTyped DEF GateInv
<1>3. Call("finish", "none", cookie') \in Calls /\ Call("finish", "none", cookie').fresh
  BY <1>1, CallTyped DEF GateInv, ClientTyped
<1>4. calls' = NewGeneration(calls) \cup {Call("finish", "none", cookie')}
  BY DEF CodesSaved, finish
<1>5. calls' \subseteq Calls /\ CurrentIsFresh'
  BY <1>2, <1>3, <1>4 DEF CurrentIsFresh
<1>6. QED
  BY <1>1, <1>5, ClosingKeeps DEF GateInv, ClientTyped

-----------------------------------------------------------------------------
(* All steps.                                                              *)

\* A step of the server changes nothing the console shows.
LEMMA ServerKeeps ==
  ASSUME GateInv, (\E c \in calls : ServerSteps(c)) \/ \E s \in Sessions : SessionEnds(s)
  PROVE  GateInv' /\ gate' = gate
<1>1. ASSUME NEW c \in calls, ServerSteps(c) PROVE GateInv' /\ gate' = gate
  <2>1. AnswerGiven(c) /\ ServerTyped' /\ ClientUnchanged
    BY <1>1, ServerGivesAnswers DEF GateInv
  <2>2. calls' \subseteq Calls /\ CurrentIsFresh'
    BY <2>1, AnsweredKeeps DEF GateInv
  <2>3. QED
    BY <2>1, <2>2 DEF GateInv, ClientUnchanged, ClientTyped, ShellNeedsSignIn
<1>2. ASSUME NEW s \in Sessions, SessionEnds(s) PROVE GateInv' /\ gate' = gate
  <2>1. trouble' \in Nat
    BY <1>2 DEF SessionEnds, GateInv, ServerTyped
  <2>2. ServerTyped'
    BY <1>2, <2>1, SessionEndsTyped DEF SessionEnds, GateInv
  <2>3. QED
    BY <1>2, <2>2
       DEF SessionEnds, GateInv, ClientUnchanged, ClientTyped, ShellNeedsSignIn, CurrentIsFresh
<1>3. QED
  BY <1>1, <1>2

\* A step of the gate keeps the invariant, and opens it only by a fresh finish().
LEMMA GateStep ==
  ASSUME GateInv, [GateNext]_gateVars
  PROVE  GateInv' /\ OpensByFresh
<1>1. CASE UNCHANGED gateVars
  BY <1>1 DEF gateVars, GateInv, ServerTyped, StageHasOwner, ClientTyped, ShellNeedsSignIn,
              CurrentIsFresh, OpensByFresh
<1>2. CASE (\E c \in calls : ServerSteps(c)) \/ \E s \in Sessions : SessionEnds(s)
  BY <1>2, ServerKeeps DEF OpensByFresh
<1>3. CASE ConsoleStep
  <2>1. ServerTyped'
    BY <1>3 DEF ConsoleStep, GateInv, ServerTyped, StageHasOwner
  <2>2. QED
    BY <1>3, <2>1 DEF ConsoleStep, GateInv
<1>4. ASSUME NEW c \in calls, Taken(c) PROVE ConsoleStep
  BY <1>4, FinishKeeps, RefreshKeeps, PageKeeps, RecheckKeeps, StepKeeps, LogoutTakenKeeps DEF Taken
<1>5. QED
  BY <1>1, <1>2, <1>3, <1>4, LogoutKeeps, AsksKeep, CodesSavedKeeps DEF GateNext

LEMMA GateInvInit ==
  GateInit => GateInv
<1> SUFFICES ASSUME GateInit PROVE GateInv
  OBVIOUS
<1>1. ServerTyped
  BY DEF GateInit, ServerTyped, StageHasOwner, Stages
<1>2. 0 \in 0 .. MaxSessions /\ NoMe \in Mes
  BY GateAssumption DEF Mes
<1>3. ClientTyped /\ ShellNeedsSignIn
  BY <1>2 DEF GateInit, ClientTyped, ShellNeedsSignIn
<1>4. calls \subseteq Calls /\ CurrentIsFresh
  BY <1>2, CallTyped DEF GateInit, CurrentIsFresh
<1>5. QED
  BY <1>1, <1>3, <1>4 DEF GateInv

LEMMA GateInvariant == GateSpec => []GateInv
<1>1. GateInv /\ [GateNext]_gateVars => GateInv'
  BY GateStep
<1>2. QED
  BY <1>1, GateInvInit, PTL DEF GateSpec

\* Every variable of the gate keeps its kind of value, in particular the user of
\* every answer is one that has a session.
THEOREM GateTypeCorrect == GateSpec => []GateTypeOK
<1>1. GateInv => GateTypeOK
  BY DEF GateInv, ServerTyped, ClientTyped, GateTypeOK
<1>2. QED
  BY <1>1, GateInvariant, PTL

\* The pages of the console are shown only while the last answer AuthProvider
\* took of /api/auth/me said "active", whatever order the answers came in.
THEOREM ShellIsBehindSignIn == GateSpec => []ShellNeedsSignIn
<1>1. GateInv => ShellNeedsSignIn
  BY DEF GateInv
<1>2. QED
  BY <1>1, GateInvariant, PTL

\* A finish() from before a sign-out or a 401 never opens the gate: the counter
\* gen of auth-context.tsx makes it void.
THEOREM ClosedGateStaysClosed == GateSpec => ClosedStaysClosed
<1>1. GateInv /\ [GateNext]_gateVars
        => [gate # "active" /\ gate' = "active"
              => \E c \in calls \ calls' : c.kind = "finish" /\ c.fresh]_gateVars
  BY GateStep DEF OpensByFresh
<1>2. QED
  BY <1>1, GateInvariant, PTL DEF GateSpec, ClosedStaysClosed

-----------------------------------------------------------------------------
(* The accounts. *)

Roles == {"admin", "viewer"}
Sendings == [by : AccountIds, do : Commands, of : AccountIds, role : Roles,
             live : BOOLEAN, at : {"sent", "done", "refused"}]

\* What a page has in hand, or has sent, is a request of the API.
FormsTyped ==
  /\ commands \subseteq Sendings
  /\ accountDialog = Nothing \/ accountDialog \in [do : Commands, of : AccountIds]
  /\ adding = Nothing \/ adding \in [role : Roles, busy : BOOLEAN]

AccountsTyped == accounts \in [AccountIds -> AccountViews]

AccountsInv == FormsTyped /\ AccountsTyped /\ SomeAdminStays

-----------------------------------------------------------------------------
(* What one patch of one account does.                                     *)

\* A patched account is an account.
LEMMA PatchedTyped ==
  ASSUME NEW u \in AccountViews, NEW what \in Commands
  PROVE  Patched(u, what) \in AccountViews
<1>1. CASE what \in {"admin", "viewer"}
  BY <1>1 DEF Patched, AccountViews
<1>2. CASE what \in {"disable", "enable"}
  <2>1. Patched(u, what) = [u EXCEPT !.disabled = (what = "disable")]
    BY <1>2 DEF Patched
  <2>2. (what = "disable") \in BOOLEAN
    OBVIOUS
  <2>3. QED
    BY <2>1, <2>2 DEF AccountViews
<1>3. CASE what \notin {"admin", "viewer", "disable", "enable"}
  BY <1>3 DEF Patched
<1>4. QED
  BY <1>1, <1>2, <1>3

\* The commands that are no patch leave an account as it was.
LEMMA OnlyPatchesPatch ==
  ASSUME NEW u, NEW what, what \notin Patches
  PROVE  Patched(u, what) = u
BY DEF Patched, Patches

\* Replacing id touches nobody else: whoever
\* else was an active administrator still is one when id is replaced.
LEMMA OthersStayAdmins ==
  ASSUME NEW us \in [AccountIds -> AccountViews], NEW id \in AccountIds, NEW u
  PROVE  adminsOf(us) \ {id} \subseteq adminsOf([us EXCEPT ![id] = u])
BY DEF adminsOf

\* Replacing id by an active administrator leaves at least that one.
LEMMA NewAdminCounts ==
  ASSUME NEW us \in [AccountIds -> AccountViews], NEW id \in AccountIds, NEW u,
         ActiveAdmin(u)
  PROVE  id \in adminsOf([us EXCEPT ![id] = u])
BY DEF adminsOf

\* What RefusesPatch lets through leaves an active administrator.
LEMMA UnrefusedLeavesAdmin ==
  ASSUME AccountsTyped, SomeAdminStays,
         NEW by, NEW id \in AccountIds, NEW what \in Commands,
         what \in Patches => ~RefusesPatch(by, id, what)
  PROVE  adminsOf([accounts EXCEPT ![id] = Patched(accounts[id], what)]) # {}
<1> DEFINE is == Patched(accounts[id], what)
<1>1. adminsOf(accounts) \ {id} \subseteq adminsOf([accounts EXCEPT ![id] = is])
  BY OthersStayAdmins DEF AccountsTyped
<1>2. CASE ActiveAdmin(is)
  BY <1>2, NewAdminCounts DEF AccountsTyped
<1>3. CASE ~ActiveAdmin(is) /\ adminsOf(accounts) \ {id} # {}
  BY <1>1, <1>3
<1>4. CASE ~ActiveAdmin(is) /\ adminsOf(accounts) \ {id} = {}
  <2>1. adminsOf(accounts) = {id}
    BY <1>4 DEF SomeAdminStays
  <2>2. ActiveAdmin(accounts[id])
    BY <2>1 DEF adminsOf
  <2>3. what \in Patches
    BY <2>2, <1>4, OnlyPatchesPatch
  <2>4. RefusesPatch(by, id, what)
    BY <1>4, <2>2 DEF RefusesPatch
  <2>5. QED
    BY <2>3, <2>4
<1>5. QED
  BY <1>2, <1>3, <1>4

\* A new account takes no administrator away.
LEMMA CreatedLeavesAdmin ==
  ASSUME AccountsTyped, SomeAdminStays,
         NEW id \in AccountIds, ~accounts[id].exists, NEW u
  PROVE  adminsOf([accounts EXCEPT ![id] = u]) # {}
<1>1. id \notin adminsOf(accounts)
  BY DEF adminsOf, ActiveAdmin
<1>2. adminsOf(accounts) \ {id} \subseteq adminsOf([accounts EXCEPT ![id] = u])
  BY OthersStayAdmins DEF AccountsTyped
<1>3. PICK other \in adminsOf(accounts) : TRUE
  BY DEF SomeAdminStays
<1>4. QED
  BY <1>1, <1>2, <1>3

-----------------------------------------------------------------------------
(* The steps.                                                              *)

LEMMA AccountsInvInit ==
  AccountsInit => AccountsInv
<1> SUFFICES ASSUME AccountsInit PROVE AccountsInv
  OBVIOUS
<1>1. FormsTyped
  BY DEF AccountsInit, FormsTyped
<1>2. AccountsTyped
  <2>1. \A id \in AccountIds : accounts[id] \in AccountViews
    <3> SUFFICES ASSUME NEW id \in AccountIds PROVE accounts[id] \in AccountViews
      OBVIOUS
    <3>1. (id = Me \/ id \in Others) \in BOOLEAN
      OBVIOUS
    <3>2. QED
      BY <3>1 DEF AccountsInit, AccountViews
  <2>2. QED
    BY <2>1 DEF AccountsInit, AccountsTyped
<1>3. Me \in adminsOf(accounts)
  BY AccountsAssumption DEF AccountsInit, adminsOf, ActiveAdmin
<1>4. QED
  BY <1>1, <1>2, <1>3 DEF AccountsInv, SomeAdminStays

\* What the buttons of a row offer are commands of the API.
LEMMA ActionsAreCommands ==
  ASSUME NEW us, NEW id, NEW self
  PROVE  actionsOf(us, id, self) \subseteq Commands
BY DEF actionsOf, Commands, Patches

\* Carrying out a request: the one step of the server.
LEMMA CarriedOutKeeps ==
  ASSUME AccountsInv, NEW c \in commands, CommandCarriedOut(c)
  PROVE  AccountsInv'
<1>1. c \in Sendings
  BY DEF AccountsInv, FormsTyped
<1>2. c.do \in Commands /\ c.of \in AccountIds /\ c.role \in Roles
  BY <1>1 DEF Sendings
<1>3. [c EXCEPT !.at = "done"] \in Sendings /\ [c EXCEPT !.at = "refused"] \in Sendings
  BY <1>1 DEF Sendings
<1>4. FormsTyped'
  BY <1>3 DEF CommandCarriedOut, AccountsInv, FormsTyped
<1>5. CASE UNCHANGED accounts
  BY <1>4, <1>5 DEF AccountsInv, AccountsTyped, SomeAdminStays, adminsOf
<1>6. CASE /\ c.do = "create" /\ ~accounts[c.of].exists
           /\ accounts' = [accounts EXCEPT ![c.of] =
                             [role |-> c.role, disabled |-> FALSE, exists |-> TRUE]]
  <2>1. [role |-> c.role, disabled |-> FALSE, exists |-> TRUE] \in AccountViews
    BY <1>2 DEF AccountViews, Roles
  <2>2. AccountsTyped'
    BY <1>6, <2>1 DEF AccountsInv, AccountsTyped
  <2>3. adminsOf(accounts') # {}
    BY <1>2, <1>6, CreatedLeavesAdmin DEF AccountsInv
  <2>4. QED
    BY <1>4, <2>2, <2>3 DEF AccountsInv, SomeAdminStays, adminsOf
<1>7. CASE /\ c.do # "create"
           /\ c.do \in Patches => ~RefusesPatch(c.by, c.of, c.do)
           /\ accounts' = [accounts EXCEPT ![c.of] = Patched(accounts[c.of], c.do)]
  <2>1. AccountsTyped'
    BY <1>2, <1>7, PatchedTyped DEF AccountsInv, AccountsTyped
  <2>2. adminsOf(accounts') # {}
    BY <1>2, <1>7, UnrefusedLeavesAdmin DEF AccountsInv
  <2>3. QED
    BY <1>4, <2>1, <2>2 DEF AccountsInv, SomeAdminStays, adminsOf
<1>8. QED
  BY <1>2, <1>5, <1>6, <1>7 DEF CommandCarriedOut

\* Every other step leaves the accounts alone and keeps what is sent well formed.
LEMMA PageStepsKeepForms ==
  ASSUME FormsTyped, AccountsNext,
         \A c \in commands : ~CommandCarriedOut(c)
  PROVE  FormsTyped' /\ UNCHANGED accounts
<1> USE DEF FormsTyped
<1>1. ASSUME NEW t \in SettingsTabs, SelectTab(t) PROVE FormsTyped' /\ UNCHANGED accounts
  <2>1. \A c \in commands : [c EXCEPT !.live = FALSE] \in Sendings
    BY DEF Sendings
  <2>2. QED
    BY <1>1, <2>1 DEF SelectTab
<1>2. ASSUME NEW c \in commands, CommandTaken(c) PROVE FormsTyped' /\ UNCHANGED accounts
  <2>1. adding' = Nothing \/ adding' = adding \/ adding' = [adding EXCEPT !.busy = FALSE]
    BY <1>2 DEF CommandTaken
  <2>2. adding' = [adding EXCEPT !.busy = FALSE] /\ adding # Nothing
          => adding' \in [role : Roles, busy : BOOLEAN]
    OBVIOUS
  <2>3. adding = Nothing => adding' = adding
    BY <1>2 DEF CommandTaken
  <2>4. QED
    BY <1>2, <2>1, <2>2, <2>3 DEF CommandTaken
<1>3. ASSUME NEW c \in users.calls, UsersReplied(c) \/ UsersTaken(c)
      PROVE  FormsTyped' /\ UNCHANGED accounts
  BY <1>3 DEF UsersReplied, UsersTaken
<1>4. ASSUME NEW by \in Others, NEW id \in AccountIds, OtherCommands(by, id)
      PROVE  FormsTyped' /\ UNCHANGED accounts
  <2>1. by \in AccountIds
    BY AccountsAssumption
  <2>2. \A do \in {"viewer", "disable"} :
          [by |-> by, do |-> do, of |-> id, role |-> "viewer", live |-> FALSE,
           at |-> "sent"] \in Sendings
    BY <2>1 DEF Sendings, Commands, Patches, Roles
  <2>3. QED
    BY <1>4, <2>2 DEF OtherCommands
<1>5. ASSUME NEW id \in AccountIds, AskCommand(id) PROVE FormsTyped' /\ UNCHANGED accounts
  <2>1. PICK do \in actionsOf(users.data, id, Me) : accountDialog' = [do |-> do, of |-> id]
    BY <1>5 DEF AskCommand
  <2>2. accountDialog' \in [do : Commands, of : AccountIds]
    BY <2>1, ActionsAreCommands
  <2>3. QED
    BY <1>5, <2>2 DEF AskCommand
<1>6. ASSUME NEW id \in AccountIds, AnswerAdd(id) PROVE FormsTyped' /\ UNCHANGED accounts
  <2>1. adding \in [role : Roles, busy : BOOLEAN]
    BY <1>6 DEF AnswerAdd
  <2>2. [by |-> Me, do |-> "create", of |-> id, role |-> adding.role, live |-> TRUE,
         at |-> "sent"] \in Sendings
    BY <2>1, AccountsAssumption DEF Sendings, Commands
  <2>3. [adding EXCEPT !.busy = TRUE] \in [role : Roles, busy : BOOLEAN]
    BY <2>1
  <2>4. QED
    BY <1>6, <2>2, <2>3 DEF AnswerAdd
<1>7. ASSUME AnswerDialog PROVE FormsTyped' /\ UNCHANGED accounts
  <2>1. accountDialog \in [do : Commands, of : AccountIds]
    BY <1>7 DEF AnswerDialog
  <2>2. [by |-> Me, do |-> accountDialog.do, of |-> accountDialog.of, role |-> "viewer",
         live |-> TRUE, at |-> "sent"] \in Sendings
    BY <2>1, AccountsAssumption DEF Sendings, Roles
  <2>3. QED
    BY <1>7, <2>2 DEF AnswerDialog
<1>8. ASSUME OpenAdd PROVE FormsTyped' /\ UNCHANGED accounts
  BY <1>8 DEF OpenAdd, Roles
<1>9. ASSUME CloseTemp \/ OpenRenewal \/ AnswerRenewal \/ RenewalTaken \/ TestNotify
             \/ TestNotifyFails
      PROVE  FormsTyped' /\ UNCHANGED accounts
  BY <1>9 DEF CloseTemp, OpenRenewal, AnswerRenewal, RenewalTaken, TestNotify, TestNotifyFails
<1>10. QED
  BY <1>1, <1>2, <1>3, <1>4, <1>5, <1>6, <1>7, <1>8, <1>9 DEF AccountsNext

LEMMA AccountsInvNext ==
  AccountsInv /\ [AccountsNext]_accountsVars => AccountsInv'
<1> SUFFICES ASSUME AccountsInv, [AccountsNext]_accountsVars PROVE AccountsInv'
  OBVIOUS
<1>1. CASE UNCHANGED accountsVars
  BY <1>1 DEF accountsVars, AccountsInv, FormsTyped, AccountsTyped, SomeAdminStays, adminsOf
<1>2. CASE \E c \in commands : CommandCarriedOut(c)
  BY <1>2, CarriedOutKeeps
<1>3. CASE AccountsNext /\ \A c \in commands : ~CommandCarriedOut(c)
  <2>1. FormsTyped' /\ UNCHANGED accounts
    BY <1>3, PageStepsKeepForms DEF AccountsInv
  <2>2. QED
    BY <2>1 DEF AccountsInv, AccountsTyped, SomeAdminStays, adminsOf
<1>4. QED
  BY <1>1, <1>2, <1>3

\* In every run of the settings page with any number of administrators, someone
\* is left who may administrate: UpdateUser of auth/service.go refuses the last
\* step that would take the last active one away.
THEOREM AdminAlwaysStays == AccountsSpec => []SomeAdminStays
<1>1. AccountsInv => SomeAdminStays
  BY DEF AccountsInv
<1>2. QED
  BY <1>1, AccountsInvInit, AccountsInvNext, PTL DEF AccountsSpec

-----------------------------------------------------------------------------
(***************************************************************************)
(* The demonstration page (Demo) never shows the session of one run beside *)
(* another, for any number of runs and of answers under way.  adopt        *)
(* empties the session of the run before, and an answer about an           *)
(* installation is only taken for the run on the page: it is about the one *)
(* it was asked for (AnswersMatch).  Nothing like it holds of the          *)
(* evidence, whose search outlives its run until the effect is cleaned up. *)
(***************************************************************************)

DemoShaped ==
  \E r0, session, evidence, starting :
    demo = [run |-> r0, session |-> session, evidence |-> evidence, starting |-> starting]

\* An answer about an installation is about the one it was asked for.
AnswersMatch == \A c \in sessionCalls : c.answer = Sent \/ c.answer.data.id = c.of

SessionIsOfRun(d) == d.run # Nothing /\ d.session # Nothing => d.session.id = d.run.id

DemoInv == DemoShaped /\ AnswersMatch /\ SessionIsOfRun(demo)

-----------------------------------------------------------------------------
\* Asking for a session adds a call without an answer.
LEMMA AskedMatch ==
  ASSUME NEW cs, NEW r, \A c \in cs : c.answer = Sent \/ c.answer.data.id = c.of
  PROVE  \A c \in AskSession(cs, r) : c.answer = Sent \/ c.answer.data.id = c.of
BY DEF AskSession, DemoCall

\* Whatever run is adopted, the session kept beside it is its own.
LEMMA AdoptKeeps ==
  ASSUME DemoShaped, SessionIsOfRun(demo), NEW r
  PROVE  /\ SessionIsOfRun(adopt(demo, r))
         /\ \E r0, session, evidence, starting :
              adopt(demo, r) = [run |-> r0, session |-> session, evidence |-> evidence,
                                starting |-> starting]
<1> DEFINE new == r # Nothing /\ (demo.run = Nothing \/ demo.run.id # r.id)
           d == adopt(demo, r)
<1>1. d = [run |-> r, session |-> IF new THEN Nothing ELSE demo.session,
           evidence |-> IF new THEN Nothing ELSE demo.evidence, starting |-> demo.starting]
  BY DEF adopt
<1>2. d.run = r /\ d.session = IF new THEN Nothing ELSE demo.session
  BY <1>1
<1>3. CASE new
  BY <1>1, <1>2, <1>3 DEF SessionIsOfRun
<1>4. CASE ~new
  BY <1>1, <1>2, <1>4 DEF SessionIsOfRun
<1>5. QED
  BY <1>3, <1>4

LEMMA DemoInvInit ==
  DemoInit => DemoInv
<1> SUFFICES ASSUME DemoInit PROVE DemoInv
  OBVIOUS
<1>1. demo.run = Nothing /\ DemoShaped
  BY DEF DemoInit, DemoShaped
<1>2. QED
  BY <1>1 DEF DemoInit, DemoInv, AnswersMatch, SessionIsOfRun

\* Steps that change neither the page nor what its answers are about.
LEMMA PageUnchangedKeeps ==
  ASSUME DemoInv, AnswersMatch', UNCHANGED demo
  PROVE  DemoInv'
BY DEF DemoInv, DemoShaped, SessionIsOfRun

LEMMA DemoInvNext ==
  DemoInv /\ [DemoNext]_demoVars => DemoInv'
<1> SUFFICES ASSUME DemoInv, [DemoNext]_demoVars PROVE DemoInv'
  OBVIOUS
<1>1. PICK r0, session, evidence, starting :
        demo = [run |-> r0, session |-> session, evidence |-> evidence, starting |-> starting]
  BY DEF DemoInv, DemoShaped
<1>2. ASSUME UNCHANGED <<demo, sessionCalls>> PROVE DemoInv'
  BY <1>2, PageUnchangedKeeps DEF DemoInv, AnswersMatch
<1>3. CASE UNCHANGED demoVars
  BY <1>2, <1>3 DEF demoVars, demoCalls
<1>4. ASSUME NEW r \in Runs, OtherStarts(r) \/ RunKilled(r) \/ RunEnds(r) PROVE DemoInv'
  BY <1>2, <1>4 DEF OtherStarts, RunKilled, RunEnds, demoCalls
<1>5. ASSUME NEW c \in runCalls, RunReplied(c) PROVE DemoInv'
  BY <1>2, <1>5 DEF RunReplied
<1>6. ASSUME NEW c \in runCalls, RunTaken(c) PROVE DemoInv'
  <2>1. CASE UNCHANGED <<demo, sessionCalls>>
    BY <1>2, <2>1
  <2>2. CASE /\ demo' = adopt(demo, c.answer.data)
             /\ \/ sessionCalls' = sessionCalls
                \/ sessionCalls' = AskSession(sessionCalls, c.answer.data.id)
    <3>1. AnswersMatch'
      BY <2>2, AskedMatch DEF DemoInv, AnswersMatch
    <3>2. DemoShaped' /\ SessionIsOfRun(demo')
      BY <2>2, AdoptKeeps DEF DemoInv, DemoShaped
    <3>3. QED
      BY <3>1, <3>2 DEF DemoInv, SessionIsOfRun
  <2>3. QED
    BY <1>6, <2>1, <2>2 DEF RunTaken
<1>7. ASSUME NEW c \in sessionCalls, SessionReplied(c) PROVE DemoInv'
  <2>1. DemoCall(c.of, Answer(SessionSeen(c.of))).answer.data.id
          = DemoCall(c.of, Answer(SessionSeen(c.of))).of
    BY DEF DemoCall, Answer, SessionSeen
  <2>2. \A d \in sessionCalls' : d \in sessionCalls \/ d = DemoCall(c.of, Answer(SessionSeen(c.of)))
    BY <1>7 DEF SessionReplied
  <2>3. AnswersMatch'
    BY <2>1, <2>2 DEF DemoInv, AnswersMatch
  <2>4. QED
    BY <1>7, <2>3, PageUnchangedKeeps DEF SessionReplied
<1>8. ASSUME NEW c \in sessionCalls, SessionTaken(c) PROVE DemoInv'
  <2>1. AnswersMatch' /\ c.answer.data.id = c.of
    BY <1>8 DEF SessionTaken, DemoInv, AnswersMatch
  <2>2. CASE ~TakesSession(c.of)
    BY <1>8, <2>1, <2>2, PageUnchangedKeeps DEF SessionTaken
  <2>3. CASE TakesSession(c.of)
    <3>1. demo' = [run |-> r0, session |-> c.answer.data, evidence |-> evidence,
                   starting |-> starting]
      BY <1>1, <1>8, <2>3 DEF SessionTaken
    <3>2. r0.id = c.of
      BY <1>1, <2>3 DEF TakesSession
    <3>3. DemoShaped' /\ SessionIsOfRun(demo')
      BY <2>1, <3>1, <3>2 DEF DemoShaped, SessionIsOfRun
    <3>4. QED
      BY <2>1, <3>3 DEF DemoInv, SessionIsOfRun
  <2>4. QED
    BY <2>2, <2>3
<1>9. CASE PollRun \/ DemoStartReplied \/ AskEvidence \/ EvidenceReplied \/ EvidenceDropped
  BY <1>2, <1>9 DEF PollRun, DemoStartReplied, AskEvidence, EvidenceReplied, EvidenceDropped
<1>10. CASE VerdictHeard
  <2>1. AnswersMatch'
    BY <1>10, AskedMatch DEF VerdictHeard, DemoInv, AnswersMatch
  <2>2. QED
    BY <1>10, <2>1, PageUnchangedKeeps DEF VerdictHeard
<1>11. CASE EvidenceTaken \/ StartDemo
  <2>1. AnswersMatch'
    BY <1>11 DEF EvidenceTaken, StartDemo, DemoInv, AnswersMatch
  <2>2. PICK e, st : demo' = [run |-> r0, session |-> session, evidence |-> e, starting |-> st]
    BY <1>1, <1>11 DEF EvidenceTaken, StartDemo
  <2>3. DemoShaped' /\ demo'.run = demo.run /\ demo'.session = demo.session
    BY <1>1, <2>2 DEF DemoShaped
  <2>4. QED
    BY <2>1, <2>3 DEF DemoInv, SessionIsOfRun
<1>12. CASE DemoStartTaken
  <2>1. PICK d : /\ d = demo \/ d = adopt(demo, demoStart.data)
                 /\ demo' = [d EXCEPT !.starting = FALSE]
    BY <1>12 DEF DemoStartTaken
  <2>2. /\ SessionIsOfRun(d)
        /\ \E r, s, e, st : d = [run |-> r, session |-> s, evidence |-> e, starting |-> st]
    BY <2>1, AdoptKeeps DEF DemoInv, DemoShaped
  <2>3. PICK r, s, e, st : d = [run |-> r, session |-> s, evidence |-> e, starting |-> st]
    BY <2>2
  <2>4. demo' = [run |-> r, session |-> s, evidence |-> e, starting |-> FALSE]
    BY <2>1, <2>3
  <2>5. DemoShaped' /\ demo'.run = d.run /\ demo'.session = d.session
    BY <2>3, <2>4 DEF DemoShaped
  <2>6. AnswersMatch'
    BY <1>12, AskedMatch DEF DemoStartTaken, DemoInv, AnswersMatch
  <2>7. QED
    BY <2>2, <2>5, <2>6 DEF DemoInv, SessionIsOfRun
<1>13. QED
  BY <1>3, <1>4, <1>5, <1>6, <1>7, <1>8, <1>9, <1>10, <1>11, <1>12 DEF DemoNext

\* The session the demonstration page shows is that of the run it shows, in
\* whatever order the status and the sessions are answered and although others
\* may start runs (adopt and loadSession of useDemo.ts).
THEOREM DemoAlwaysShowsOneRun == DemoSpec => []DemoShowsOneRun
<1>1. DemoInv => DemoShowsOneRun
  BY DEF DemoInv, SessionIsOfRun, DemoShowsOneRun
<1>2. QED
  BY <1>1, DemoInvInit, DemoInvNext, PTL DEF DemoSpec

-----------------------------------------------------------------------------
(***************************************************************************)
(* What the console tells of new cases, for any number of cases, pushes    *)
(* and page loads: the bell does not call a case read that was in no list  *)
(* marked as read, and the assistant announces no case twice.              *)
(*                                                                         *)
(* Both rest on a set that only grows while the list of cases does not:    *)
(* an answer that is older than a push takes the pushed case from the      *)
(* list, but not from what was read or is known.                           *)
(***************************************************************************)

\* What the bell keeps as read was read.
MarkIsOfRead == readPending # Nothing => readPending \subseteq everRead

\* The bell moves by MarkRead only.
LEMMA BellStays == CasesNext => MarkRead \/ UNCHANGED bellVars
BY DEF CasesNext, CaseChanges, CaseServerAnswers, CaseServerFails, FeedOpens, FeedBreaks,
       CasesAsked, CasesTaken, PushTaken, PageReload, BoxOpens, BoxCloses, AskDecision, CancelDecision,
       ServerDecides, ConfirmDecision, DecideTaken, bellVars

\* The bell's notice of the pending cases counts as read only when each of them
\* was in a list that was marked as read, whatever the list has been since and
\* whatever localStorage kept over page loads (NoticeCenter.tsx).
THEOREM OldMarksHideNothing == CasesSpec => []PendingIsNoticed
<1>1. CasesInit => MarkIsOfRead
  BY DEF CasesInit, MarkIsOfRead
<1>2. MarkIsOfRead /\ [CasesNext]_casesVars => MarkIsOfRead'
  <2> SUFFICES ASSUME MarkIsOfRead, [CasesNext]_casesVars PROVE MarkIsOfRead'
    OBVIOUS
  <2>1. CASE MarkRead
    BY <2>1 DEF MarkRead, MarkIsOfRead
  <2>2. CASE UNCHANGED bellVars
    BY <2>2 DEF bellVars, MarkIsOfRead
  <2>3. QED
    BY <2>1, <2>2, BellStays DEF casesVars, bellVars
<1>3. MarkIsOfRead => PendingIsNoticed
  <2> SUFFICES ASSUME MarkIsOfRead, bellDraws = "read" PROVE openShown \subseteq everRead
    BY DEF PendingIsNoticed
  <2>1. readPending = openShown
    BY DEF bellDraws
  <2>2. openShown # Nothing
    BY CasesAssumption DEF openShown
  <2>3. QED
    BY <2>1, <2>2 DEF MarkIsOfRead
<1>4. QED
  BY <1>1, <1>2, <1>3, PTL DEF CasesSpec

-----------------------------------------------------------------------------
Messages == [case : CaseIds, state : CaseStates]

\* What was announced is known, and the first list was known before that.
NewsInv ==
  /\ IF knownCases = Nothing THEN seeds = Nothing /\ announced = <<>>
     ELSE /\ seeds \subseteq knownCases /\ ToSet(announced) \subseteq knownCases
          /\ ToSet(announced) \cap seeds = {}
  /\ knownCases \in (SUBSET CaseIds) \cup {Nothing}
  /\ seeds \in (SUBSET CaseIds) \cup {Nothing}
  /\ knownCases # Nothing => seeds # Nothing

GuideInv ==
  /\ pushed \in Seq(Messages)
  /\ announced \in Seq(CaseIds) /\ IsInjective(announced)
  /\ NewsInv

\* One more case in a sequence of cases that does not hold it.
LEMMA AppendNew ==
  ASSUME NEW s \in Seq(CaseIds), NEW c \in CaseIds, IsInjective(s), c \notin ToSet(s)
  PROVE  /\ Append(s, c) \in Seq(CaseIds) /\ IsInjective(Append(s, c))
         /\ ToSet(Append(s, c)) = ToSet(s) \cup {c}
<1> DEFINE t == Append(s, c)
<1>1. /\ t \in Seq(CaseIds) /\ DOMAIN t = 1 .. Len(s) + 1 /\ DOMAIN s = 1 .. Len(s)
      /\ Len(s) \in Nat /\ \A i \in 1 .. Len(s) : t[i] = s[i]
      /\ t[Len(s) + 1] = c
  BY AppendProperties
<1> HIDE DEF t
<1>2. \A i \in DOMAIN s : t[i] = s[i] /\ s[i] # c
  BY <1>1 DEF ToSet
<1>3. IsInjective(t)
  <2> SUFFICES ASSUME NEW i \in DOMAIN t, NEW j \in DOMAIN t, t[i] = t[j] PROVE i = j
    BY DEF IsInjective
  <2>1. CASE i \in DOMAIN s /\ j \in DOMAIN s
    BY <2>1, <1>2 DEF IsInjective
  <2>2. CASE i = Len(s) + 1 \/ j = Len(s) + 1
    BY <2>2, <1>1, <1>2
  <2>3. QED
    BY <1>1, <2>1, <2>2
<1>4. ToSet(t) = ToSet(s) \cup {c}
  BY <1>1, <1>2 DEF ToSet
<1>5. QED
  BY <1>1, <1>3, <1>4 DEF t

LEMMA GuideInvInit == CasesInit /\ GuideInit => GuideInv
<1> SUFFICES ASSUME CasesInit, GuideInit PROVE GuideInv
  OBVIOUS
<1>1. pushed = <<>> /\ announced = <<>> /\ knownCases = Nothing /\ seeds = Nothing
  BY DEF CasesInit, GuideInit
<1>2. IsInjective(announced)
  BY <1>1 DEF IsInjective
<1>3. QED
  BY <1>1, <1>2 DEF GuideInv, NewsInv

\* A step that leaves what is known and announced alone.
LEMMA NewsStay ==
  ASSUME GuideInv, UNCHANGED noticed, pushed' \in Seq(Messages)
  PROVE  GuideInv'
BY DEF GuideInv, NewsInv, noticed

\* The list of cases moves on.
LEMMA CasesMoveKeeps == GuideInv /\ CasesMove => GuideInv'
<1> SUFFICES ASSUME GuideInv, CasesMove PROVE GuideInv'
  OBVIOUS
<1>1. pushed \in Seq(Messages) /\ UNCHANGED noticed
  BY DEF GuideInv, CasesMove
<1>2. ASSUME NEW c \in CaseIds, NEW st \in CaseStates, CaseChanges(c, st)
      PROVE  pushed' \in Seq(Messages)
  <2>1. [case |-> c, state |-> st] \in Messages
    BY DEF Messages
  <2>2. Append(pushed, [case |-> c, state |-> st]) \in Seq(Messages)
    BY <1>1, <2>1, AppendProperties
  <2>3. QED
    BY <1>1, <1>2, <2>2 DEF CaseChanges, Push
<1>3. ASSUME CaseServerAnswers \/ FeedOpens \/ CasesAsked \/ CasesTaken PROVE pushed' \in Seq(Messages)
  BY <1>1, <1>3 DEF CaseServerAnswers, FeedOpens, CasesAsked, CasesTaken, feedVars
<1>4. ASSUME FeedBreaks PROVE pushed' \in Seq(Messages)
  BY <1>4 DEF FeedBreaks
<1>5. pushed' \in Seq(Messages)
  BY <1>1, <1>2, <1>3, <1>4 DEF CasesMove
<1>6. QED
  BY <1>1, <1>5, NewsStay

\* The effect of a list makes known only what is in it; the first one has
\* nothing announced before it.
LEMMA LearnKeeps == GuideInv /\ Learn => GuideInv'
<1> SUFFICES ASSUME GuideInv, Learn PROVE GuideInv'
  OBVIOUS
<1>1. inList \in SUBSET CaseIds /\ Nothing \notin SUBSET CaseIds
  BY CasesAssumption DEF inList
<1>2. UNCHANGED <<pushed, announced>>
  BY DEF Learn, casesVars, feedVars
<1>3. CASE knownCases = Nothing
  <2>1. seeds = Nothing /\ announced = <<>>
    BY <1>3 DEF GuideInv, NewsInv
  <2>2. knownCases' = inList /\ seeds' = inList
    BY <1>3, <2>1 DEF Learn
  <2>3. ToSet(announced') = {}
    BY <1>2, <2>1 DEF ToSet
  <2>4. NewsInv'
    BY <1>1, <2>2, <2>3 DEF NewsInv
  <2>5. QED
    BY <1>2, <2>4 DEF GuideInv
<1>4. CASE knownCases # Nothing
  <2>1. knownCases' = knownCases \cup inList /\ seeds' = seeds
    BY <1>4 DEF Learn, GuideInv, NewsInv
  <2>2. knownCases' \in SUBSET CaseIds
    BY <1>1, <1>4, <2>1 DEF GuideInv, NewsInv
  <2>3. NewsInv'
    BY <1>1, <1>2, <1>4, <2>1, <2>2 DEF GuideInv, NewsInv
  <2>4. QED
    BY <1>2, <2>3 DEF GuideInv
<1>5. QED
  BY <1>3, <1>4

\* A pushed case is announced only while it is not known.
LEMMA CasePushedKeeps == GuideInv /\ CasePushed => GuideInv'
<1> SUFFICES ASSUME GuideInv, CasePushed PROVE GuideInv'
  OBVIOUS
<1> DEFINE c == Head(pushed).case
           news == knownCases # Nothing /\ c \notin knownCases
<1>1. pushed \in Seq(Messages) /\ pushed # <<>> /\ pushed' = Tail(pushed)
  BY DEF GuideInv, CasePushed, PushTaken
<1>2. Head(pushed) \in Messages /\ pushed' \in Seq(Messages)
  BY <1>1, HeadTailProperties
<1>3. c \in CaseIds
  BY <1>2 DEF Messages
<1>4. /\ knownCases' = IF news THEN knownCases \cup {c} ELSE knownCases
      /\ announced' = announced \/ (news /\ announced' = Append(announced, c))
      /\ seeds' = seeds
  BY DEF CasePushed, Announce
<1> HIDE DEF c
<1>5. CASE ~news
  BY <1>2, <1>4, <1>5, NewsStay DEF noticed
<1>6. CASE news
  <2>1. knownCases \in SUBSET CaseIds /\ c \notin ToSet(announced) /\ c \notin seeds
    BY <1>6 DEF GuideInv, NewsInv
  <2>2. knownCases' = knownCases \cup {c} /\ knownCases' \in SUBSET CaseIds
    BY <1>3, <1>4, <1>6, <2>1
  <2>3. /\ announced' \in Seq(CaseIds) /\ IsInjective(announced')
        /\ ToSet(announced') \subseteq ToSet(announced) \cup {c}
    BY <1>3, <1>4, <2>1, AppendNew DEF GuideInv
  <2>4. NewsInv'
    BY <1>4, <1>6, <2>1, <2>2, <2>3, CasesAssumption DEF GuideInv, NewsInv
  <2>5. QED
    BY <1>2, <2>3, <2>4 DEF GuideInv
<1>7. QED
  BY <1>5, <1>6

\* What the user does.
LEMMA UserKeepsNews ==
  ASSUME GuideInv, UNCHANGED <<casesVars, noticed>>
  PROVE  GuideInv'
BY NewsStay DEF GuideInv, casesVars, feedVars

LEMMA GuideInvNext == GuideInv /\ [GuideNext]_<<casesVars, guideVars>> => GuideInv'
<1> SUFFICES ASSUME GuideInv, [GuideNext]_<<casesVars, guideVars>> PROVE GuideInv'
  OBVIOUS
<1>1. CASE UNCHANGED <<casesVars, guideVars>>
  BY <1>1, UserKeepsNews DEF guideVars
<1>2. CASE CasesMove
  BY <1>2, CasesMoveKeeps
<1>3. CASE Learn
  BY <1>3, LearnKeeps
<1>4. CASE CasePushed
  BY <1>4, CasePushedKeeps
<1>5. CASE GuideReload
  <2>1. pushed' = <<>> /\ announced' = <<>> /\ knownCases' = Nothing /\ seeds' = Nothing
    BY <1>5 DEF GuideReload, PageReload
  <2>2. IsInjective(announced')
    BY <2>1 DEF IsInjective
  <2>3. QED
    BY <2>1, <2>2 DEF GuideInv, NewsInv
<1>6. ASSUME NEW p \in GuidePages, Navigate(p) PROVE GuideInv'
  BY <1>6, UserKeepsNews DEF Navigate
<1>7. CASE TogglePanel \/ SetupSwitch \/ SetupRead
  BY <1>7, UserKeepsNews DEF TogglePanel, SetupSwitch, SetupRead
<1>8. ASSUME NEW t \in {"guide", "chat"}, ChooseTab(t) PROVE GuideInv'
  BY <1>8, UserKeepsNews DEF ChooseTab
<1>9. ASSUME NEW c \in CaseIds, ToastOpens(c) \/ ToastGone(c) \/ SelectCase(c) \/ ChainLink(c)
      PROVE  GuideInv'
  BY <1>9, UserKeepsNews DEF ToastOpens, ToastGone, SelectCase, ChainLink
<1>10. ASSUME NEW c \in CaseIds, NEW g \in followFor(c), TickFollow(c, g) PROVE GuideInv'
  BY <1>10, UserKeepsNews DEF TickFollow
<1>11. QED
  BY <1>1, <1>2, <1>3, <1>4, <1>5, <1>6, <1>7, <1>8, <1>9, <1>10 DEF GuideNext

\* Between two page loads the assistant announces no case twice and none of the
\* first list, however pushes, answers and their effects are interleaved
\* (Assistant.tsx:99-124).
THEOREM NoCaseIsToldTwice == GuideSpec => []GuideTellsOnce
<1>1. GuideInv => GuideTellsOnce
  BY DEF GuideInv, NewsInv, GuideTellsOnce
<1>2. QED
  BY <1>1, GuideInvInit, GuideInvNext, PTL DEF GuideSpec

-----------------------------------------------------------------------------
(***************************************************************************)
(* The pages of policies and of the audit log show what they should, for   *)
(* requests under way that overtake each other.                            *)
(*                                                                         *)
(* All three rest on the same idea: an answer may be old, but only the     *)
(* call of the last request counts, and that one was sent after whatever   *)
(* it has to show.  What remains to be said of each page is what a later   *)
(* answer of the server cannot take back (IsDecided and IsFree of the      *)
(* policies), or which request the call that counts was made for (the      *)
(* audit log, the preview of the editor).                                  *)
(***************************************************************************)

PolicyStates == {"none", "draft", "applied", "discarded"}
Views == [proposals : [Proposals -> PolicyStates], blocked : SUBSET Proposals]
Acts == [do : {"applied", "discarded", "unblock"}, of : Proposals, mine : BOOLEAN,
         at : {"sent", "done", "failed"}]

Details == [shown : BOOLEAN, auto : BOOLEAN, ask : {"applied", "discarded", Nothing},
            request : {Idle, Sent}]

PoliciesTyped ==
  /\ proposalState \in [Proposals -> PolicyStates] /\ blocked \subseteq Proposals
  /\ lists \in Loads(Views) /\ \A c \in lists.calls : c.request # Idle
  /\ picked \in Proposals \cup {"yaml", Nothing}
  /\ acts \subseteq Acts
  /\ detail \in Details /\ (detail.ask # Nothing => picked \in Proposals)

\* What the server never takes back: a proposal is no draft any more, and a
\* value that was unblocked behind it stays unblocked.
IsDecided(p) == p \in Proposals /\ proposalState[p] # "draft"
IsFree(p) == IsDecided(p) /\ p \notin blocked

\* Whatever is blocked, or was seen to be, was decided before.
SeenIsDecided ==
  /\ \A p \in blocked : IsDecided(p)
  /\ lists.data # Nothing => \A p \in lists.data.blocked : IsDecided(p)
  /\ \A c \in lists.calls : c.request.at = "answered" =>
       \A p \in c.request.data.blocked : IsDecided(p)

\* What an act does is done once it is confirmed.
ActsHold ==
  /\ \A a \in acts : a.do = "unblock" \/ a.at = "done" => IsDecided(a.of)
  /\ \A a \in acts : a.do = "unblock" /\ a.at = "done" => IsFree(a.of)
  /\ \A p \in told : IsDecided(p)
  /\ \A p \in freed : IsFree(p)

\* A view that holds nothing back of what the page was told.
HoldsTold(d) == (\A p \in told : d.proposals[p] # "draft") /\ freed \cap d.blocked = {}

CallsAreCurrent ==
  \A c \in lists.calls : c.live /\ c.request.at = "answered" => HoldsTold(c.request.data)

DataIsCurrent == Loading(lists) \/ lists.failed \/ lists.data = Nothing \/ HoldsTold(lists.data)

PoliciesInv ==
  PoliciesTyped /\ SeenIsDecided /\ ActsHold /\ CallsAreCurrent /\ DataIsCurrent

-----------------------------------------------------------------------------
(* The load of the lists (useLoad).                                        *)

LEMMA CallsTyped ==
  ASSUME NEW l \in Loads(Views), NEW c \in l.calls
  PROVE  /\ c \in [request : Requests(Views), live : BOOLEAN]
         /\ c.request.at = "answered" => c.request.data \in Views
<1>1. c \in [request : Requests(Views), live : BOOLEAN]
  BY DEF Loads
<1>2. c.request \in Requests(Views)
  BY <1>1
<1>3. c.request.at = "answered" => c.request.data \in Views
  BY <1>2 DEF Requests, Idle, Sent, Failed
<1>4. QED
  BY <1>1, <1>3

LEMMA LoadShape ==
  ASSUME NEW l \in Loads(Views)
  PROVE  l = [data |-> l.data, failed |-> l.failed, calls |-> l.calls]
BY DEF Loads

\* A reload keeps what is shown and leaves one call that counts, unanswered.
LEMMA ReloadKeeps ==
  ASSUME NEW l \in Loads(Views)
  PROVE  /\ Reload(l) \in Loads(Views) /\ Loading(Reload(l))
         /\ Reload(l).data = l.data /\ Reload(l).failed = l.failed
         /\ \A d \in Reload(l).calls :
              /\ d.live => d.request = Sent
              /\ d.request = Sent \/ \E c \in l.calls : d.request = c.request
<1> DEFINE cs == Dead(l.calls) \cup {OneCall(Sent, TRUE)}
<1>1. Reload(l) = [l EXCEPT !.calls = cs]
  BY DEF Reload
<1>2. Reload(l).calls = cs /\ Reload(l).data = l.data /\ Reload(l).failed = l.failed
  BY <1>1 DEF Loads
<1>3. OneCall(Sent, TRUE) \in [request : Requests(Views), live : BOOLEAN]
  BY DEF OneCall, Requests
<1>4. Dead(l.calls) \subseteq [request : Requests(Views), live : BOOLEAN]
  <2> SUFFICES ASSUME NEW c \in l.calls
               PROVE  OneCall(c.request, FALSE) \in [request : Requests(Views), live : BOOLEAN]
    BY DEF Dead
  <2>1. c.request \in Requests(Views)
    BY CallsTyped
  <2>2. QED
    BY <2>1 DEF OneCall
<1>5. Reload(l) \in Loads(Views)
  BY <1>1, <1>3, <1>4 DEF Loads
<1>6. OneCall(Sent, TRUE) \in cs /\ OneCall(Sent, TRUE).live
  BY DEF OneCall
<1>7. Loading(Reload(l))
  BY <1>2, <1>6 DEF Loading
<1>8. \A d \in cs : /\ d.live => d.request = Sent
                    /\ d.request = Sent \/ \E c \in l.calls : d.request = c.request
  BY DEF OneCall, Dead
<1>9. QED
  BY <1>2, <1>5, <1>7, <1>8

\* A call that is answered or broken counts as it did before.
LEMMA RepliedKeeps ==
  ASSUME NEW l \in Loads(Views), NEW c \in l.calls, NEW r \in Requests(Views)
  PROVE  LET new == [l EXCEPT !.calls = (@ \ {c}) \cup {OneCall(r, c.live)}]
         IN /\ new \in Loads(Views)
            /\ new.data = l.data /\ new.failed = l.failed
            /\ new.calls = (l.calls \ {c}) \cup {OneCall(r, c.live)}
            /\ Loading(new) <=> Loading(l)
<1> DEFINE cs == (l.calls \ {c}) \cup {OneCall(r, c.live)}
           new == [l EXCEPT !.calls = cs]
<1>1. new.calls = cs /\ new.data = l.data /\ new.failed = l.failed
  BY DEF Loads
<1>2. OneCall(r, c.live) \in [request : Requests(Views), live : BOOLEAN]
  BY CallsTyped DEF OneCall
<1>3. cs \in SUBSET [request : Requests(Views), live : BOOLEAN]
  BY <1>2 DEF Loads
<1>4. new \in Loads(Views)
  BY <1>3 DEF Loads
<1>5. OneCall(r, c.live).live = c.live
  BY DEF OneCall
<1>6. (\E d \in cs : d.live) <=> (\E d \in l.calls : d.live)
  BY <1>5
<1>7. QED
  BY <1>1, <1>4, <1>6 DEF Loading

\* Taking a call that does not count changes nothing; one that does, what its
\* request says.
LEMMA TookKeeps ==
  ASSUME NEW l \in Loads(Views), NEW c \in l.calls
  PROVE  /\ Took(l, c) \in Loads(Views)
         /\ Took(l, c).calls = l.calls \ {c}
         /\ Took(l, c).data = IF c.live /\ c.request.at = "answered" THEN c.request.data ELSE l.data
         /\ Took(l, c).failed = IF c.live THEN c.request = Failed ELSE l.failed
<1>1. c.request.at = "answered" => c.request.data \in Views
  BY CallsTyped
<1>2. (c.request = Failed) \in BOOLEAN
  OBVIOUS
<1>3. QED
  BY <1>1, <1>2 DEF Took, Loads

-----------------------------------------------------------------------------
(* The parts of the invariant under what the steps do.                     *)

\* The server only decides drafts, and only what it decides is blocked by it.
ServerMovesOn ==
  /\ \A p \in Proposals : IsDecided(p) => proposalState'[p] # "draft"
  /\ \A p \in Proposals : IsFree(p) => p \notin blocked'
  /\ \A p \in blocked' : p \in Proposals /\ proposalState'[p] # "draft"
  /\ proposalState' \in [Proposals -> PolicyStates]

LEMMA StillDecided ==
  ASSUME ServerMovesOn
  PROVE  \A p : /\ IsDecided(p) => IsDecided(p)'
                /\ IsFree(p) => IsFree(p)'
BY DEF ServerMovesOn, IsDecided, IsFree

LEMMA SameServerMovesOn ==
  ASSUME PoliciesInv, UNCHANGED policyServer
  PROVE  ServerMovesOn
BY DEF PoliciesInv, PoliciesTyped, SeenIsDecided, ServerMovesOn, IsDecided, IsFree, policyServer

LEMMA DecidedMovesOn ==
  ASSUME PoliciesInv, NEW p \in Proposals, NEW how \in {"applied", "discarded"},
         Decided(p, how)
  PROVE  ServerMovesOn /\ proposalState'[p] # "draft" /\ blocked' \subseteq Proposals
<1>1. proposalState' = [proposalState EXCEPT ![p] = how]
  BY DEF Decided
<1>2. proposalState \in [Proposals -> PolicyStates] /\ proposalState[p] = "draft"
  BY DEF Decided, PoliciesInv, PoliciesTyped
<1>3. proposalState'[p] = how /\ how # "draft"
  BY <1>1, <1>2
<1>4. \A q \in Proposals : q # p => proposalState'[q] = proposalState[q]
  BY <1>1, <1>2
<1>5. blocked' \subseteq blocked \cup {p}
  BY DEF Decided
<1>6. proposalState' \in [Proposals -> PolicyStates]
  BY <1>1, <1>2 DEF PolicyStates
<1>7. QED
  BY <1>2, <1>3, <1>4, <1>5, <1>6
     DEF PoliciesInv, PoliciesTyped, SeenIsDecided, ServerMovesOn, IsDecided, IsFree

\* A step of the server that no list and no act hears of.
LEMMA ServerStepKeeps ==
  ASSUME PoliciesInv, ServerMovesOn, UNCHANGED <<lists, acts, told, freed>>, PoliciesTyped'
  PROVE  PoliciesInv'
<1>1. SeenIsDecided'
  BY StillDecided DEF PoliciesInv, SeenIsDecided, ServerMovesOn, IsDecided
<1>2. ActsHold'
  BY StillDecided DEF PoliciesInv, ActsHold
<1>3. QED
  BY <1>1, <1>2 DEF PoliciesInv, CallsAreCurrent, DataIsCurrent, HoldsTold, Loading

\* A step of the page that no list and no confirmed act hears of.
LEMMA PageStepKeeps ==
  ASSUME PoliciesInv, UNCHANGED <<policyServer, lists, policyHistory>>, PoliciesTyped',
         \A a \in acts' : (\E b \in acts : a.do = b.do /\ a.at = b.at /\ a.of = b.of)
                          \/ (a.do # "unblock" /\ a.at # "done")
                          \/ (a.do = "unblock" /\ a.at # "done" /\ IsDecided(a.of))
  PROVE  PoliciesInv'
<1>1. SeenIsDecided'
  BY DEF PoliciesInv, SeenIsDecided, IsDecided, policyServer
<1>2. \A p : (IsDecided(p) <=> IsDecided(p)') /\ (IsFree(p) <=> IsFree(p)')
  BY DEF IsDecided, IsFree, policyServer
<1>3. ActsHold'
  <2>1. ASSUME NEW a \in acts' PROVE a.do = "unblock" \/ a.at = "done" => IsDecided(a.of)'
    BY <1>2, <2>1 DEF PoliciesInv, ActsHold
  <2>2. ASSUME NEW a \in acts' PROVE a.do = "unblock" /\ a.at = "done" => IsFree(a.of)'
    BY <1>2, <2>2 DEF PoliciesInv, ActsHold
  <2>3. QED
    BY <1>2, <2>1, <2>2 DEF PoliciesInv, ActsHold, policyHistory
<1>4. QED
  BY <1>1, <1>3 DEF PoliciesInv, CallsAreCurrent, DataIsCurrent, HoldsTold, Loading, policyHistory

-----------------------------------------------------------------------------
(* The steps.                                                              *)

LEMMA PoliciesInvInit ==
  PoliciesInit => PoliciesInv
<1> SUFFICES ASSUME PoliciesInit PROVE PoliciesInv
  OBVIOUS
<1>1. lists = NewLoad /\ lists.calls = {OneCall(Sent, TRUE)} /\ lists.data = Nothing
  BY DEF PoliciesInit, NewLoad
<1>2. OneCall(Sent, TRUE) \in [request : Requests(Views), live : BOOLEAN]
  BY DEF OneCall, Requests
<1>3. lists \in Loads(Views)
  BY <1>1, <1>2 DEF NewLoad, Loads
<1>4. proposalState \in [Proposals -> PolicyStates]
  BY DEF PoliciesInit, PolicyStates
<1>5. PoliciesTyped
  BY <1>1, <1>3, <1>4 DEF PoliciesInit, PoliciesTyped, NoDetail, Details, OneCall, Sent, Idle
<1>6. \A c \in lists.calls : c.request.at = "sent"
  BY <1>1 DEF OneCall, Sent
<1>7. SeenIsDecided
  BY <1>1, <1>6 DEF PoliciesInit, SeenIsDecided
<1>8. ActsHold
  BY DEF PoliciesInit, ActsHold
<1>9. QED
  BY <1>1, <1>5, <1>6, <1>7, <1>8 DEF PoliciesInv, CallsAreCurrent, DataIsCurrent

\* The server answers the request of the lists with what it holds then.
LEMMA ListsRepliedKeeps ==
  ASSUME PoliciesInv, NEW c \in lists.calls, ListsReplied(c)
  PROVE  PoliciesInv'
<1> DEFINE view == [proposals |-> proposalState, blocked |-> blocked]
<1>1. PICK r : /\ r = Answer(view) \/ r = Failed
               /\ lists' = [lists EXCEPT !.calls = (@ \ {c}) \cup {OneCall(r, c.live)}]
  BY DEF ListsReplied, Replied, Broke
<1>2. view \in Views
  BY DEF PoliciesInv, PoliciesTyped, Views
<1>3. r \in Requests(Views)
  BY <1>1, <1>2 DEF Requests, Answer, Failed
<1>4. /\ lists' \in Loads(Views) /\ lists'.data = lists.data /\ lists'.failed = lists.failed
      /\ lists'.calls = (lists.calls \ {c}) \cup {OneCall(r, c.live)}
      /\ Loading(lists') <=> Loading(lists)
  BY <1>1, <1>3, RepliedKeeps DEF PoliciesInv, PoliciesTyped
<1>5. UNCHANGED <<policyServer, picked, detail, acts, bulk, policyHistory>>
  BY DEF ListsReplied
<1>6. r.at = "answered" => r.data = view
  BY <1>1 DEF Answer, Failed
<1>7. PoliciesTyped'
  <2>1. r # Idle
    BY <1>1 DEF Answer, Failed, Idle
  <2>2. \A d \in lists'.calls : d.request # Idle
    BY <1>4, <2>1 DEF OneCall, PoliciesInv, PoliciesTyped
  <2>3. QED
    BY <1>4, <1>5, <2>2 DEF PoliciesInv, PoliciesTyped, policyServer
<1>8. \A p : (IsDecided(p) <=> IsDecided(p)') /\ (IsFree(p) <=> IsFree(p)')
  BY <1>5 DEF IsDecided, IsFree, policyServer
<1>9. ActsHold'
  BY <1>5, <1>8 DEF PoliciesInv, ActsHold, policyHistory
<1>10. \A d \in lists'.calls : d \in lists.calls \/ d.request = r
  BY <1>4 DEF OneCall
<1>11. SeenIsDecided'
  BY <1>4, <1>5, <1>6, <1>8, <1>10 DEF PoliciesInv, SeenIsDecided, policyServer
<1>12. HoldsTold(view)
  BY DEF PoliciesInv, ActsHold, HoldsTold, IsDecided, IsFree
<1>13. CallsAreCurrent'
  BY <1>5, <1>6, <1>10, <1>12 DEF PoliciesInv, CallsAreCurrent, HoldsTold, policyHistory
<1>14. DataIsCurrent'
  BY <1>4, <1>5 DEF PoliciesInv, DataIsCurrent, HoldsTold, policyHistory
<1>15. QED
  BY <1>7, <1>9, <1>11, <1>13, <1>14 DEF PoliciesInv

\* The answer arrives on the page.
LEMMA ListsTakenKeeps ==
  ASSUME PoliciesInv, NEW c \in lists.calls, ListsTaken(c)
  PROVE  PoliciesInv'
<1>1. lists' = Took(lists, c) /\ lists \in Loads(Views)
  BY DEF ListsTaken, PoliciesInv, PoliciesTyped
<1>2. /\ lists' \in Loads(Views) /\ lists'.calls = lists.calls \ {c}
      /\ lists'.data = IF c.live /\ c.request.at = "answered" THEN c.request.data ELSE lists.data
      /\ lists'.failed = IF c.live THEN c.request = Failed ELSE lists.failed
  BY <1>1, TookKeeps
<1>3. UNCHANGED <<policyServer, picked, detail, acts, bulk, policyHistory>>
  BY DEF ListsTaken
<1>4. PoliciesTyped'
  BY <1>2, <1>3 DEF PoliciesInv, PoliciesTyped, policyServer
<1>5. \A p : (IsDecided(p) <=> IsDecided(p)') /\ (IsFree(p) <=> IsFree(p)')
  BY <1>3 DEF IsDecided, IsFree, policyServer
<1>6. ActsHold'
  BY <1>3, <1>5 DEF PoliciesInv, ActsHold, policyHistory
<1>7. SeenIsDecided'
  BY <1>2, <1>3, <1>5 DEF PoliciesInv, SeenIsDecided, policyServer
<1>8. CallsAreCurrent'
  BY <1>2, <1>3 DEF PoliciesInv, CallsAreCurrent, HoldsTold, policyHistory
<1>9. DataIsCurrent'
  <2>1. CASE ~c.live
    <3>1. Loading(lists) => Loading(lists')
      BY <1>2, <2>1 DEF Loading
    <3>2. QED
      BY <1>2, <1>3, <2>1, <3>1 DEF PoliciesInv, DataIsCurrent, HoldsTold, policyHistory
  <2>2. CASE c.live /\ c.request.at = "answered"
    BY <1>2, <1>3, <2>2 DEF PoliciesInv, CallsAreCurrent, DataIsCurrent, HoldsTold, policyHistory
  <2>3. CASE c.live /\ c.request.at # "answered"
    <3>1. c.request \in Requests(Views) /\ c.request # Sent
      BY <1>1, CallsTyped DEF ListsTaken
    <3>2. c.request # Idle
      BY DEF PoliciesInv, PoliciesTyped
    <3>3. c.request = Failed
      BY <2>3, <3>1, <3>2 DEF Requests
    <3>4. QED
      BY <1>2, <2>3, <3>3 DEF DataIsCurrent
  <2>4. QED
    BY <2>1, <2>2, <2>3
<1>10. QED
  BY <1>4, <1>6, <1>7, <1>8, <1>9 DEF PoliciesInv

\* An act is carried out by the server, or refused.
LEMMA ActDoneKeeps ==
  ASSUME PoliciesInv, NEW a \in acts, ActDone(a)
  PROVE  PoliciesInv'
<1>1. a \in Acts /\ a.of \in Proposals
  BY DEF PoliciesInv, PoliciesTyped, Acts
<1>2. UNCHANGED <<lists, told, freed, picked, detail>>
  BY DEF ActDone, policyHistory
<1>3. [a EXCEPT !.at = "done"] \in Acts /\ [a EXCEPT !.at = "failed"] \in Acts
  BY <1>1 DEF Acts
<1>4. ASSUME ServerMovesOn, proposalState' \in [Proposals -> PolicyStates],
             blocked' \subseteq Proposals, NEW b,
             acts' = (acts \ {a}) \cup {b}, b \in Acts,
             b.do = "unblock" \/ b.at = "done" => IsDecided(b.of)',
             b.do = "unblock" /\ b.at = "done" => IsFree(b.of)'
      PROVE  PoliciesInv'
  <2>1. PoliciesTyped'
    BY <1>2, <1>4 DEF PoliciesInv, PoliciesTyped
  <2>2. SeenIsDecided'
    BY <1>2, <1>4, StillDecided DEF PoliciesInv, SeenIsDecided, ServerMovesOn, IsDecided
  <2>3. ActsHold'
    BY <1>2, <1>4, StillDecided DEF PoliciesInv, ActsHold
  <2>4. QED
    BY <1>2, <2>1, <2>2, <2>3 DEF PoliciesInv, CallsAreCurrent, DataIsCurrent, HoldsTold, Loading
<1>5. CASE /\ a.do \in {"applied", "discarded"} /\ Decided(a.of, a.do)
           /\ acts' = (acts \ {a}) \cup {[a EXCEPT !.at = "done"]}
  <2>1. ServerMovesOn /\ proposalState'[a.of] # "draft" /\ blocked' \subseteq Proposals
    BY <1>1, <1>5, DecidedMovesOn
  <2>2. IsDecided(a.of)'
    BY <1>1, <2>1 DEF IsDecided
  <2>3. [a EXCEPT !.at = "done"].do # "unblock" /\ [a EXCEPT !.at = "done"].of = a.of
    BY <1>1, <1>5 DEF Acts
  <2>4. QED
    BY <1>3, <1>4, <1>5, <2>1, <2>2, <2>3 DEF ServerMovesOn
<1>6. CASE /\ a.do = "unblock" /\ blocked' = blocked \ {a.of} /\ UNCHANGED proposalState
           /\ acts' = (acts \ {a}) \cup {[a EXCEPT !.at = "done"]}
  <2>1. ServerMovesOn /\ blocked' \subseteq Proposals
    BY <1>6 DEF PoliciesInv, PoliciesTyped, SeenIsDecided, ServerMovesOn, IsDecided, IsFree
  <2>2. IsDecided(a.of)
    BY <1>6 DEF PoliciesInv, ActsHold
  <2>3. IsDecided(a.of)' /\ IsFree(a.of)'
    BY <1>6, <2>2 DEF IsDecided, IsFree
  <2>4. [a EXCEPT !.at = "done"].of = a.of
    BY <1>1 DEF Acts
  <2>5. QED
    BY <1>3, <1>4, <1>6, <2>1, <2>3, <2>4 DEF ServerMovesOn
<1>7. CASE /\ acts' = (acts \ {a}) \cup {[a EXCEPT !.at = "failed"]}
           /\ UNCHANGED <<proposalState, blocked>>
  <2>1. UNCHANGED policyServer
    BY <1>7 DEF ActDone, policyServer
  <2>2. ServerMovesOn
    BY <2>1, SameServerMovesOn
  <2>3. [a EXCEPT !.at = "failed"].at = "failed" /\ [a EXCEPT !.at = "failed"].of = a.of
        /\ [a EXCEPT !.at = "failed"].do = a.do
    BY <1>1 DEF Acts
  <2>4. a.do = "unblock" => IsDecided(a.of)
    BY DEF PoliciesInv, ActsHold
  <2>5. a.do = "unblock" => IsDecided(a.of)'
    BY <2>2, <2>4, StillDecided
  <2>6. proposalState' \in [Proposals -> PolicyStates] /\ blocked' \subseteq Proposals
    BY <1>7 DEF PoliciesInv, PoliciesTyped
  <2>7. QED
    BY <1>3, <1>4, <1>7, <2>2, <2>3, <2>5, <2>6
<1>8. QED
  BY <1>5, <1>6, <1>7 DEF ActDone

\* The page hears that its act was done, and loads the lists again.
LEMMA ActTakenKeeps ==
  ASSUME PoliciesInv, NEW a \in acts, ActTaken(a)
  PROVE  PoliciesInv'
<1>1. UNCHANGED <<policyServer, picked, detail>> /\ acts' = acts \ {a}
  BY DEF ActTaken
<1>2. \A p : (IsDecided(p) <=> IsDecided(p)') /\ (IsFree(p) <=> IsFree(p)')
  BY <1>1 DEF IsDecided, IsFree, policyServer
<1>3. CASE a.at # "done"
  <2>1. UNCHANGED <<lists, told, freed>>
    BY <1>3 DEF ActTaken
  <2>2. PoliciesTyped'
    BY <1>1, <2>1 DEF PoliciesInv, PoliciesTyped, policyServer
  <2>3. UNCHANGED <<policyServer, lists, policyHistory>>
    BY <1>1, <2>1 DEF policyHistory
  <2>4. QED
    BY <1>1, <2>2, <2>3, PageStepKeeps
<1>4. CASE a.at = "done"
  <2>1. lists' = Reload(lists) /\ lists \in Loads(Views)
    BY <1>4 DEF ActTaken, PoliciesInv, PoliciesTyped
  <2>2. /\ lists' \in Loads(Views) /\ Loading(lists') /\ lists'.data = lists.data
        /\ \A d \in lists'.calls :
             /\ d.live => d.request = Sent
             /\ d.request = Sent \/ \E c \in lists.calls : d.request = c.request
    BY <2>1, ReloadKeeps
  <2>3. Sent # Idle /\ Sent.at # "answered"
    BY DEF Sent, Idle
  <2>4. PoliciesTyped'
    BY <1>1, <2>2, <2>3 DEF PoliciesInv, PoliciesTyped, policyServer
  <2>5. SeenIsDecided'
    BY <1>1, <1>2, <2>2, <2>3 DEF PoliciesInv, SeenIsDecided, policyServer
  <2>6. /\ told' = IF a.do # "unblock" THEN told \cup {a.of} ELSE told
        /\ freed' = IF a.do = "unblock" THEN freed \cup {a.of} ELSE freed
    BY <1>4 DEF ActTaken
  <2>7. IsDecided(a.of) /\ (a.do = "unblock" => IsFree(a.of))
    BY <1>4 DEF PoliciesInv, ActsHold
  <2>8. ActsHold'
    BY <1>1, <1>2, <2>6, <2>7 DEF PoliciesInv, ActsHold
  <2>9. CallsAreCurrent' /\ DataIsCurrent'
    BY <2>2, <2>3 DEF CallsAreCurrent, DataIsCurrent
  <2>10. QED
    BY <2>4, <2>5, <2>8, <2>9 DEF PoliciesInv
<1>5. QED
  BY <1>3, <1>4

\* The replacement of all rules loads the lists again, too.
LEMMA BulkConfirmsKeeps ==
  ASSUME PoliciesInv, BulkConfirms
  PROVE  PoliciesInv'
<1>1. UNCHANGED <<picked, detail, acts, told, freed, proposalState, blocked>>
  BY DEF BulkConfirms, policyServer
<1>2. \A p : (IsDecided(p) <=> IsDecided(p)') /\ (IsFree(p) <=> IsFree(p)')
  BY <1>1 DEF IsDecided, IsFree
<1>3. ActsHold'
  BY <1>1, <1>2 DEF PoliciesInv, ActsHold
<1>4. CASE UNCHANGED lists
  BY <1>1, <1>2, <1>3, <1>4
     DEF PoliciesInv, PoliciesTyped, SeenIsDecided, CallsAreCurrent, DataIsCurrent,
         HoldsTold, Loading
<1>5. CASE lists' = Reload(lists)
  <2>1. /\ lists' \in Loads(Views) /\ Loading(lists') /\ lists'.data = lists.data
        /\ \A d \in lists'.calls :
             /\ d.live => d.request = Sent
             /\ d.request = Sent \/ \E c \in lists.calls : d.request = c.request
    BY <1>5, ReloadKeeps DEF PoliciesInv, PoliciesTyped
  <2>2. Sent # Idle /\ Sent.at # "answered"
    BY DEF Sent, Idle
  <2>3. PoliciesTyped'
    BY <1>1, <2>1, <2>2 DEF PoliciesInv, PoliciesTyped
  <2>4. SeenIsDecided'
    BY <1>1, <1>2, <2>1, <2>2 DEF PoliciesInv, SeenIsDecided
  <2>5. QED
    BY <1>3, <2>1, <2>2, <2>3, <2>4 DEF PoliciesInv, CallsAreCurrent, DataIsCurrent
<1>6. QED
  BY <1>4, <1>5 DEF BulkConfirms

\* Choosing what the page shows takes its acts from the page, not from the server.
LEMMA PickKeeps ==
  ASSUME PoliciesInv, NEW x \in Proposals \cup {"yaml"}, Pick(x),
         UNCHANGED <<policyServer, lists, policyHistory>>
  PROVE  PoliciesInv'
<1>1. \A a \in acts : /\ [a EXCEPT !.mine = FALSE] \in Acts
                       /\ [a EXCEPT !.mine = FALSE].do = a.do
                       /\ [a EXCEPT !.mine = FALSE].at = a.at
                       /\ [a EXCEPT !.mine = FALSE].of = a.of
  BY DEF PoliciesInv, PoliciesTyped, Acts
<1>2. acts' \subseteq Acts
  BY <1>1 DEF Pick
<1>3. PoliciesTyped'
  BY <1>2 DEF PoliciesInv, PoliciesTyped, Pick, NoDetail, Details, policyServer
<1>4. QED
  BY <1>1, <1>3, PageStepKeeps, ZenonT(40) DEF Pick

\* Only what the page shows as blocked can be unblocked.
LEMMA UnblockKeeps ==
  ASSUME PoliciesInv, NEW v \in Proposals, Unblock(v)
  PROVE  PoliciesInv'
<1> DEFINE b == [do |-> "unblock", of |-> v, mine |-> FALSE, at |-> "sent"]
<1>1. IsDecided(v)
  BY DEF PoliciesInv, SeenIsDecided, Unblock
<1>2. b \in Acts
  BY DEF Acts
<1>3. acts' = acts \cup {b} /\ UNCHANGED <<policyServer, lists, picked, detail, policyHistory>>
  BY DEF Unblock
<1>4. PoliciesTyped'
  BY <1>2, <1>3 DEF PoliciesInv, PoliciesTyped, policyServer
<1>5. QED
  BY <1>1, <1>3, <1>4, PageStepKeeps

\* The confirmed dialog sends the decision.
LEMMA ConfirmActKeeps ==
  ASSUME PoliciesInv, ConfirmAct
  PROVE  PoliciesInv'
<1> DEFINE b == [do |-> detail.ask, of |-> picked, mine |-> TRUE, at |-> "sent"]
<1>1. b \in Acts /\ b.do # "unblock"
  BY DEF PoliciesInv, PoliciesTyped, ConfirmAct, Details, Acts
<1>2. /\ acts' = acts \cup {b} /\ UNCHANGED <<policyServer, lists, picked, policyHistory>>
      /\ detail' = [detail EXCEPT !.ask = Nothing]
  BY DEF ConfirmAct
<1>3. detail' \in Details /\ detail'.ask = Nothing
  BY <1>2 DEF PoliciesInv, PoliciesTyped, Details
<1>4. PoliciesTyped'
  BY <1>1, <1>2, <1>3 DEF PoliciesInv, PoliciesTyped, policyServer
<1>5. QED
  BY <1>1, <1>2, <1>4, PageStepKeeps

\* The steps of the page that send nothing and hear of nothing.
LEMMA QuietStepKeeps ==
  ASSUME PoliciesInv, UNCHANGED <<policyServer, lists, picked, acts, policyHistory>>,
         detail' \in Details, detail'.ask # Nothing => picked \in Proposals
  PROVE  PoliciesInv'
<1>1. PoliciesTyped'
  BY DEF PoliciesInv, PoliciesTyped, policyServer
<1>2. QED
  BY <1>1, PageStepKeeps

LEMMA PoliciesInvNext ==
  PoliciesInv /\ [PoliciesNext]_policiesVars => PoliciesInv'
<1> SUFFICES ASSUME PoliciesInv, [PoliciesNext]_policiesVars PROVE PoliciesInv'
  OBVIOUS
<1> USE DEF Details
<1>0. detail \in Details /\ (detail.ask # Nothing => picked \in Proposals)
  BY DEF PoliciesInv, PoliciesTyped
<1>1. CASE UNCHANGED policiesVars
  BY <1>0, <1>1, QuietStepKeeps DEF policiesVars
<1>2. ASSUME NEW p \in Proposals, OtherDecides(p) PROVE PoliciesInv'
  <2>1. PICK how \in {"applied", "discarded"} : Decided(p, how)
    BY <1>2 DEF OtherDecides
  <2>2. ServerMovesOn /\ blocked' \subseteq Proposals
    BY <2>1, DecidedMovesOn
  <2>3. UNCHANGED <<lists, acts, told, freed, picked, detail>>
    BY <1>2 DEF OtherDecides, policyHistory
  <2>4. PoliciesTyped'
    BY <2>2, <2>3 DEF PoliciesInv, PoliciesTyped, ServerMovesOn
  <2>5. QED
    BY <2>2, <2>3, <2>4, ServerStepKeeps
<1>3. ASSUME NEW p \in Proposals, PickByUser(p) PROVE PoliciesInv'
  BY <1>3, PickKeeps DEF PickByUser
<1>4. ASSUME NEW p \in Proposals, Unblock(p) PROVE PoliciesInv'
  BY <1>4, UnblockKeeps
<1>5. ASSUME NEW c \in lists.calls, ListsReplied(c) \/ ListsTaken(c) PROVE PoliciesInv'
  BY <1>5, ListsRepliedKeeps, ListsTakenKeeps
<1>6. ASSUME NEW a \in acts, ActDone(a) \/ ActTaken(a) PROVE PoliciesInv'
  BY <1>6, ActDoneKeeps, ActTakenKeeps
<1>7. ASSUME NEW how \in {"applied", "discarded"}, AskAct(how) PROVE PoliciesInv'
  <2>1. detail' = [detail EXCEPT !.ask = how] /\ picked \in Proposals
        /\ UNCHANGED <<policyServer, lists, picked, acts, policyHistory>>
    BY <1>7 DEF AskAct, OnPage
  <2>2. detail' \in Details
    BY <1>0, <2>1
  <2>3. QED
    BY <2>1, <2>2, QuietStepKeeps
<1>8. CASE PickByUser("yaml")
  BY <1>8, PickKeeps DEF PickByUser
<1>9. CASE AutoPick
  <2>1. (CHOOSE p \in draftsShown : TRUE) \in Proposals
    BY <1>9 DEF AutoPick, draftsShown
  <2>2. QED
    BY <1>9, <2>1, PickKeeps DEF AutoPick
<1>10. CASE runPreview \/ PreviewSettles \/ CancelAct
  <2>1. UNCHANGED <<policyServer, lists, picked, acts, policyHistory>>
    BY <1>10 DEF runPreview, PreviewSettles, CancelAct, policyHistory
  <2>2. \/ detail' = [detail EXCEPT !.auto = TRUE, !.request = Sent]
        \/ detail' = [detail EXCEPT !.request = Idle, !.shown = TRUE]
        \/ detail' = [detail EXCEPT !.request = Idle]
        \/ detail' = [detail EXCEPT !.ask = Nothing]
    BY <1>10 DEF runPreview, PreviewSettles, CancelAct
  <2>3. detail' \in Details /\ (detail'.ask = detail.ask \/ detail'.ask = Nothing)
    BY <1>0, <2>2
  <2>4. QED
    BY <1>0, <2>1, <2>3, QuietStepKeeps
<1>11. CASE ConfirmAct
  BY <1>11, ConfirmActKeeps
<1>12. CASE BulkLoads \/ BulkAsks
  BY <1>0, <1>12, QuietStepKeeps DEF BulkLoads, BulkAsks
<1>13. CASE BulkConfirms
  BY <1>13, BulkConfirmsKeeps
<1>14. QED
  BY <1>1, <1>2, <1>3, <1>4, <1>5, <1>6, <1>7, <1>8, <1>9, <1>10, <1>11, <1>12, <1>13
     DEF PoliciesNext

\* On the policies page, once the lists have settled, nothing that the page was
\* told is decided is shown as a draft again, and no value whose unblocking was
\* confirmed is listed as blocked: the lists are loaded anew after each act, and
\* useLoad drops whatever was asked for before (PoliciesPage.tsx, useLoad.ts).
THEOREM SettledListsShowWhatWasTold == PoliciesSpec => []ToldIsShown
<1>1. PoliciesInv => ToldIsShown
  BY DEF PoliciesInv, DataIsCurrent, HoldsTold, ToldIsShown, draftsShown, isDraft
<1>2. QED
  BY <1>1, PoliciesInvInit, PoliciesInvNext, PTL DEF PoliciesSpec

-----------------------------------------------------------------------------
(* The audit log.                                                          *)

Reqs == [filters : AuditFilters, page : Nat \ {0}, size : PageSizes]

Shows(r) == got # NoPage /\ [filters |-> got.filters, page |-> got.page, size |-> got.size] = r

AsksTyped ==
  \A a \in asks : /\ a.req \in Reqs
                  /\ a = [req |-> a.req, before |-> a.before, current |-> a.current,
                          request |-> a.request]

\* The call that counts was made for what is asked for now, unless the timer
\* is about to make a newer one.
CurrentIsAsked == timer \/ \A a \in asks : a.current => a.req = req

\* Somebody sees to it, or it is on the screen.
PageIsComing == timer \/ loading \/ listError \/ Shows(req)

AuditInv == req \in Reqs /\ AsksTyped /\ CurrentIsAsked /\ PageIsComing

LEMMA FirstPageTyped ==
  ASSUME NEW f \in AuditFilters, NEW s \in PageSizes
  PROVE  [filters |-> f, page |-> 1, size |-> s] \in Reqs
BY DEF Reqs

LEMMA AuditInvInit ==
  AuditInit => AuditInv
<1> SUFFICES ASSUME AuditInit PROVE AuditInv
  OBVIOUS
<1>1. (CHOOSE s \in PageSizes : TRUE) \in PageSizes
  BY AuditAssumption
<1>2. req \in Reqs
  BY <1>1, AuditAssumption DEF AuditInit, Reqs
<1>3. QED
  BY <1>2 DEF AuditInit, AuditInv, AsksTyped, CurrentIsAsked, PageIsComing

\* run leaves one call that counts: the new one.
LEMMA RunKeeps ==
  ASSUME AuditInv, run(req), UNCHANGED req
  PROVE  AsksTyped' /\ loading' /\ \A a \in asks' : a.current => a.req = req
<1>1. PICK new : /\ asks' = {[a EXCEPT !.current = FALSE] : a \in asks} \cup {new}
                 /\ \E from : new = Ask(req, from)
  BY DEF run
<1>2. /\ new.req = req /\ new.current
      /\ new = [req |-> new.req, before |-> new.before, current |-> new.current,
                request |-> new.request]
  BY <1>1 DEF Ask
<1>3. ASSUME NEW a \in asks
      PROVE  LET d == [a EXCEPT !.current = FALSE]
             IN /\ ~d.current /\ d.req \in Reqs
                /\ d = [req |-> d.req, before |-> d.before, current |-> d.current,
                        request |-> d.request]
  <2>1. a.req \in Reqs /\ a = [req |-> a.req, before |-> a.before, current |-> a.current,
                               request |-> a.request]
    BY DEF AuditInv, AsksTyped
  <2> DEFINE d == [a EXCEPT !.current = FALSE]
  <2>2. \A x : [a EXCEPT !.current = x] =
               [req |-> a.req, before |-> a.before, current |-> x, request |-> a.request]
    BY <2>1
  <2>3. d = [req |-> a.req, before |-> a.before, current |-> FALSE, request |-> a.request]
    BY <2>2
  <2>4. QED
    BY <2>1, <2>3
<1>4. AsksTyped'
  BY <1>1, <1>2, <1>3 DEF AsksTyped, AuditInv
<1>5. loading'
  BY <1>1, <1>2 DEF loading
<1>6. \A a \in asks' : a = new \/ ~a.current
  <2>1. \A a \in asks : ~[a EXCEPT !.current = FALSE].current
    BY <1>3
  <2>2. \A a \in asks' : a = new \/ \E b \in asks : a = [b EXCEPT !.current = FALSE]
    BY <1>1
  <2>3. QED
    BY <2>1, <2>2
<1>7. QED
  BY <1>2, <1>4, <1>5, <1>6

\* The server sees to a call, which counts as before.
LEMMA AskSeenKeeps ==
  ASSUME AuditInv, NEW a \in asks, NEW x,
         asks' = (asks \ {a}) \cup {[a EXCEPT !.request = x]},
         UNCHANGED <<req, timer, got, listError>>
  PROVE  AuditInv'
<1> DEFINE d == [a EXCEPT !.request = x]
<1>1. a.req \in Reqs /\ a = [req |-> a.req, before |-> a.before, current |-> a.current,
                             request |-> a.request]
  BY DEF AuditInv, AsksTyped
<1>2. d = [req |-> a.req, before |-> a.before, current |-> a.current, request |-> x]
  BY <1>1
<1>3. AsksTyped'
  BY <1>1, <1>2 DEF AuditInv, AsksTyped
<1>4. loading' <=> loading
  BY <1>2 DEF loading
<1>5. CurrentIsAsked'
  BY <1>2 DEF AuditInv, CurrentIsAsked
<1>6. QED
  BY <1>3, <1>4, <1>5 DEF AuditInv, PageIsComing, Shows

\* The answer of a call that counts is what is asked for; others change nothing.
LEMMA AuditTakenKeeps ==
  ASSUME AuditInv, NEW a \in asks, AuditTaken(a)
  PROVE  AuditInv'
<1>1. asks' = asks \ {a} /\ UNCHANGED <<req, timer>>
  BY DEF AuditTaken
<1>2. AsksTyped' /\ CurrentIsAsked' /\ req' \in Reqs
  BY <1>1 DEF AuditInv, AsksTyped, CurrentIsAsked
<1>3. CASE ~a.current /\ UNCHANGED <<got, listError>>
  <2>1. loading => loading'
    BY <1>1, <1>3 DEF loading
  <2>2. QED
    BY <1>1, <1>2, <1>3, <2>1 DEF AuditInv, PageIsComing, Shows
<1>4. CASE listError' = TRUE
  BY <1>2, <1>4 DEF AuditInv, PageIsComing
<1>5. CASE /\ a.current
           /\ \E rows, next, total :
                got' = [rows |-> rows, filters |-> a.req.filters, page |-> a.req.page,
                        size |-> a.req.size, hasNext |-> next, total |-> total]
  <2>1. a.req \in Reqs
    BY DEF AuditInv, AsksTyped
  <2>2. got'.page = a.req.page /\ got'.page # 0 /\ got' # NoPage
    BY <1>5, <2>1 DEF Reqs, NoPage
  <2>3. [filters |-> got'.filters, page |-> got'.page, size |-> got'.size] = a.req
    BY <1>5, <2>1 DEF Reqs
  <2>4. timer \/ a.req = req
    BY <1>5 DEF AuditInv, CurrentIsAsked
  <2>5. Shows(a.req)'
    BY <2>2, <2>3 DEF Shows, NoPage
  <2>6. QED
    BY <1>1, <1>2, <2>4, <2>5 DEF AuditInv, PageIsComing, Shows
<1>6. CASE /\ a.current /\ a.request.at = "answered" /\ listError' = FALSE
  <2>1. QED
    BY <1>5, <1>6 DEF AuditTaken
<1>7. QED
  BY <1>3, <1>4, <1>6 DEF AuditTaken

LEMMA AuditInvNext ==
  AuditInv /\ [AuditNext]_auditVars => AuditInv'
<1> SUFFICES ASSUME AuditInv, [AuditNext]_auditVars PROVE AuditInv'
  OBVIOUS
<1>1. CASE UNCHANGED auditVars \/ Recorded
  <2>1. UNCHANGED auditListVars
    BY <1>1 DEF Recorded, auditVars
  <2>2. QED
    BY <2>1 DEF auditListVars, AuditInv, AsksTyped, CurrentIsAsked, PageIsComing, loading,
                Shows
<1>2. CASE TimerRuns
  <2>1. run(req) /\ UNCHANGED req
    BY <1>2 DEF TimerRuns
  <2>2. QED
    BY <2>1, RunKeeps DEF AuditInv, CurrentIsAsked, PageIsComing
<1>3. CASE RetryList
  <2>1. run(req) /\ UNCHANGED req
    BY <1>3 DEF RetryList
  <2>2. QED
    BY <2>1, RunKeeps DEF AuditInv, CurrentIsAsked, PageIsComing
<1>4. CASE LeaveAndReturn
  <2>1. (CHOOSE s \in PageSizes : TRUE) \in PageSizes
    BY AuditAssumption
  <2>2. req' \in Reqs
    BY <1>4, <2>1, FirstPageTyped DEF LeaveAndReturn, AuditInv, Reqs
  <2>3. QED
    BY <1>4, <2>2 DEF LeaveAndReturn, AuditInv, AsksTyped, CurrentIsAsked, PageIsComing
<1>5. ASSUME NEW a \in asks, AuditAnswered(a) \/ AuditFails(a) PROVE AuditInv'
  <2>1. /\ \E x : asks' = (asks \ {a}) \cup {[a EXCEPT !.request = x]}
        /\ UNCHANGED <<req, timer, got, listError>>
    BY <1>5 DEF AuditAnswered, AuditFails
  <2>2. QED
    BY <2>1, AskSeenKeeps
<1>6. ASSUME NEW a \in asks, AuditTaken(a) PROVE AuditInv'
  BY <1>6, AuditTakenKeeps
<1>7. ASSUME NEW r \in Reqs, SetReq(r) PROVE AuditInv'
  BY <1>7 DEF SetReq, AuditInv, AsksTyped, CurrentIsAsked, PageIsComing
<1>8. ASSUME NEW f \in AuditFilters, SetFilters(f) PROVE AuditInv'
  <2>1. [filters |-> f, page |-> 1, size |-> req.size] \in Reqs
    BY FirstPageTyped DEF AuditInv, Reqs
  <2>2. QED
    BY <1>7, <1>8, <2>1 DEF SetFilters
<1>9. ASSUME NEW s \in PageSizes, SetSize(s) PROVE AuditInv'
  <2>1. [filters |-> req.filters, page |-> 1, size |-> s] \in Reqs
    BY FirstPageTyped DEF AuditInv, Reqs
  <2>2. QED
    BY <1>7, <1>9, <2>1 DEF SetSize
<1>10. ASSUME NEW p \in 1 .. MaxLog, GoToPage(p) PROVE AuditInv'
  <2>1. [req EXCEPT !.page = p] \in Reqs
    BY AuditAssumption DEF AuditInv, Reqs
  <2>2. QED
    BY <1>7, <1>10, <2>1 DEF GoToPage
<1>11. QED
  BY <1>1, <1>2, <1>3, <1>4, <1>5, <1>6, <1>8, <1>9, <1>10 DEF AuditNext

\* On the audit page, whenever no request is due or under way and none failed,
\* the page on the screen is the one the filter bar and the pager say, although
\* the answers of older requests may come last (run of AuditPage.tsx).
THEOREM ListIsAlwaysTheOneAskedFor == AuditSpec => []ListIsTheOneAskedFor
<1>1. AuditInv => ListIsTheOneAskedFor
  BY DEF AuditInv, PageIsComing, Shows, ListIsTheOneAskedFor
<1>2. QED
  BY <1>1, AuditInvInit, AuditInvNext, PTL DEF AuditSpec

-----------------------------------------------------------------------------
(* The preview of the policy editor.                                       *)

EditorShape(e) ==
  \E rule, new, draft, mode, yaml, check :
    e = [rule |-> rule, isNew |-> new, draft |-> draft, mode |-> mode, yaml |-> yaml,
         check |-> check]

PreviewShape(c) == \E rule, cur : c = [rule |-> rule, current |-> cur]

\* A preview that counts is of the rule on the check page.
PreviewsFit(e, cs) ==
  \A c \in cs : c.current => /\ EditorShape(e)
                                /\ \E p : e.check = [rule |-> c.rule, preview |-> p]

Fits(e) == e # Nothing /\ e.check # Nothing /\ e.check.preview # Nothing =>
             e.check.preview = e.check.rule

EditInv ==
  /\ editor # Nothing => EditorShape(editor)
  /\ \A c \in previews : PreviewShape(c)
  /\ PreviewsFit(editor, previews)
  /\ Fits(editor)

\* Previews that do not count any more fit everything.
LEMMA DroppedFit ==
  ASSUME NEW cs, \A c \in cs : PreviewShape(c)
  PROVE  /\ \A c \in Drop(cs) : PreviewShape(c)
         /\ \A c \in Drop(cs) : ~c.current
<1> SUFFICES ASSUME NEW c \in cs
             PROVE  /\ PreviewShape([c EXCEPT !.current = FALSE])
                    /\ ~[c EXCEPT !.current = FALSE].current
  BY DEF Drop
<1>1. PICK rule, cur : c = [rule |-> rule, current |-> cur]
  BY DEF PreviewShape
<1>2. \A x : [c EXCEPT !.current = x] = [rule |-> rule, current |-> x]
  BY <1>1
<1>3. [c EXCEPT !.current = FALSE] = [rule |-> rule, current |-> FALSE]
  BY <1>2
<1>4. QED
  BY <1>3 DEF PreviewShape

\* Opening the check page asks for the preview of its rule.
LEMMA CheckedFits ==
  ASSUME NEW e, EditorShape(e), NEW r, NEW cs, \A c \in cs : PreviewShape(c) /\ ~c.current
  PROVE  /\ EditorShape(Checked(e, r)) /\ Fits(Checked(e, r))
         /\ \A c \in cs \cup Asked(r) : PreviewShape(c)
         /\ PreviewsFit(Checked(e, r), cs \cup Asked(r))
<1>1. PICK rule, new, draft, mode, yaml, check :
        e = [rule |-> rule, isNew |-> new, draft |-> draft, mode |-> mode, yaml |-> yaml,
             check |-> check]
  BY DEF EditorShape
<1>2. Checked(e, r) = [rule |-> rule, isNew |-> new, draft |-> draft, mode |-> mode,
                       yaml |-> yaml, check |-> [rule |-> r, preview |-> Nothing]]
  BY <1>1 DEF Checked
<1>3. \A c \in Asked(r) : c = [rule |-> r, current |-> TRUE]
  BY DEF Asked
<1>4. EditorShape(Checked(e, r)) /\ Fits(Checked(e, r))
  <2>1. EditorShape(Checked(e, r))
    BY <1>2 DEF EditorShape
  <2>2. Checked(e, r).check.preview = Nothing
    BY <1>2
  <2>3. QED
    BY <2>1, <2>2 DEF Fits
<1>5. \A c \in Asked(r) : PreviewShape(c)
  BY <1>3 DEF PreviewShape
<1>6. PreviewsFit(Checked(e, r), cs \cup Asked(r))
  <2> SUFFICES ASSUME NEW c \in cs \cup Asked(r), c.current
               PROVE  \E p : Checked(e, r).check = [rule |-> c.rule, preview |-> p]
    BY <1>4 DEF PreviewsFit
  <2>1. c = [rule |-> r, current |-> TRUE]
    BY <1>3
  <2>2. c.rule = r
    BY <2>1
  <2>3. Checked(e, r).check = [rule |-> r, preview |-> Nothing]
    BY <1>2
  <2>4. QED
    BY <2>2, <2>3
<1>7. QED
  BY <1>4, <1>5, <1>6

\* A step of the editor that leaves its check page alone.
LEMMA CheckUnchangedFits ==
  ASSUME EditInv, UNCHANGED previews, EditorShape(editor'), editor'.check = editor.check,
         editor # Nothing
  PROVE  EditInv'
<1>1. PreviewsFit(editor', previews)
  BY DEF EditInv, PreviewsFit
<1>2. Fits(editor')
  BY DEF EditInv, Fits
<1>3. QED
  BY <1>1, <1>2 DEF EditInv, PreviewsFit, Fits, EditorShape, PreviewShape

\* A step that leaves the check page and gives up its previews.
LEMMA CheckLeftFits ==
  ASSUME EditInv, previews' = Drop(previews), EditorShape(editor'), editor'.check = Nothing
  PROVE  EditInv'
<1>1. /\ \A c \in previews' : PreviewShape(c)
      /\ \A c \in previews' : ~c.current
  BY DroppedFit DEF EditInv
<1>2. PreviewsFit(editor', previews') /\ Fits(editor')
  BY <1>1 DEF PreviewsFit, Fits
<1>3. QED
  BY <1>1, <1>2 DEF EditInv, PreviewsFit, Fits, EditorShape, PreviewShape

\* A newly mounted editor has no preview but the one it asks for itself.
LEMMA FreshShape ==
  ASSUME NEW s, NEW list
  PROVE  EditorShape(Fresh(s, list)) /\ Fresh(s, list).check = Nothing
BY DEF Fresh, EditorShape

LEMMA MountFits ==
  ASSUME NEW s, NEW list, Mount(s, list)
  PROVE  EditInv'
<1> DEFINE e == Fresh(s, list)
           r == current(e)
<1>1. EditorShape(e) /\ e.check = Nothing
  BY FreshShape
<1>2. CASE editor' = Nothing /\ previews' = {}
  BY <1>2 DEF EditInv, PreviewsFit, Fits
<1>3. CASE editor' = Checked(e, r) /\ previews' = Asked(r)
  <2>1. \A c \in {} : PreviewShape(c) /\ ~c.current
    OBVIOUS
  <2>2. /\ EditorShape(Checked(e, r)) /\ Fits(Checked(e, r))
        /\ \A c \in {} \cup Asked(r) : PreviewShape(c)
        /\ PreviewsFit(Checked(e, r), {} \cup Asked(r))
    BY <1>1, <2>1, CheckedFits
  <2>3. {} \cup Asked(r) = Asked(r)
    OBVIOUS
  <2>4. QED
    BY <1>3, <2>2, <2>3 DEF EditInv, PreviewsFit, Fits, EditorShape, PreviewShape
<1>4. CASE editor' = e /\ previews' = {}
  BY <1>1, <1>4 DEF EditInv, PreviewsFit, Fits, EditorShape
<1>5. QED
  BY <1>2, <1>3, <1>4 DEF Mount

\* Nothing of the editor changes.
LEMMA SameEditorFits ==
  ASSUME EditInv, UNCHANGED <<editor, previews>>
  PROVE  EditInv'
BY DEF EditInv, PreviewsFit, Fits, EditorShape, PreviewShape

LEMMA ShowFits ==
  ASSUME EditInv, NEW s, Show(s)
  PROVE  EditInv'
BY MountFits, SameEditorFits DEF Show

\* The fields of the editor that its own steps set.
LEMMA FieldsKeepShape ==
  ASSUME NEW e, EditorShape(e), NEW x, NEW d, NEW m, NEW y,
         \/ x = [e EXCEPT !.draft = d]
         \/ x = [e EXCEPT !.yaml = y]
         \/ x = [e EXCEPT !.mode = m]
         \/ x = [e EXCEPT !.mode = m, !.draft = d]
         \/ x = [e EXCEPT !.mode = m, !.yaml = y]
  PROVE  EditorShape(x) /\ x.check = e.check
<1>1. PICK rule, new, draft, mode, yaml, check :
        e = [rule |-> rule, isNew |-> new, draft |-> draft, mode |-> mode, yaml |-> yaml,
             check |-> check]
  BY DEF EditorShape
<1> DEFINE e1 == [e EXCEPT !.mode = m]
<1>2. e1 = [rule |-> rule, isNew |-> new, draft |-> draft, mode |-> m, yaml |-> yaml,
            check |-> check]
  BY <1>1
<1>3. \/ x = [e EXCEPT !.draft = d]
      \/ x = [e EXCEPT !.yaml = y]
      \/ x = e1
      \/ x = [e1 EXCEPT !.draft = d]
      \/ x = [e1 EXCEPT !.yaml = y]
  OBVIOUS
<1> HIDE DEF e1
<1>4. \E d0, m0, y0 : x = [rule |-> rule, isNew |-> new, draft |-> d0, mode |-> m0,
                          yaml |-> y0, check |-> check]
  <2>1. CASE x = [e EXCEPT !.draft = d]
    BY <1>1, <2>1
  <2>2. CASE x = [e EXCEPT !.yaml = y]
    BY <1>1, <2>2
  <2>3. CASE x = e1
    BY <1>2, <2>3
  <2>4. CASE x = [e1 EXCEPT !.draft = d]
    BY <1>2, <2>4
  <2>5. CASE x = [e1 EXCEPT !.yaml = y]
    BY <1>2, <2>5
  <2>6. QED
    BY <1>3, <2>1, <2>2, <2>3, <2>4, <2>5
<1>5. QED
  BY <1>1, <1>4 DEF EditorShape

LEMMA CheckLeftShape ==
  ASSUME NEW e, EditorShape(e), NEW x, NEW d,
         \/ x = [e EXCEPT !.check = Nothing]
         \/ x = [e EXCEPT !.check = Nothing, !.draft = d]
  PROVE  EditorShape(x) /\ x.check = Nothing
<1>1. PICK rule, new, draft, mode, yaml, check :
        e = [rule |-> rule, isNew |-> new, draft |-> draft, mode |-> mode, yaml |-> yaml,
             check |-> check]
  BY DEF EditorShape
<1> DEFINE e1 == [e EXCEPT !.check = Nothing]
<1>2. e1 = [rule |-> rule, isNew |-> new, draft |-> draft, mode |-> mode, yaml |-> yaml,
            check |-> Nothing]
  BY <1>1
<1>3. x = e1 \/ x = [e1 EXCEPT !.draft = d]
  OBVIOUS
<1> HIDE DEF e1
<1>4. \E d0 : x = [rule |-> rule, isNew |-> new, draft |-> d0, mode |-> mode,
                  yaml |-> yaml, check |-> Nothing]
  <2>1. CASE x = e1
    BY <1>2, <2>1
  <2>2. CASE x = [e1 EXCEPT !.draft = d]
    BY <1>2, <2>2
  <2>3. QED
    BY <1>3, <2>1, <2>2
<1>5. QED
  BY <1>4 DEF EditorShape

\* A step of the mounted editor that sends nothing.
StaysMounted == editor # Nothing /\ EditorShape(editor') /\ UNCHANGED <<sel, saves>>

\* The editor sets fields other than its check page.
LEMMA FieldsSetFit ==
  ASSUME EditInv, editor # Nothing, UNCHANGED <<previews, sel, saves>>, NEW d, NEW m, NEW y,
         \/ editor' = [editor EXCEPT !.draft = d]
         \/ editor' = [editor EXCEPT !.yaml = y]
         \/ editor' = [editor EXCEPT !.mode = m]
         \/ editor' = [editor EXCEPT !.mode = m, !.draft = d]
         \/ editor' = [editor EXCEPT !.mode = m, !.yaml = y]
  PROVE  EditInv' /\ StaysMounted
<1>1. EditorShape(editor)
  BY DEF EditInv
<1>2. EditorShape(editor') /\ editor'.check = editor.check
  BY <1>1, FieldsKeepShape
<1>3. QED
  BY <1>2, CheckUnchangedFits DEF StaysMounted

LEMMA EditFits ==
  ASSUME EditInv, NEW d, Edit(d)
  PROVE  EditInv' /\ StaysMounted
BY FieldsSetFit DEF Edit, Editing, Set

LEMMA UserEditsFit ==
  ASSUME EditInv, UserEdits
  PROVE  EditInv' /\ StaysMounted
<1>1. ASSUME NEW r, YamlWrites(r) PROVE EditInv' /\ StaysMounted
  BY <1>1, FieldsSetFit DEF YamlWrites, Editing, Set
<1>2. ASSUME \E d : Edit(d) PROVE EditInv' /\ StaysMounted
  BY <1>2, EditFits
<1>3. CASE \E k \in UsedKinds : PickKind(k)
  BY <1>2, <1>3 DEF PickKind
<1>4. CASE \E a \in {"alert", "kill", "dry"} : PickAct(a)
  BY <1>2, <1>4 DEF PickAct
<1>5. CASE \E n \in {"", "ok", "bad"} : PickLimit(n)
  BY <1>2, <1>5 DEF PickLimit
<1>6. CASE \E i \in PolicyIds \cup BadIds : PickId(i)
  BY <1>2, <1>6 DEF PickId
<1>7. CASE \E xs \in Texts : PickScope(xs)
  BY <1>2, <1>7 DEF PickScope
<1>8. CASE \E g \in {"block", "allow"}, p \in Pieces : ChipAdds(g, p)
  BY <1>2, <1>8 DEF ChipAdds
<1>9. CASE \E f \in UsedFields, p \in Pieces : ChipRemoves(f, p)
  BY <1>2, <1>9 DEF ChipRemoves
<1>10. CASE \E f \in UsedFields, xs \in Texts : FormWrites(f, xs)
  BY <1>2, <1>10 DEF FormWrites
<1>11. CASE PickDisabled
  BY <1>2, <1>11 DEF PickDisabled
<1>12. QED
  BY <1>1, <1>3, <1>4, <1>5, <1>6, <1>7, <1>8, <1>9, <1>10, <1>11 DEF UserEdits

LEMMA SwitchModeFits ==
  ASSUME EditInv, NEW m, switchMode(m)
  PROVE  EditInv' /\ StaysMounted
<1>1. editor # Nothing /\ UNCHANGED <<previews, sel, saves>>
  BY DEF switchMode, Editing, Set
<1>2. \E d, y : \/ editor' = [editor EXCEPT !.mode = m]
               \/ editor' = [editor EXCEPT !.mode = m, !.draft = d]
               \/ editor' = [editor EXCEPT !.mode = m, !.yaml = y]
  BY DEF switchMode, Set
<1>3. QED
  BY <1>1, <1>2, FieldsSetFit

LEMMA OpenCheckFits ==
  ASSUME EditInv, openCheck
  PROVE  EditInv' /\ StaysMounted
<1> DEFINE r == current(editor)
<1>1. /\ editor' = Checked(editor, r) /\ previews' = Drop(previews) \cup Asked(r)
      /\ EditorShape(editor)
  BY DEF openCheck, Editing, EditInv
<1>2. \A c \in Drop(previews) : PreviewShape(c) /\ ~c.current
  BY DroppedFit DEF EditInv
<1>3. /\ EditorShape(Checked(editor, r)) /\ Fits(Checked(editor, r))
      /\ \A c \in Drop(previews) \cup Asked(r) : PreviewShape(c)
      /\ PreviewsFit(Checked(editor, r), Drop(previews) \cup Asked(r))
  BY <1>1, <1>2, CheckedFits
<1>4. StaysMounted
  BY <1>1, <1>3 DEF StaysMounted, openCheck, Editing
<1>5. QED
  BY <1>1, <1>3, <1>4 DEF EditInv, PreviewsFit, Fits, EditorShape, PreviewShape

LEMMA BackToEditFits ==
  ASSUME EditInv, BackToEdit
  PROVE  EditInv' /\ StaysMounted
<1>1. EditorShape(editor) /\ editor' = [editor EXCEPT !.check = Nothing]
      /\ previews' = Drop(previews)
  BY DEF BackToEdit, EditInv
<1>2. EditorShape(editor') /\ editor'.check = Nothing
  BY <1>1, CheckLeftShape
<1>3. QED
  BY <1>1, <1>2, CheckLeftFits DEF StaysMounted, BackToEdit

\* The answer of a preview that counts is shown beside its own rule.
LEMMA PreviewTakenFits ==
  ASSUME EditInv, NEW c \in previews, PreviewTaken(c)
  PROVE  EditInv' /\ (UNCHANGED editor \/ (c.current /\ EditorShape(editor')))
<1>1. previews' = previews \ {c}
  BY DEF PreviewTaken
<1>2. \A b \in previews' : PreviewShape(b)
  BY <1>1 DEF EditInv
<1>3. CASE ~c.current
  <2>1. editor' = editor
    BY <1>3 DEF PreviewTaken
  <2>2. PreviewsFit(editor', previews')
    BY <1>1, <2>1 DEF EditInv, PreviewsFit
  <2>3. Fits(editor') /\ (editor' # Nothing => EditorShape(editor'))
    BY <2>1 DEF EditInv, Fits
  <2>4. EditInv'
    <3>1. PreviewsFit(editor, previews)'
      BY <2>2 DEF PreviewsFit, EditorShape
    <3>2. Fits(editor)' /\ (editor # Nothing => EditorShape(editor))'
      BY <2>3 DEF Fits, EditorShape
    <3>3. (\A b \in previews : PreviewShape(b))'
      BY <1>2 DEF PreviewShape
    <3>4. QED
      BY <3>1, <3>2, <3>3 DEF EditInv
  <2>5. QED
    BY <2>1, <2>4
<1>4. CASE c.current
  <2>1. PICK p : editor.check = [rule |-> c.rule, preview |-> p]
    BY <1>4 DEF EditInv, PreviewsFit
  <2>2. PICK rule, new, draft, mode, yaml, check :
          editor = [rule |-> rule, isNew |-> new, draft |-> draft, mode |-> mode,
                    yaml |-> yaml, check |-> check]
    BY <1>4 DEF EditInv, PreviewsFit, EditorShape
  <2>3. check = [rule |-> c.rule, preview |-> p]
    BY <2>1, <2>2
  <2>4. [check EXCEPT !.preview = c.rule] = [rule |-> c.rule, preview |-> c.rule]
    BY <2>3
  <2>5. editor' = [editor EXCEPT !.check = [check EXCEPT !.preview = c.rule]]
    BY <1>4, <2>2 DEF PreviewTaken
  <2>6. editor' = [rule |-> rule, isNew |-> new, draft |-> draft, mode |-> mode,
                   yaml |-> yaml, check |-> [rule |-> c.rule, preview |-> c.rule]]
    BY <2>2, <2>4, <2>5
  <2>7. EditorShape(editor')
    BY <2>6 DEF EditorShape
  <2>8. editor'.check = [rule |-> c.rule, preview |-> c.rule]
    BY <2>6
  <2>9. editor'.check.preview = editor'.check.rule
    BY <2>8
  <2>10. ASSUME NEW b \in previews', b.current
         PROVE  \E q : editor'.check = [rule |-> b.rule, preview |-> q]
    <3>1. PICK q : editor.check = [rule |-> b.rule, preview |-> q]
      BY <1>1, <2>10 DEF EditInv, PreviewsFit
    <3>2. b.rule = c.rule
      BY <2>1, <3>1
    <3>3. QED
      BY <2>8, <3>2
  <2>11. PreviewsFit(editor', previews')
    BY <2>7, <2>10 DEF PreviewsFit
  <2>12. Fits(editor')
    BY <2>9 DEF Fits
  <2>13. QED
    BY <1>2, <1>4, <2>7, <2>11, <2>12 DEF EditInv, PreviewsFit, Fits, EditorShape, PreviewShape
<1>5. QED
  BY <1>3, <1>4

\* A save that is answered takes its editor from the check page, if it still is
\* the one that is mounted.
LEMMA SaveTakenFits ==
  ASSUME EditInv, NEW c \in saves, SaveTaken(c), c.mine => EditorShape(editor)
  PROVE  EditInv'
<1>1. CASE \E s : Mount(s, rules)
  BY <1>1, MountFits
<1>2. CASE UNCHANGED <<editor, previews>>
  BY <1>2, SameEditorFits
<1>3. CASE /\ c.mine /\ previews' = Drop(previews)
           /\ \E d : \/ editor' = [editor EXCEPT !.check = Nothing]
                     \/ editor' = [editor EXCEPT !.check = Nothing, !.draft = d]
  <2>1. EditorShape(editor)
    BY <1>3
  <2>2. EditorShape(editor') /\ editor'.check = Nothing
    BY <1>3, <2>1, CheckLeftShape
  <2>3. QED
    BY <1>3, <2>2, CheckLeftFits
<1>4. QED
  BY <1>1, <1>2, <1>3 DEF SaveTaken

\* What the page waits for belongs to the editor that is mounted.
SaveShape(c) == \E rule, own, at : c = [rule |-> rule, mine |-> own, at |-> at]

OwnersInv ==
  /\ \A c \in saves : SaveShape(c)
  /\ editor # Nothing => sel # Nothing
  /\ \A c \in saves : c.mine => sel # Nothing /\ EditorShape(editor)
  /\ \A c \in previews : c.current => sel # Nothing

PolicyEditInv == EditInv /\ OwnersInv

\* A save that nobody waits for stays one.
LEMMA DisownedShape ==
  ASSUME NEW cs, \A c \in cs : SaveShape(c)
  PROVE  \A c \in Disown(cs) : SaveShape(c) /\ ~c.mine
<1> SUFFICES ASSUME NEW c \in cs
             PROVE  /\ SaveShape([c EXCEPT !.mine = FALSE])
                    /\ ~[c EXCEPT !.mine = FALSE].mine
  BY DEF Disown
<1>1. PICK rule, own, at : c = [rule |-> rule, mine |-> own, at |-> at]
  BY DEF SaveShape
<1>2. \A x : [c EXCEPT !.mine = x] = [rule |-> rule, mine |-> x, at |-> at]
  BY <1>1
<1>3. [c EXCEPT !.mine = FALSE] = [rule |-> rule, mine |-> FALSE, at |-> at]
  BY <1>2
<1>4. QED
  BY <1>3 DEF SaveShape

\* Nobody waits for a save any more.
LEMMA NobodyWaitsOwns ==
  ASSUME \A c \in saves' : SaveShape(c) /\ ~c.mine,
         sel' # Nothing \/ (editor' = Nothing /\ \A c \in previews' : ~c.current)
  PROVE  OwnersInv'
<1>1. \A c \in saves' : SaveShape(c)'
  BY DEF SaveShape
<1>2. \A c \in saves' : ~c.mine
  OBVIOUS
<1>3. (editor' # Nothing => sel' # Nothing) /\ \A c \in previews' : c.current => sel' # Nothing
  OBVIOUS
<1>4. QED
  BY <1>1, <1>2, <1>3 DEF OwnersInv, SaveShape

\* A mounted editor has something selected.
LEMMA MountOwns ==
  ASSUME OwnersInv, NEW s, NEW list, Mount(s, list), sel' = s,
         \A c \in saves' : SaveShape(c) /\ ~c.mine
  PROVE  OwnersInv'
<1>1. editor' # Nothing \/ previews' # {} => s # Nothing
  BY DEF Mount
<1>2. QED
  BY <1>1 DEF OwnersInv, SaveShape, EditorShape

\* Nothing is sent and the selection stays.
LEMMA SameSavesOwn ==
  ASSUME OwnersInv, UNCHANGED <<sel, saves>>, EditorShape(editor) => EditorShape(editor'),
         sel # Nothing \/ UNCHANGED <<editor, previews>>
  PROVE  OwnersInv'
<1>1. \A c \in saves' : c.mine => sel' # Nothing /\ EditorShape(editor)'
  BY DEF OwnersInv, EditorShape
<1>2. \A c \in saves' : SaveShape(c)
  BY DEF OwnersInv
<1>3. (editor' # Nothing => sel' # Nothing) /\ \A c \in previews' : c.current => sel' # Nothing
  BY DEF OwnersInv
<1>4. QED
  BY <1>1, <1>2, <1>3 DEF OwnersInv, SaveShape

LEMMA StaysMountedOwns ==
  ASSUME OwnersInv, StaysMounted
  PROVE  OwnersInv'
<1>1. sel # Nothing /\ EditorShape(editor')
  BY DEF OwnersInv, StaysMounted
<1>2. QED
  BY <1>1, SameSavesOwn DEF StaysMounted

LEMMA PolicyEditInvInit ==
  PolicyEditInit => PolicyEditInv
<1> SUFFICES ASSUME PolicyEditInit PROVE PolicyEditInv
  OBVIOUS
<1>1. previews = {} /\ saves = {}
  BY DEF PolicyEditInit
<1>2. CASE editor = Nothing
  BY <1>1, <1>2 DEF PolicyEditInv, EditInv, OwnersInv, PreviewsFit, Fits
<1>3. CASE editor = Fresh(sel, Nothing) /\ sel # Nothing
  BY <1>1, <1>3, FreshShape DEF PolicyEditInv, EditInv, OwnersInv, PreviewsFit, Fits
<1>4. QED
  BY <1>2, <1>3 DEF PolicyEditInit

\* The list of the rules arrives: the editor stays, or another is mounted.
LEMMA RulesTakenKeeps ==
  ASSUME PolicyEditInv, RulesTaken
  PROVE  PolicyEditInv'
<1>1. UNCHANGED sel
  BY DEF RulesTaken
<1>2. CASE UNCHANGED <<editor, previews, saves>>
  BY <1>1, <1>2, SameEditorFits, SameSavesOwn DEF PolicyEditInv
<1>3. CASE Mount(sel, rules') /\ saves' = Disown(saves)
  <2>1. \A c \in saves' : SaveShape(c) /\ ~c.mine
    BY <1>3, DisownedShape DEF PolicyEditInv, OwnersInv
  <2>2. QED
    BY <1>1, <1>3, <2>1, MountFits, MountOwns DEF PolicyEditInv
<1>4. QED
  BY <1>2, <1>3 DEF RulesTaken

\* Something else is selected while nobody waits for a save.
LEMMA ShowKeeps ==
  ASSUME PolicyEditInv, NEW s, Show(s), \A c \in saves' : SaveShape(c) /\ ~c.mine
  PROVE  PolicyEditInv'
<1>1. EditInv'
  BY ShowFits DEF PolicyEditInv
<1>2. ASSUME UNCHANGED <<sel, editor, previews>> PROVE OwnersInv'
  <2>1. sel # Nothing \/ (editor = Nothing /\ \A c \in previews : ~c.current)
    BY DEF PolicyEditInv, OwnersInv
  <2>2. QED
    BY <1>2, <2>1, NobodyWaitsOwns
<1>3. ASSUME sel' = s, Mount(s, rules) PROVE OwnersInv'
  BY <1>3, MountOwns DEF PolicyEditInv
<1>4. OwnersInv'
  BY <1>2, <1>3 DEF Show
<1>5. QED
  BY <1>1, <1>4 DEF PolicyEditInv

\* A save is sent, or carried out by the server.
LEMMA SavesMoveKeeps ==
  ASSUME PolicyEditInv, SaveSent \/ \E c \in saves : SaveDone(c)
  PROVE  PolicyEditInv'
<1>1. UNCHANGED <<editor, previews, sel>>
  BY DEF SaveSent, SaveDone
<1>2. EditInv'
  BY <1>1, SameEditorFits DEF PolicyEditInv
<1>3. \A c \in saves' : /\ SaveShape(c)
                        /\ c.mine => sel # Nothing /\ EditorShape(editor)
  <2>1. CASE SaveSent
    <3>1. editor # Nothing
      BY <2>1 DEF SaveSent
    <3>2. EditorShape(editor) /\ sel # Nothing
      BY <3>1 DEF PolicyEditInv, EditInv, OwnersInv
    <3>3. \A c \in saves' : c \in saves
             \/ c = [rule |-> editor.check.rule, mine |-> TRUE, at |-> "sent"]
      BY <2>1 DEF SaveSent
    <3>4. QED
      BY <3>2, <3>3 DEF PolicyEditInv, OwnersInv, SaveShape
  <2>2. ASSUME NEW c \in saves, SaveDone(c)
        PROVE  \A d \in saves' : /\ SaveShape(d)
                                 /\ d.mine => sel # Nothing /\ EditorShape(editor)
    <3>1. PICK rule, own, at : c = [rule |-> rule, mine |-> own, at |-> at]
      BY DEF PolicyEditInv, OwnersInv, SaveShape
    <3>2. PICK x : saves' = (saves \ {c}) \cup {[c EXCEPT !.at = x]}
      BY <2>2 DEF SaveDone
    <3>3. [c EXCEPT !.at = x] = [rule |-> rule, mine |-> own, at |-> x]
      BY <3>1
    <3>4. saves' = (saves \ {c}) \cup {[rule |-> rule, mine |-> own, at |-> x]}
      BY <3>2, <3>3
    <3>5. own => sel # Nothing /\ EditorShape(editor)
      BY <3>1 DEF PolicyEditInv, OwnersInv
    <3>6. QED
      BY <3>4, <3>5 DEF PolicyEditInv, OwnersInv, SaveShape
  <2>3. QED
    BY <2>1, <2>2
<1>4. OwnersInv'
  BY <1>1, <1>3 DEF PolicyEditInv, OwnersInv, SaveShape, EditorShape
<1>5. QED
  BY <1>2, <1>4 DEF PolicyEditInv

LEMMA SaveTakenKeeps ==
  ASSUME PolicyEditInv, NEW c \in saves, SaveTaken(c)
  PROVE  PolicyEditInv'
<1>1. EditInv'
  BY SaveTakenFits DEF PolicyEditInv, OwnersInv
<1>2. \A b \in saves' : SaveShape(b) /\ ~b.mine
  BY DisownedShape DEF SaveTaken, PolicyEditInv, OwnersInv
<1>3. ASSUME NEW s, Mount(s, rules), sel' = s PROVE OwnersInv'
  BY <1>2, <1>3, MountOwns DEF PolicyEditInv
<1>4. ASSUME UNCHANGED <<sel, editor, previews>> PROVE OwnersInv'
  <2>1. sel # Nothing \/ (editor = Nothing /\ \A b \in previews : ~b.current)
    BY DEF PolicyEditInv, OwnersInv
  <2>2. QED
    BY <1>2, <1>4, <2>1, NobodyWaitsOwns
<1>5. ASSUME c.mine, UNCHANGED sel PROVE OwnersInv'
  <2>1. sel # Nothing
    BY <1>5 DEF PolicyEditInv, OwnersInv
  <2>2. QED
    BY <1>2, <1>5, <2>1, NobodyWaitsOwns
<1>6. OwnersInv'
  BY <1>3, <1>4, <1>5 DEF SaveTaken
<1>7. QED
  BY <1>1, <1>6 DEF PolicyEditInv

LEMMA PolicyEditInvNext ==
  PolicyEditInv /\ [PolicyEditNext]_policyEditVars => PolicyEditInv'
<1> SUFFICES ASSUME PolicyEditInv, [PolicyEditNext]_policyEditVars PROVE PolicyEditInv'
  OBVIOUS
<1>1. ASSUME EditInv', StaysMounted PROVE PolicyEditInv'
  BY <1>1, StaysMountedOwns DEF PolicyEditInv
<1>2. ASSUME UNCHANGED pageVars PROVE PolicyEditInv'
  BY <1>2, SameEditorFits, SameSavesOwn DEF PolicyEditInv, pageVars
<1>3. CASE UNCHANGED policyEditVars
  BY <1>2, <1>3 DEF policyEditVars
<1>4. CASE RulesAnswered \/ \E i \in PolicyIds : OtherSaves(i)
  BY <1>2, <1>4 DEF RulesAnswered, OtherSaves
<1>5. CASE RulesTaken
  BY <1>5, RulesTakenKeeps
<1>6. CASE AutoSelects
  <2>1. sel = Nothing /\ saves' = saves
    BY <1>6 DEF AutoSelects
  <2>2. \A c \in saves' : SaveShape(c) /\ ~c.mine
    BY <2>1 DEF PolicyEditInv, OwnersInv
  <2>3. QED
    BY <1>6, <2>2, ShowKeeps DEF AutoSelects
<1>7. ASSUME NEW s \in Selections, SelectPolicy(s) PROVE PolicyEditInv'
  <2>1. \A c \in saves' : SaveShape(c) /\ ~c.mine
    BY <1>7, DisownedShape DEF SelectPolicy, PolicyEditInv, OwnersInv
  <2>2. QED
    BY <1>7, <2>1, ShowKeeps DEF SelectPolicy
<1>8. CASE remove
  <2>1. \A c \in saves' : SaveShape(c) /\ ~c.mine
    BY <1>8 DEF remove, editorBusy, PolicyEditInv, OwnersInv
  <2>2. QED
    BY <1>8, <2>1, ShowKeeps DEF remove
<1>9. CASE UserEdits
  BY <1>1, <1>9, UserEditsFit DEF PolicyEditInv
<1>10. ASSUME NEW m, switchMode(m) PROVE PolicyEditInv'
  BY <1>1, <1>10, SwitchModeFits DEF PolicyEditInv
<1>11. CASE openCheck \/ BackToEdit
  BY <1>1, <1>11, OpenCheckFits, BackToEditFits DEF PolicyEditInv
<1>12. ASSUME NEW c \in previews, PreviewTaken(c) PROVE PolicyEditInv'
  <2>1. EditInv' /\ (UNCHANGED editor \/ (c.current /\ EditorShape(editor')))
    BY <1>12, PreviewTakenFits DEF PolicyEditInv
  <2>2. UNCHANGED <<sel, saves>> /\ previews' \subseteq previews
    BY <1>12 DEF PreviewTaken
  <2>3. CASE UNCHANGED editor
    BY <2>1, <2>2, <2>3 DEF PolicyEditInv, OwnersInv, SaveShape, EditorShape
  <2>4. CASE c.current /\ EditorShape(editor')
    <3>1. sel # Nothing
      BY <2>4 DEF PolicyEditInv, OwnersInv
    <3>2. QED
      BY <2>1, <2>2, <2>4, <3>1, SameSavesOwn DEF PolicyEditInv
  <2>5. QED
    BY <2>1, <2>3, <2>4
<1>13. CASE SaveSent \/ \E c \in saves : SaveDone(c)
  BY <1>13, SavesMoveKeeps
<1>14. ASSUME NEW c \in saves, SaveTaken(c) PROVE PolicyEditInv'
  BY <1>14, SaveTakenKeeps
<1>15. QED
  BY <1>3, <1>4, <1>5, <1>6, <1>7, <1>8, <1>9, <1>10, <1>11, <1>12, <1>13, <1>14
     DEF PolicyEditNext

\* In the policy editor the preview shown on the check page is always the one of
\* the rule that "save" sends, although the administrator may go back, edit and
\* check again while previews and saves of before are still being answered, and
\* may select another policy or reload the list meanwhile (PolicyEditor.tsx).
THEOREM PreviewAlwaysFitsRule == PolicyEditSpec => []PreviewFitsRule
<1>1. PolicyEditInv => PreviewFitsRule
  BY DEF PolicyEditInv, EditInv, Fits, PreviewFitsRule
<1>2. QED
  BY <1>1, PolicyEditInvInit, PolicyEditInvNext, PTL DEF PolicyEditSpec
=============================================================================
