-------------------------------- MODULE Gate --------------------------------
(***************************************************************************)
(* The console's sign-in gate: AuthProvider (auth-context.tsx), the step   *)
(* screens (AuthScreens.tsx), the global handling of 401 and 403 in        *)
(* lib/api.ts, and the account menu.                                       *)
(*                                                                         *)
(* A request carries the session cookie of the moment it is sent, the      *)
(* server answers it at some later time, and the answer is taken later     *)
(* still; answers overtake each other.  Sessions are numbered in the order *)
(* they were opened.  The server's side is as much of it as the answers    *)
(* show.  Pages are shown only while the gate is "active".                 *)
(***************************************************************************)
EXTENDS Naturals, Requests

CONSTANTS
  GateUsers,
  UsedStages,    \* the states a session may have, of those the code knows
  MaxSessions,   \* bound: sign-ins
  MaxAsked,      \* bound: requests of pages, rechecks and refreshes
  MaxTrouble     \* bound: requests that fail, sessions that end by themselves

ASSUME GateAssumption ==
  /\ Nothing \notin GateUsers
  /\ UsedStages \subseteq {"need_password", "need_license", "need_otp_enroll", "need_otp",
                           "active"}
  /\ MaxSessions \in Nat /\ MaxAsked \in Nat /\ MaxTrouble \in Nat

VARIABLES
  owner, stage,    \* server: user and state of each session
  cookie,          \* the session the browser sends, 0 for none
  gate,            \* "loading", a step of the sign-in, or "active"
  me,              \* the last answer of /api/auth/me, NoMe for null
  who,             \* the user the step screens speak to
  noAuth,          \* the backend knows no sign-in
  calls,           \* requests under way
  asked, trouble   \* history: for the bounds

serverSide == <<owner, stage>>
gateVars == <<owner, stage, cookie, gate, me, who, noAuth, calls, asked, trouble>>

Sessions == 1 .. MaxSessions
Stages == {"need_password", "need_license", "need_otp_enroll", "need_otp", "active"}
Steps == {"login", "password", "license", "otp-enroll", "recovery-codes", "otp"}

\* STEP_OF
StepOf == [need_password |-> "password", need_license |-> "license",
           need_otp_enroll |-> "otp-enroll", need_otp |-> "otp"]

\* What may follow a step that the server accepted (auth.Service).
After == [need_password |-> {"need_license", "need_otp_enroll", "need_otp", "active"},
          need_license |-> {"need_otp_enroll", "need_otp", "active"},
          need_otp_enroll |-> {"active"}, need_otp |-> {"active"}]

NoMe == [user |-> Nothing, stage |-> "none"]
OldMe == [user |-> Nothing, stage |-> "active"]   \* a backend without sign-in
Mes == [user : GateUsers, stage : Stages] \cup {NoMe, OldMe}

Codes == {"waiting", "ok", "unauthorized", "forbidden", "missing", "failed"}
Call(k, st, s) == [kind |-> k, step |-> st, sid |-> s, current |-> TRUE, fresh |-> TRUE,
                   code |-> "waiting", me |-> NoMe, opened |-> 0]
Calls == [kind : {"finish", "refresh", "recheck", "page", "step", "logout"},
          step : Steps \cup {"none"}, sid : 0 .. MaxSessions, current : BOOLEAN,
          fresh : BOOLEAN, code : Codes, me : Mes, opened : 0 .. MaxSessions]

\* gen.current++: the finish() calls under way are no longer the current one.
NewGeneration(cs) ==
  {IF c.kind = "finish" THEN [c EXCEPT !.current = FALSE] ELSE c : c \in cs}

\* History: the calls under way were made before the gate was closed.
Stale(cs) == {[c EXCEPT !.fresh = FALSE] : c \in cs}

\* The shell took AuthScreens down: its step no longer keeps the next one busy.
Unmounted(cs) == {IF c.kind = "step" THEN [c EXCEPT !.current = FALSE] ELSE c : c \in cs}
busy == \E c \in calls : c.kind = "step" /\ c.current

\* A live session's answer to /api/auth/me.
Known(s) == s \in Sessions /\ stage[s] \in Stages
MeOf(s) == [user |-> owner[s], stage |-> stage[s]]
StageOf(s) == IF Known(s) THEN stage[s] ELSE "none"

-----------------------------------------------------------------------------
GateInit ==
  /\ owner = [s \in Sessions |-> Nothing] /\ stage = [s \in Sessions |-> "none"]
  /\ cookie = 0 /\ gate = "loading" /\ me = NoMe /\ who = Nothing
  /\ noAuth = FALSE /\ asked = 0 /\ trouble = 0
  /\ calls = {Call("finish", "none", 0)}

-----------------------------------------------------------------------------
(* The server.                                                             *)

Answered(c, a) == calls' = (calls \ {c}) \cup {a}
ClientUnchanged == UNCHANGED <<cookie, gate, me, who, noAuth, asked>>

AnswersMe(c) ==
  /\ c.kind \in {"finish", "refresh", "recheck"} /\ c.code = "waiting"
  /\ Answered(c, IF Known(c.sid) THEN [c EXCEPT !.code = "ok", !.me = MeOf(c.sid)]
               ELSE [c EXCEPT !.code = "unauthorized"])
  /\ UNCHANGED <<serverSide, trouble>> /\ ClientUnchanged

\* A backend from before sign-in: 404 without JSON for the very first request.
AnswersOld(c) ==
  /\ c.kind = "finish" /\ c.code = "waiting" /\ MaxTrouble > 0
  /\ trouble = 0 /\ \A s \in Sessions : stage[s] = "none"
  /\ trouble' = MaxTrouble
  /\ Answered(c, [c EXCEPT !.code = "missing"])
  /\ UNCHANGED serverSide /\ ClientUnchanged

AnswersLogin(c) ==
  /\ c.kind = "step" /\ c.step = "login" /\ c.code = "waiting" /\ ~noAuth
  /\ \/ \E s \in Sessions, u \in GateUsers, st \in UsedStages :
          /\ \A t \in Sessions : t < s <=> owner[t] # Nothing
          /\ owner' = [owner EXCEPT ![s] = u] /\ stage' = [stage EXCEPT ![s] = st]
          /\ Answered(c, [c EXCEPT !.code = "ok", !.me = [user |-> u, stage |-> st],
                                 !.opened = s])
     \/ Answered(c, [c EXCEPT !.code = "unauthorized"]) /\ UNCHANGED serverSide
  /\ UNCHANGED trouble /\ ClientUnchanged

\* Password, license, one-time code or its enrolment.
AnswersStep(c) ==
  /\ c.kind = "step" /\ c.step # "login" /\ c.code = "waiting"
  /\ \/ \E st \in DOMAIN StepOf :
          /\ StepOf[st] = c.step /\ StageOf(c.sid) = st
          /\ \E next \in After[st] \cap UsedStages :
               /\ stage' = [stage EXCEPT ![c.sid] = next]
               /\ Answered(c, [c EXCEPT !.code = "ok",
                                      !.me = [user |-> owner[c.sid], stage |-> next]])
     \/ /\ ~Known(c.sid)
        /\ Answered(c, [c EXCEPT !.code = "unauthorized"]) /\ UNCHANGED stage
     \/ Known(c.sid) /\ Answered(c, [c EXCEPT !.code = "failed"]) /\ UNCHANGED stage
  /\ UNCHANGED <<owner, trouble>> /\ ClientUnchanged

\* Any other route: 403 says that only administrators may.
AnswersPage(c) ==
  /\ c.kind = "page" /\ c.code = "waiting"
  /\ IF StageOf(c.sid) = "active" \/ noAuth
     THEN \E r \in {"ok", "forbidden"} : Answered(c, [c EXCEPT !.code = r])
     ELSE Answered(c, [c EXCEPT !.code = "unauthorized",
                              !.me = IF Known(c.sid) THEN MeOf(c.sid) ELSE NoMe])
  /\ UNCHANGED <<serverSide, trouble>> /\ ClientUnchanged

AnswersLogout(c) ==
  /\ c.kind = "logout" /\ c.code = "waiting"
  /\ stage' = IF c.sid \in Sessions THEN [stage EXCEPT ![c.sid] = "ended"] ELSE stage
  /\ Answered(c, [c EXCEPT !.code = "ok"])
  /\ UNCHANGED <<owner, trouble>> /\ ClientUnchanged

ServerUnreachable(c) ==
  /\ c.code = "waiting" /\ trouble < MaxTrouble
  /\ trouble' = trouble + 1
  /\ Answered(c, [c EXCEPT !.code = "failed"])
  /\ UNCHANGED serverSide /\ ClientUnchanged

\* A session expires, or an administrator disables its user.
SessionEnds(s) ==
  /\ Known(s) /\ trouble < MaxTrouble
  /\ trouble' = trouble + 1
  /\ stage' = [stage EXCEPT ![s] = "ended"]
  /\ UNCHANGED <<owner, calls>> /\ ClientUnchanged

-----------------------------------------------------------------------------
(* The console.                                                            *)

\* finish(): a new generation asks /api/auth/me; the call that led to it is done.
finish(done) ==
  calls' = NewGeneration(calls \ done) \cup {Call("finish", "none", cookie')}

\* toStep: the screen of a state that is not signed in; anything else is the login.
toStep(st) == gate' = IF st \in DOMAIN StepOf THEN StepOf[st] ELSE "login"

FinishTaken(c) ==
  /\ c.kind = "finish" /\ c.code # "waiting"
  /\ IF ~c.current THEN UNCHANGED <<gate, me, who, noAuth>>
     ELSE \/ /\ c.code = "ok" /\ me' = c.me /\ who' = c.me.user
             /\ IF c.me.stage = "active" THEN gate' = "active" ELSE toStep(c.me.stage)
             /\ UNCHANGED noAuth
          \/ /\ c.code = "missing" /\ noAuth' = TRUE /\ me' = OldMe /\ gate' = "active"
             /\ UNCHANGED who
          \/ /\ c.code \in {"unauthorized", "failed"} /\ gate' = "login"
             /\ UNCHANGED <<me, who, noAuth>>
  /\ calls' = IF gate' = "active" /\ gate # "active" THEN Unmounted(calls \ {c}) ELSE calls \ {c}
  /\ UNCHANGED <<serverSide, cookie, asked, trouble>>

\* refresh(): errors are left to the next 401.
RefreshTaken(c) ==
  /\ c.kind = "refresh" /\ c.code # "waiting"
  /\ calls' = calls \ {c}
  /\ IF c.code # "ok" THEN UNCHANGED <<gate, me>>
     ELSE /\ me' = c.me
          /\ IF c.me.stage = "active" THEN UNCHANGED gate ELSE toStep(c.me.stage)
  /\ UNCHANGED <<serverSide, cookie, who, noAuth, asked, trouble>>

\* authHooks.unauthorized: a new generation, and the step the answer names.
unauthorized(c) ==
  /\ calls' = Stale(NewGeneration(calls \ {c}))
  /\ toStep(c.me.stage)

\* send(): 401 goes to the step it names, 403 asks for the role again.
PageTaken(c) ==
  /\ c.kind = "page" /\ c.code # "waiting"
  /\ \/ c.code = "unauthorized" /\ unauthorized(c)
     \/ /\ c.code = "forbidden" /\ UNCHANGED gate
        /\ calls' = (calls \ {c}) \cup {Call("refresh", "none", cookie)}
     \/ c.code \in {"ok", "failed"} /\ calls' = calls \ {c} /\ UNCHANGED gate
  /\ UNCHANGED <<serverSide, cookie, me, who, noAuth, asked, trouble>>

\* recheckSession(): asked when the live feed was refused.
RecheckTaken(c) ==
  /\ c.kind = "recheck" /\ c.code # "waiting"
  /\ IF c.code = "unauthorized" \/ (c.code = "ok" /\ c.me.stage # "active")
     THEN unauthorized(c) ELSE calls' = calls \ {c} /\ UNCHANGED gate
  /\ UNCHANGED <<serverSide, cookie, me, who, noAuth, asked, trouble>>

\* run() of AuthScreens, with the handlers of its owner: onState, onCodes, onRestart.
StepTaken(c) ==
  /\ c.kind = "step" /\ c.code # "waiting"
  /\ cookie' = IF c.opened = 0 THEN cookie ELSE c.opened
  /\ who' = IF c.code = "ok" /\ c.step = "login" THEN c.me.user ELSE who
  /\ \/ /\ c.code = "ok" /\ c.step # "otp-enroll" /\ c.me.stage = "active"
        /\ finish({c}) /\ UNCHANGED gate
     \/ /\ c.code = "ok" /\ c.step # "otp-enroll" /\ c.me.stage # "active"
        /\ toStep(c.me.stage) /\ calls' = calls \ {c}
     \/ /\ c.code = "ok" /\ c.step = "otp-enroll"
        /\ gate' = "recovery-codes" /\ calls' = calls \ {c}
     \/ /\ c.code \in {"unauthorized", "failed"} /\ calls' = calls \ {c}
        /\ gate' = IF c.code = "unauthorized" /\ c.step # "login" THEN "login" ELSE gate
  /\ UNCHANGED <<serverSide, me, noAuth, asked, trouble>>

\* Mutant: the finish() under way stays the current one.
MutLogout ==
  /\ gate \notin {"loading", "login"} /\ ~noAuth
  /\ \A c \in calls : c.kind # "logout"
  /\ calls' = Stale(calls) \cup {Call("logout", "none", cookie)}
  /\ UNCHANGED <<serverSide, cookie, gate, me, who, noAuth, asked, trouble>>

\* logout(): also behind "sign in with another account".
Logout ==
  /\ gate \notin {"loading", "login"} /\ ~noAuth
  /\ \A c \in calls : c.kind # "logout"
  /\ calls' = Stale(NewGeneration(calls)) \cup {Call("logout", "none", cookie)}
  /\ UNCHANGED <<serverSide, cookie, gate, me, who, noAuth, asked, trouble>>

\* Mutant: the user is forgotten, the pages stay.
MutLogoutTaken(c) ==
  /\ c.kind = "logout" /\ c.code # "waiting"
  /\ calls' = calls \ {c} /\ me' = NoMe
  /\ cookie' = IF c.code = "ok" THEN 0 ELSE cookie
  /\ UNCHANGED <<serverSide, gate, who, noAuth, asked, trouble>>

LogoutTaken(c) ==
  /\ c.kind = "logout" /\ c.code # "waiting"
  /\ calls' = calls \ {c}
  /\ me' = NoMe /\ gate' = "login"
  /\ cookie' = IF c.code = "ok" THEN 0 ELSE cookie
  /\ UNCHANGED <<serverSide, who, noAuth, asked, trouble>>

Submits == ~busy /\ calls' = calls \cup {Call("step", gate, cookie)}

\* LoginStep, PasswordStep, LicenseStep.
SubmitForm ==
  /\ gate \in {"login", "password", "license"} /\ Submits
  /\ UNCHANGED <<serverSide, cookie, gate, me, who, noAuth, asked, trouble>>

\* OtpEnrollStep, OtpStep: a code of the device, or a recovery code.
SubmitCode ==
  /\ gate \in {"otp-enroll", "otp"} /\ Submits
  /\ UNCHANGED <<serverSide, cookie, gate, me, who, noAuth, asked, trouble>>

\* "I have saved them" on the recovery codes.
CodesSaved ==
  /\ gate = "recovery-codes" /\ asked < MaxAsked
  /\ asked' = asked + 1
  /\ UNCHANGED cookie /\ finish({})
  /\ UNCHANGED <<serverSide, gate, me, who, noAuth, trouble>>

\* A page asks, the live feed rechecks, or a page refreshes the account.
AppAsks(k) ==
  /\ gate = "active" /\ asked < MaxAsked
  /\ asked' = asked + 1
  /\ calls' = calls \cup {Call(k, "none", cookie)}
  /\ UNCHANGED <<serverSide, cookie, gate, me, who, noAuth, trouble>>

-----------------------------------------------------------------------------
ServerSteps(c) ==
  \/ AnswersMe(c) \/ AnswersOld(c) \/ AnswersLogin(c) \/ AnswersStep(c) \/ AnswersPage(c)
  \/ AnswersLogout(c) \/ ServerUnreachable(c)

Taken(c) ==
  \/ FinishTaken(c) \/ RefreshTaken(c) \/ PageTaken(c) \/ RecheckTaken(c)
  \/ StepTaken(c) \/ LogoutTaken(c)

GateNext ==
  \/ \E c \in calls : ServerSteps(c) \/ Taken(c)
  \/ \E s \in Sessions : SessionEnds(s)
  \/ Logout \/ SubmitForm \/ SubmitCode \/ CodesSaved
  \/ \E k \in {"page", "recheck", "refresh"} : AppAsks(k)

GateSpec == GateInit /\ [][GateNext]_gateVars
-----------------------------------------------------------------------------
\* Every variable keeps its kind of value.
GateTypeOK ==
  /\ owner \in [Sessions -> GateUsers \cup {Nothing}]
  /\ stage \in [Sessions -> Stages \cup {"none", "ended"}]
  /\ cookie \in 0 .. MaxSessions
  /\ gate \in Steps \cup {"loading", "active"}
  /\ me \in Mes /\ who \in GateUsers \cup {Nothing}
  /\ asked \in Nat /\ trouble \in Nat /\ noAuth \in BOOLEAN
  /\ calls \subseteq Calls

\* The shell is shown only to a signed-in user: whichever of finish, refresh,
\* 401, recheck, step or sign-out came last, an open gate goes with an answer of
\* /api/auth/me that said "active" (the pages take role and name from it).
ShellNeedsSignIn == gate = "active" => me.stage = "active"

\* A gate that was closed by a 401 or by signing out is opened only by a finish()
\* asked afterwards: the generation makes every earlier one void.
ClosedStaysClosed ==
  [][gate # "active" /\ gate' = "active"
       => \E c \in calls \ calls' : c.kind = "finish" /\ c.fresh]_gateVars
=============================================================================
