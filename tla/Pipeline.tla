------------------------------ MODULE Pipeline ------------------------------
(***************************************************************************)
(* The evaluation pipeline of the backend (internal/pipeline): kernel      *)
(* events are scoped, judged by the rule engine, isolated with a Docker    *)
(* kill when a kill rule matches, and handed to the audit log through a    *)
(* bounded queue.                                                          *)
(*                                                                         *)
(* Four actors interleave: the Run loop (Handle, an unlocked half that     *)
(* reads labels and a half under p.mu), the DNS-grace timers (under p.mu), *)
(* the persist loop and the world (Docker, DNS entries that expire, an     *)
(* operator who replaces the policies or stops the server).                *)
(*                                                                         *)
(* An event is named by its arrival number; what the rules see of it is    *)
(* its kind.  A verdict is abstracted to the combination of Action,        *)
(* DryRun, EnforceSkip, Enforced, EnforceError and Timeline.KilledAt that  *)
(* the code can produce:                                                   *)
(*   normal     no rule matched                                            *)
(*   alert      an alert rule won                                          *)
(*   dryRun     a kill held back by the rule or by ENFORCE_KILL=false      *)
(*   skipped    a kill outside the enforcement scope                       *)
(*   killed     Enforced and KilledAt set: Docker confirmed the kill       *)
(*   residual   Enforced by the dedupe map, without a kill request         *)
(*   gone       EnforceError: the container had stopped or was removed     *)
(*   failed     EnforceError of any other sort                             *)
(***************************************************************************)
EXTENDS Integers, Sequences, FiniteSets

CONSTANTS
  Containers,       \* container IDs
  Kinds,            \* Kinds[c]: the kinds of events the source delivers of c
  Ignored,          \* containers matching IgnoreContainers
  WatchAll,         \* WatchContainers is empty
  WatchNames,       \* containers whose name matches WatchContainers
  WatchLabelled,    \* containers that carry supplyguard.watch=true
  ScopedEnforce,    \* Options.Enforce is set
  EnforceNames,     \* containers whose name matches EnforceScope.Names
  EnforceLabelled,  \* containers with an enforce, sandbox or demo label
  BlockedImages,    \* containers whose image is on the block list
  EnforceKill,      \* ENFORCE_KILL
  DNSGrace,         \* DNSGrace > 0
  NormalRate,       \* Options.NormalEventRate
  PersistQueue,     \* capacity of the persist channel
  KillDedupe,       \* killDedupe, in ticks of the clock
  MaxTime,          \* bound on the clock
  MaxEvents         \* bound on the number of events the source delivers

AllKinds == {"start", "exit", "answer", "connect", "normal", "alert",
             "killDry", "kill", "step1", "step2"}
HostNames == {"good", "bad"}
NoHost == "noHost"
Never == -1
Ids == 1 .. MaxEvents
NoEvent == 0

Matched == {"alert", "dryRun", "skipped", "killed", "residual", "gone", "failed"}
Verdicts == Matched \cup {"normal", "lifecycle"}
Unjudged == "unjudged"

ASSUME ConstantsAssumption ==
  /\ Kinds \in [Containers -> SUBSET AllKinds]
  /\ WatchAll \in BOOLEAN /\ ScopedEnforce \in BOOLEAN
  /\ EnforceKill \in BOOLEAN /\ DNSGrace \in BOOLEAN
  /\ NormalRate \in Nat /\ KillDedupe \in Nat
  /\ MaxTime \in Nat /\ MaxEvents \in Nat
  /\ PersistQueue \in Nat \ {0}

VARIABLES
  docker,     \* the real state of each container, as Docker knows it
  now,        \* the wall clock
  events,     \* events[i]: container, kind and timestamp of the i-th event
  nextId,     \* number of the next event
  cur,        \* the event between the two halves of Handle, or NoEvent
  timers,     \* events waiting for their DNS grace (time.AfterFunc)
  chain,      \* containers with a sequence rule in progress (engine.seq)
  name,       \* the name the resolver gives the destination address, if any
  lc,         \* labelCache: unset, known or failed per container
  killed,     \* Pipeline.killed: time of the isolation, or Never
  rateSec,    \* second of the normal-event rate limit
  rateCount,  \* normal events streamed since rateSec was set
  verdict,    \* what emit was called with for each event
  queue,      \* the persist channel
  audit,      \* rows of the audit log
  isolation,  \* events review.AuditSaved was called for
  ctxDone,    \* the server context is cancelled
  closed,     \* Pipeline.closed
  open,       \* the persist channel is open
  drained,    \* persistLoop has returned
  confirmed,  \* history: time of the last kill Docker confirmed, per container
  requests,   \* history: containers a kill request was sent for
  streamed    \* history: normal verdicts broadcast, per second of the event

world == <<docker, now, ctxDone>>
intake == <<events, nextId, cur, timers>>
caches == <<chain, name, lc, killed, rateSec, rateCount>>
sink == <<verdict, queue, audit, isolation>>
stopping == <<closed, open, drained>>
history == <<confirmed, requests, streamed>>
vars == <<world, intake, caches, sink, stopping, history>>

DockerStates == {"running", "stopped", "rerun"}
Running(c) == docker[c] \in {"running", "rerun"}
Event == [c : Containers, kind : AllKinds, ts : 0 .. MaxTime]
NoRecord == [kind |-> "none"]

TypeOK ==
  /\ docker \in [Containers -> DockerStates]
  /\ now \in 0 .. MaxTime
  /\ events \in [Ids -> Event \cup {NoRecord}]
  /\ nextId \in 1 .. MaxEvents + 1
  /\ cur \in Ids \cup {NoEvent}
  /\ timers \subseteq Ids
  /\ chain \subseteq Containers
  /\ name \in HostNames \cup {NoHost}
  /\ lc \in [Containers -> {"unset", "known", "failed"}]
  /\ killed \in [Containers -> 0 .. MaxTime \cup {Never}]
  /\ rateSec \in 0 .. MaxTime \cup {Never}
  /\ rateCount \in 0 .. NormalRate
  /\ verdict \in [Ids -> Verdicts \cup {Unjudged}]
  /\ queue \in Seq(Ids) /\ Len(queue) <= PersistQueue
  /\ audit \subseteq Ids
  /\ isolation \subseteq Ids
  /\ ctxDone \in BOOLEAN /\ closed \in BOOLEAN
  /\ open \in BOOLEAN /\ drained \in BOOLEAN
  /\ confirmed \in [Containers -> 0 .. MaxTime \cup {Never}]
  /\ requests \subseteq Containers
  /\ streamed \in [0 .. MaxTime -> Nat]

Init ==
  /\ docker = [c \in Containers |-> "running"]
  /\ now = 0
  /\ events = [i \in Ids |-> NoRecord]
  /\ nextId = 1
  /\ cur = NoEvent
  /\ timers = {}
  /\ chain = {}
  /\ name = NoHost
  /\ lc = [c \in Containers |-> "unset"]
  /\ killed = [c \in Containers |-> Never]
  /\ rateSec = Never
  /\ rateCount = 0
  /\ verdict = [i \in Ids |-> Unjudged]
  /\ queue = <<>>
  /\ audit = {}
  /\ isolation = {}
  /\ ctxDone = FALSE
  /\ closed = FALSE
  /\ open = TRUE
  /\ drained = FALSE
  /\ confirmed = [c \in Containers |-> Never]
  /\ requests = {}
  /\ streamed = [s \in 0 .. MaxTime |-> 0]

-----------------------------------------------------------------------------
(* Scope: watch and enforcement decisions from names and labels.           *)

Watched(c, labels) ==
  /\ c \notin Ignored
  /\ WatchAll \/ c \in WatchNames \/ (labels = "known" /\ c \in WatchLabelled)

\* Mutant: a failed lookup counts as being in the enforcement scope.
MutFailOpen(c, labels) ==
  /\ Watched(c, labels)
  /\ ~ScopedEnforce \/ c \in EnforceNames \cup EnforceLabelled \/ labels = "failed"

Enforceable(c, labels) ==
  /\ Watched(c, labels)
  /\ ~ScopedEnforce \/ c \in EnforceNames \/ (labels = "known" /\ c \in EnforceLabelled)

\* scopeOf asks for labels only when the name does not settle the decision.
NameDecides(c) == c \in Ignored \/ Enforceable(c, "failed")

\* labels(): a cached answer, or one lookup whose failure is cached too.
LabelAnswers(c) ==
  IF lc[c] # "unset" THEN {lc[c]}
  ELSE {"failed"} \cup {l \in {"known"} : ~ctxDone}

-----------------------------------------------------------------------------
(* Rule evaluation, abstracted to what the winning rule asks for.          *)

FirstStep == {"step1", "connect"}

\* A connection without a name is a direct-IP alert, one to "bad" is killed.
SingleRule(kind, host) ==
  IF kind = "kill" \/ (kind = "connect" /\ host = "bad") THEN "kill"
  ELSE IF kind = "killDry" THEN "dry"
  ELSE IF kind = "alert" \/ (kind = "connect" /\ host = NoHost) THEN "alert"
  ELSE "none"

Completes(e) == e.kind = "step2" /\ e.c \in chain

\* engine.Observe: the sequence rule kills, so nothing is stronger once it completes.
Judgement(e, host) == IF Completes(e) THEN "kill" ELSE SingleRule(e.kind, host)

\* advance: a completed sequence is cleared, a first step begins one.
ChainAfter(e) ==
  IF Completes(e) THEN chain \ {e.c}
  ELSE IF e.kind \in FirstStep THEN chain \cup {e.c}
  ELSE chain

-----------------------------------------------------------------------------
(* Enforcement and delivery, both called with p.mu held.                   *)

InDedupe(c) == killed[c] # Never /\ now - killed[c] < KillDedupe

\* Mutant: the comparison of the pruning loop is turned around.
MutPruneYoung(k) ==
  [c \in Containers |-> IF k[c] # Never /\ now - k[c] < KillDedupe THEN Never ELSE k[c]]

\* enforce's last loop: entries older than killDedupe are deleted.
Pruned(k) ==
  [c \in Containers |-> IF k[c] # Never /\ now - k[c] > KillDedupe THEN Never ELSE k[c]]

\* What a kill request can bring: an answer, a lost answer, or an error.
KillOutcomes(c) ==
  IF ctxDone THEN {"failed"}
  ELSE IF Running(c) THEN {"killed", "lost", "failed"} ELSE {"gone", "failed"}

\* The Docker request of enforce and what the three error cases do with it.
Kill(e, newChain, v) ==
  \E o \in KillOutcomes(e.c) :
    LET settled == o \in {"killed", "gone"}
    IN /\ v = (IF o = "lost" THEN "failed" ELSE o)
       /\ docker' = IF o \in {"killed", "lost"}
                    THEN [docker EXCEPT ![e.c] = "stopped"] ELSE docker
       /\ killed' = Pruned(IF settled THEN [killed EXCEPT ![e.c] = now] ELSE killed)
       /\ chain' = IF settled THEN newChain \ {e.c} ELSE newChain
       /\ confirmed' = IF o = "killed" THEN [confirmed EXCEPT ![e.c] = now] ELSE confirmed
       /\ requests' = requests \cup {e.c}

\* enforceAllowed: the scope again, from the cache or from a fresh lookup.
EnforceAllowed(c, l) ==
  /\ l \in LabelAnswers(c)
  /\ lc' = IF NameDecides(c) THEN lc ELSE [lc EXCEPT ![c] = l]

NoKill(newChain) == chain' = newChain /\ UNCHANGED <<docker, killed, confirmed, requests>>

Enforce(e, newChain, v) ==
  \/ /\ ~EnforceKill
     /\ v = "dryRun"
     /\ NoKill(newChain)
     /\ UNCHANGED lc
  \/ /\ EnforceKill
     /\ \E l \in {"unset", "known", "failed"} :
          /\ EnforceAllowed(e.c, l)
          /\ \/ ~Enforceable(e.c, l) /\ v = "skipped" /\ NoKill(newChain)
             \/ Enforceable(e.c, l) /\ InDedupe(e.c) /\ v = "residual" /\ NoKill(newChain)
             \/ Enforceable(e.c, l) /\ ~InDedupe(e.c) /\ Kill(e, newChain, v)

\* allowNormal: up to NormalRate normal verdicts while the second stays the same.
RateAt(sec) == IF sec = rateSec THEN rateCount ELSE 0

\* Mutant: one normal event too many.
MutRateOffByOne(sec) == RateAt(sec) <= NormalRate

RateAllows(sec) == RateAt(sec) < NormalRate

Enqueue(i) == queue' = IF Len(queue) < PersistQueue THEN Append(queue, i) ELSE queue

Emit(i, v) ==
  LET sec == events[i].ts
  IN /\ verdict' = [verdict EXCEPT ![i] = v]
     /\ \/ /\ v # "normal"
           /\ Enqueue(i)
           /\ UNCHANGED <<rateSec, rateCount, streamed>>
        \/ /\ v = "normal"
           /\ rateSec' = sec
           /\ \/ /\ RateAllows(sec)
                 /\ rateCount' = RateAt(sec) + 1
                 /\ streamed' = [streamed EXCEPT ![sec] = @ + 1]
                 /\ Enqueue(i)
              \/ /\ ~RateAllows(sec)
                 /\ rateCount' = RateAt(sec)
                 /\ UNCHANGED <<streamed, queue>>
     /\ UNCHANGED <<audit, isolation>>

\* evaluate: judge, isolate if a kill rule won, emit.
Evaluate(i, host) ==
  LET e == events[i]
      j == Judgement(e, host)
  IN \E v \in Verdicts :
       /\ \/ j = "kill" /\ Enforce(e, ChainAfter(e), v)
          \/ /\ j # "kill"
             /\ <<j, v>> \in {<<"none", "normal">>, <<"alert", "alert">>, <<"dry", "dryRun">>}
             /\ NoKill(ChainAfter(e))
             /\ UNCHANGED lc
       /\ Emit(i, v)

-----------------------------------------------------------------------------
(* The Run loop.                                                           *)

\* An event the source can have read: an exit is reported of a container
\* that has stopped.
Deliverable(c, kind) ==
  kind = "exit" => docker[c] # "running"

Arrives(c, kind) ==
  /\ cur = NoEvent /\ ~closed /\ nextId <= MaxEvents
  /\ kind \in Kinds[c] /\ Deliverable(c, kind)
  /\ events' = [events EXCEPT ![nextId] = [c |-> c, kind |-> kind, ts |-> now]]
  /\ nextId' = nextId + 1

\* Handle, a DNS answer: the resolver learns, nothing is judged.
LearnAnswer(c, host) ==
  /\ Arrives(c, "answer")
  /\ name' = host
  /\ verdict' = [verdict EXCEPT ![nextId] = "lifecycle"]
  /\ UNCHANGED <<world, cur, timers, chain, lc, killed, rateSec, rateCount,
                 queue, audit, isolation, stopping, history>>

\* Handle, the unlocked half: scope and label prefetch.
Receive(c, kind) ==
  /\ kind # "answer"
  /\ Arrives(c, kind)
  /\ \E l \in LabelAnswers(c) :
       LET watched == Watched(c, l)
           asked == ~NameDecides(c) \/ (watched /\ ScopedEnforce)
       IN /\ lc' = IF asked THEN [lc EXCEPT ![c] = l] ELSE lc
          /\ cur' = IF watched THEN nextId ELSE NoEvent
          /\ verdict' = IF watched THEN verdict
                        ELSE [verdict EXCEPT ![nextId] = "lifecycle"]
  /\ UNCHANGED <<world, timers, chain, name, killed, rateSec, rateCount,
                 queue, audit, isolation, stopping, history>>

\* lifecycle, exit: sequence state and labels are forgotten.
HandleExit ==
  /\ cur # NoEvent /\ events[cur].kind = "exit"
  /\ chain' = chain \ {events[cur].c}
  /\ lc' = [lc EXCEPT ![events[cur].c] = "unset"]
  /\ verdict' = [verdict EXCEPT ![cur] = "lifecycle"]
  /\ cur' = NoEvent
  /\ UNCHANGED <<world, events, nextId, timers, name, killed, rateSec,
                 rateCount, queue, audit, isolation, stopping, history>>

\* lifecycle, start: a blocked image takes the same isolation path as a rule.
HandleStart ==
  /\ cur # NoEvent /\ events[cur].kind = "start"
  /\ \/ /\ events[cur].c \in BlockedImages
        /\ \E v \in Verdicts : Enforce(events[cur], chain, v) /\ Emit(cur, v)
     \/ /\ events[cur].c \notin BlockedImages
        /\ verdict' = [verdict EXCEPT ![cur] = "lifecycle"]
        /\ UNCHANGED <<docker, chain, lc, killed, rateSec, rateCount, queue, audit,
                       isolation, history>>
  /\ cur' = NoEvent
  /\ UNCHANGED <<now, ctxDone, events, nextId, timers, name, stopping>>

Deferrable(i) == events[i].kind = "connect" /\ name = NoHost /\ DNSGrace

\* Handle, the locked half: a connect without a name waits for its DNS answer.
Defer ==
  /\ cur # NoEvent /\ Deferrable(cur)
  /\ timers' = timers \cup {cur}
  /\ cur' = NoEvent
  /\ UNCHANGED <<world, events, nextId, caches, sink, stopping, history>>

\* Handle, the locked half: every other event is evaluated at once.
HandleNow ==
  /\ cur # NoEvent /\ events[cur].kind \notin {"start", "exit"} /\ ~Deferrable(cur)
  /\ Evaluate(cur, name)
  /\ cur' = NoEvent
  /\ UNCHANGED <<now, ctxDone, events, nextId, timers, name, stopping>>

\* Run returns between two events: the deferred function sets closed ...
RunEnds ==
  /\ cur = NoEvent /\ ~closed
  /\ closed' = TRUE
  /\ UNCHANGED <<world, intake, caches, sink, open, drained, history>>

\* Mutant: the channel is never closed.
MutNeverClose == closed /\ open /\ UNCHANGED vars

\* ... and then closes the persist channel, without p.mu.
ClosePersist ==
  /\ closed /\ open
  /\ open' = FALSE
  /\ UNCHANGED <<world, intake, caches, sink, closed, drained, history>>

-----------------------------------------------------------------------------
(* The DNS-grace timers and the persist loop.                              *)

\* Mutant: the callback does not look at closed.
MutTimerAfterClose(i) ==
  /\ i \in timers /\ ~ctxDone
  /\ Evaluate(i, name)
  /\ timers' = timers \ {i}
  /\ UNCHANGED <<now, ctxDone, events, nextId, cur, name, stopping>>

\* Mutant: the callback does not look the name up again.
MutTimerNoLookup(i) ==
  /\ i \in timers /\ ~closed /\ ~ctxDone
  /\ Evaluate(i, NoHost)
  /\ timers' = timers \ {i}
  /\ UNCHANGED <<now, ctxDone, events, nextId, cur, name, stopping>>

\* Mutant: the callback waits on as long as there is no name.
MutTimerWaits(i) ==
  /\ i \in timers /\ ~closed /\ ~ctxDone /\ name # NoHost
  /\ Evaluate(i, name)
  /\ timers' = timers \ {i}
  /\ UNCHANGED <<now, ctxDone, events, nextId, cur, name, stopping>>

TimerEvaluates(i) ==
  /\ i \in timers /\ ~closed /\ ~ctxDone
  /\ Evaluate(i, name)
  /\ timers' = timers \ {i}
  /\ UNCHANGED <<now, ctxDone, events, nextId, cur, name, stopping>>

TimerGivesUp(i) ==
  /\ i \in timers /\ (closed \/ ctxDone)
  /\ timers' = timers \ {i}
  /\ UNCHANGED <<world, events, nextId, cur, caches, sink, stopping, history>>

\* Mutant: AuditSaved is called although SaveAudit failed.
MutReportUnsaved ==
  /\ queue # <<>>
  /\ queue' = Tail(queue)
  /\ LET i == Head(queue)
     IN /\ isolation' = IF verdict[i] = "killed" THEN isolation \cup {i} ELSE isolation
        /\ \/ verdict[i] \in Matched /\ audit' = audit \cup {i}
           \/ UNCHANGED audit
  /\ UNCHANGED <<world, intake, caches, verdict, stopping, history>>

\* persistLoop, one verdict: audit row first, then AuditSaved for a real kill.
Persist ==
  /\ queue # <<>>
  /\ queue' = Tail(queue)
  /\ LET i == Head(queue)
     IN \/ /\ verdict[i] \in Matched
           /\ audit' = audit \cup {i}
           /\ isolation' = IF verdict[i] = "killed" THEN isolation \cup {i} ELSE isolation
        \/ UNCHANGED <<audit, isolation>>  \* normal verdict, or SaveAudit failed
  /\ UNCHANGED <<world, intake, caches, verdict, stopping, history>>

PersistLoopEnds ==
  /\ ~open /\ queue = <<>> /\ ~drained
  /\ drained' = TRUE
  /\ UNCHANGED <<world, intake, caches, sink, closed, open, history>>

-----------------------------------------------------------------------------
(* The world.                                                              *)

DockerMoves(c) ==
  /\ \/ Running(c) /\ docker' = [docker EXCEPT ![c] = "stopped"]
     \/ docker[c] = "stopped" /\ docker' = [docker EXCEPT ![c] = "rerun"]
  /\ UNCHANGED <<now, ctxDone, intake, caches, sink, stopping, history>>

Tick ==
  /\ now < MaxTime
  /\ now' = now + 1
  /\ UNCHANGED <<docker, ctxDone, intake, caches, sink, stopping, history>>

\* The lifetime of the resolver's entries ends.
NameExpires ==
  /\ name # NoHost /\ name' = NoHost
  /\ UNCHANGED <<world, intake, chain, lc, killed, rateSec, rateCount, sink,
                 stopping, history>>

\* engine.Replace drops all sequence state.
PoliciesReplaced ==
  /\ chain # {} /\ chain' = {}
  /\ UNCHANGED <<world, intake, name, lc, killed, rateSec, rateCount, sink,
                 stopping, history>>

CancelContext ==
  /\ ~ctxDone /\ ctxDone' = TRUE
  /\ UNCHANGED <<docker, now, intake, caches, sink, stopping, history>>

RunLoop == HandleExit \/ HandleStart \/ Defer \/ HandleNow
Shutdown == RunEnds \/ ClosePersist \/ PersistLoopEnds

Next ==
  \/ \E c \in Containers, h \in HostNames : LearnAnswer(c, h)
  \/ \E c \in Containers : \E k \in Kinds[c] : Receive(c, k)
  \/ HandleExit
  \/ HandleStart
  \/ Defer
  \/ HandleNow
  \/ RunEnds
  \/ ClosePersist
  \/ \E i \in timers : TimerEvaluates(i)
  \/ \E i \in timers : TimerGivesUp(i)
  \/ Persist
  \/ PersistLoopEnds
  \/ \E c \in Containers : DockerMoves(c)
  \/ Tick
  \/ NameExpires
  \/ PoliciesReplaced
  \/ CancelContext

Spec == Init /\ [][Next]_vars

(***************************************************************************)
(* Goroutines that can run do run: the locked half of Handle, the closing  *)
(* of the channel, the persist loop, and every timer that was started.     *)
(* Nothing is assumed of the source, Docker, or the operator.              *)
(***************************************************************************)
Fairness ==
  /\ WF_vars(RunLoop)
  /\ WF_vars(ClosePersist)
  /\ WF_vars(Persist)
  /\ WF_vars(PersistLoopEnds)
  /\ \A i \in Ids : WF_vars(TimerEvaluates(i) \/ TimerGivesUp(i))

FairSpec == Spec /\ Fairness

-----------------------------------------------------------------------------
(* Properties.                                                             *)

(***************************************************************************)
(* A kill request is only ever sent for a container that is in the         *)
(* enforcement scope by its real name and labels, with ENFORCE_KILL on:    *)
(* a failed or forgotten label lookup may hold a kill back but never       *)
(* widens the scope (scope.go Scope, labels; pipeline.go enforce).         *)
(***************************************************************************)
KillOnlyInScope ==
  \A c \in requests :
    /\ EnforceKill /\ c \notin Ignored
    /\ WatchAll \/ c \in WatchNames \cup WatchLabelled
    /\ ScopedEnforce => c \in EnforceNames \cup EnforceLabelled

(***************************************************************************)
(* Nothing is sent on the persist channel once it is closed: a timer that  *)
(* fires during shutdown must not reach emit (pipeline.go closed).         *)
(***************************************************************************)
NoSendAfterClose == [][~open => Len(queue') <= Len(queue)]_vars

(***************************************************************************)
(* Within killDedupe of a kill Docker confirmed, no second kill of that    *)
(* container is confirmed, whatever restarts, timers and the pruning of    *)
(* the killed map do in between (pipeline.go enforce).                     *)
(***************************************************************************)
OneKillPerDedupe ==
  [][\A i \in Ids :
       verdict[i] = Unjudged /\ verdict'[i] = "killed"
         => LET at == confirmed[events[i].c] IN at = Never \/ now - at >= KillDedupe]_vars

(***************************************************************************)
(* An event that waited for its DNS answer is judged a direct-IP           *)
(* connection only if no answer has come by the time the timer fires       *)
(* (pipeline.go Handle, the time.AfterFunc callback).                      *)
(***************************************************************************)
GraceHonoursAnswers ==
  [][\A i \in timers :
       verdict[i] = Unjudged /\ verdict'[i] = "alert"
         => name = NoHost]_vars

(***************************************************************************)
(* The pipeline implements the event ledger: see module Ledger.            *)
(***************************************************************************)
StatusOf(i) ==
  IF verdict[i] # Unjudged THEN verdict[i]
  ELSE IF i >= nextId THEN "new"
  ELSE IF i = cur THEN "taken"
  ELSE IF i \in timers THEN "waiting"
  ELSE "abandoned"

EventLedger ==
  INSTANCE Ledger WITH
    Quiet <- {"normal", "lifecycle"},
    status <- [i \in Ids |-> StatusOf(i)],
    stopping <- closed \/ ctxDone

ImplementsLedger == EventLedger!LSpec

(***************************************************************************)
(* Once Run has returned, the queued verdicts are written, the persist     *)
(* loop ends and no timer is left (pipeline.go Run, persistLoop).          *)
(***************************************************************************)
ShutdownDrains == closed ~> (drained /\ queue = <<>> /\ timers = {})

(***************************************************************************)
(* Every event the source delivered is settled: judged, or the server is   *)
(* stopping.  An event that waits for DNS is not forgotten.                *)
(***************************************************************************)
EveryEventSettles ==
  \A i \in Ids : (i < nextId) ~> (verdict[i] # Unjudged \/ closed \/ ctxDone)

(***************************************************************************)
(* model/event.go says of Verdict.Enforced: whether the container was      *)
(* really terminated, successfully.                                        *)
(***************************************************************************)
EnforcedMeansKilled ==
  \A i \in Ids : verdict[i] \in {"killed", "residual"} => confirmed[events[i].c] # Never

(***************************************************************************)
(* pipeline.go says of allowNormal: normal events are streamed up to       *)
(* NormalEventRate per second only.                                        *)
(***************************************************************************)
NormalRateHolds == \A s \in 0 .. MaxTime : streamed[s] <= NormalRate

=============================================================================
