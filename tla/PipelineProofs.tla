--------------------------- MODULE PipelineProofs ---------------------------
(***************************************************************************)
(* Proofs about the pipeline, for every set of containers, every scope     *)
(* configuration and every bound: type correctness, the scope of kills,    *)
(* the shutdown protocol of the persist channel, the kill dedupe, the DNS  *)
(* grace, and the implementation of the event ledger.                      *)
(***************************************************************************)
EXTENDS Pipeline, SequenceTheorems, TLAPS

(***************************************************************************)
(* The bookkeeping of events: what has not arrived is not judged; the      *)
(* event in the Run loop and those with a timer have arrived, are          *)
(* different, and are not judged; only connections wait for DNS.           *)
(***************************************************************************)
EventInv ==
  /\ \A i \in Ids : i < nextId => events[i] \in Event
  /\ \A i \in Ids : i >= nextId => verdict[i] = Unjudged
  /\ cur # NoEvent => cur < nextId /\ verdict[cur] = Unjudged /\ cur \notin timers
  /\ \A i \in timers : i < nextId /\ verdict[i] = Unjudged /\ events[i].kind = "connect"

TypeInv == TypeOK /\ EventInv

\* The channel is closed after closed is set, and no event is in hand then.
ShutdownInv == (~open => closed) /\ (closed => cur = NoEvent)

\* Queued verdicts are final, distinct and have no audit row yet.
QueueInv ==
  /\ \A n \in 1 .. Len(queue) : verdict[queue[n]] # Unjudged /\ queue[n] \notin audit
  /\ \A m, n \in 1 .. Len(queue) : queue[m] = queue[n] => m = n
  /\ \A i \in audit : verdict[i] \in Matched

\* The killed map remembers the last confirmed kill until killDedupe is over.
Remembered(c) ==
  confirmed[c] # Never =>
    /\ confirmed[c] <= now
    /\ \/ killed[c] # Never /\ killed[c] >= confirmed[c]
       \/ now - confirmed[c] > KillDedupe

DedupeInv == \A c \in Containers : Remembered(c)

-----------------------------------------------------------------------------
(* What the operators of evaluation return.                                *)

(***************************************************************************)
(* A judgement asks for one of four things (engine.Observe).               *)
(***************************************************************************)
LEMMA JudgementType ==
  ASSUME NEW e, NEW host
  PROVE  Judgement(e, host) \in {"none", "alert", "dry", "kill"}
BY DEF Judgement, SingleRule

(***************************************************************************)
(* Sequence state stays within the containers (engine.advance).            *)
(***************************************************************************)
LEMMA ChainAfterType ==
  ASSUME TypeOK, NEW e \in Event
  PROVE  ChainAfter(e) \subseteq Containers
BY DEF TypeOK, Event, ChainAfter

(***************************************************************************)
(* Pruning keeps the type of the killed map (enforce).                     *)
(***************************************************************************)
LEMMA PrunedType ==
  ASSUME NEW k \in [Containers -> 0 .. MaxTime \cup {Never}]
  PROVE  Pruned(k) \in [Containers -> 0 .. MaxTime \cup {Never}]
BY DEF Pruned

(***************************************************************************)
(* Whatever the label lookup brings, a container that may be enforced is   *)
(* in the enforcement scope by its real labels (Scope, labels).            *)
(***************************************************************************)
LEMMA EnforceableIsInScope ==
  ASSUME NEW c, NEW l, Enforceable(c, l)
  PROVE  /\ c \notin Ignored
         /\ WatchAll \/ c \in WatchNames \cup WatchLabelled
         /\ ScopedEnforce => c \in EnforceNames \cup EnforceLabelled
BY DEF Enforceable, Watched

\* The variables a call of enforce may change keep their types.
EnforceTypes ==
  /\ docker' \in [Containers -> DockerStates]
  /\ chain' \subseteq Containers
  /\ lc' \in [Containers -> {"unset", "known", "failed"}]
  /\ killed' \in [Containers -> 0 .. MaxTime \cup {Never}]
  /\ confirmed' \in [Containers -> 0 .. MaxTime \cup {Never}]
  /\ requests' \subseteq Containers

(***************************************************************************)
(* One kill request: types, the verdict, the dedupe map, the request       *)
(* (enforce after its early returns).                                      *)
(***************************************************************************)
LEMMA KillStep ==
  ASSUME TypeOK, DedupeInv, now' = now, ConstantsAssumption,
         NEW e \in Event, NEW newChain \in SUBSET Containers, NEW v,
         Kill(e, newChain, v), lc' \in [Containers -> {"unset", "known", "failed"}]
  PROVE  /\ EnforceTypes /\ DedupeInv'
         /\ v \in {"killed", "gone", "failed"}
         /\ requests' = requests \cup {e.c}
<1>1. PICK o \in KillOutcomes(e.c) :
        LET settled == o \in {"killed", "gone"}
        IN /\ v = (IF o = "lost" THEN "failed" ELSE o)
           /\ docker' = IF o \in {"killed", "lost"}
                        THEN [docker EXCEPT ![e.c] = "stopped"] ELSE docker
           /\ killed' = Pruned(IF settled THEN [killed EXCEPT ![e.c] = now] ELSE killed)
           /\ chain' = IF settled THEN newChain \ {e.c} ELSE newChain
           /\ confirmed' = IF o = "killed" THEN [confirmed EXCEPT ![e.c] = now] ELSE confirmed
           /\ requests' = requests \cup {e.c}
  BY DEF Kill
<1>2. o \in {"killed", "lost", "failed", "gone"}
  BY DEF KillOutcomes
<1>3. e.c \in Containers
  BY DEF Event
<1> DEFINE k == IF o \in {"killed", "gone"} THEN [killed EXCEPT ![e.c] = now] ELSE killed
<1>4. k \in [Containers -> 0 .. MaxTime \cup {Never}] /\ killed' = Pruned(k)
  BY <1>1, <1>3 DEF TypeOK
<1>5. killed' \in [Containers -> 0 .. MaxTime \cup {Never}]
  BY <1>4, PrunedType
<1>6. EnforceTypes
  BY <1>1, <1>2, <1>3, <1>5 DEF EnforceTypes, TypeOK, DockerStates
<1>7. ASSUME NEW c \in Containers PROVE Remembered(c)'
  <2>1. killed'[c] = IF k[c] # Never /\ now - k[c] > KillDedupe THEN Never ELSE k[c]
    BY <1>4 DEF Pruned
  <2>2. /\ now \in Nat /\ KillDedupe \in Nat
        /\ killed[c] \in Nat \cup {Never} /\ confirmed[c] \in Nat \cup {Never}
    BY DEF TypeOK, ConstantsAssumption
  <2>3. Remembered(c)
    BY DEF DedupeInv
  <2>4. CASE c = e.c /\ o = "killed"
    <3>1. k[c] = now /\ confirmed'[c] = now
      BY <1>1, <2>4 DEF TypeOK
    <3>2. QED
      BY <2>1, <2>2, <3>1 DEF Remembered, Never
  <2>5. CASE c = e.c /\ o = "gone"
    <3>1. k[c] = now /\ confirmed'[c] = confirmed[c]
      BY <1>1, <2>5 DEF TypeOK
    <3> HIDE DEF k
    <3>2. QED
      BY <2>1, <2>2, <2>3, <3>1 DEF Remembered, Never
  <2>6. CASE ~(c = e.c /\ o \in {"killed", "gone"})
    <3>1. k[c] = killed[c] /\ confirmed'[c] = confirmed[c]
      BY <1>1, <2>6 DEF TypeOK
    <3> HIDE DEF k
    <3>2. QED
      BY <2>1, <2>2, <2>3, <3>1 DEF Remembered, Never
  <2>7. QED
    BY <1>2, <2>4, <2>5, <2>6
<1>8. QED
  BY <1>1, <1>2, <1>6, <1>7 DEF DedupeInv

(***************************************************************************)
(* Without a kill request nothing is forgotten (enforce, early returns).   *)
(***************************************************************************)
LEMMA NoKillStep ==
  ASSUME TypeOK, DedupeInv, now' = now, NEW newChain \in SUBSET Containers, NoKill(newChain),
         lc' \in [Containers -> {"unset", "known", "failed"}]
  PROVE  EnforceTypes /\ DedupeInv' /\ requests' = requests
<1>1. EnforceTypes
  BY DEF NoKill, EnforceTypes, TypeOK
<1>2. DedupeInv'
  BY DEF NoKill, DedupeInv, Remembered
<1>3. QED
  BY <1>1, <1>2 DEF NoKill

\* What requests may become: one more container of the enforcement scope.
RequestedInScope ==
  \A c \in requests' \ requests :
    /\ EnforceKill /\ c \notin Ignored
    /\ WatchAll \/ c \in WatchNames \cup WatchLabelled
    /\ ScopedEnforce => c \in EnforceNames \cup EnforceLabelled

(***************************************************************************)
(* A whole call of enforce.                                                *)
(***************************************************************************)
LEMMA EnforceStep ==
  ASSUME TypeOK, DedupeInv, now' = now, ConstantsAssumption,
         NEW e \in Event, NEW newChain \in SUBSET Containers, NEW v, Enforce(e, newChain, v)
  PROVE  /\ EnforceTypes /\ DedupeInv' /\ RequestedInScope
         /\ v \in Matched \ {"alert"}
         /\ v = "killed" => ~InDedupe(e.c)
<1>0. e.c \in Containers
  BY DEF Event
<1>1. CASE ~EnforceKill
  <2>1. v = "dryRun" /\ NoKill(newChain) /\ UNCHANGED lc
    BY <1>1 DEF Enforce
  <2>2. QED
    BY <2>1, NoKillStep DEF TypeOK, Matched, RequestedInScope
<1>2. CASE EnforceKill
  <2>1. PICK l \in {"unset", "known", "failed"} :
          /\ EnforceAllowed(e.c, l)
          /\ \/ ~Enforceable(e.c, l) /\ v = "skipped" /\ NoKill(newChain)
             \/ Enforceable(e.c, l) /\ InDedupe(e.c) /\ v = "residual" /\ NoKill(newChain)
             \/ Enforceable(e.c, l) /\ ~InDedupe(e.c) /\ Kill(e, newChain, v)
    BY <1>2 DEF Enforce
  <2>2. lc' \in [Containers -> {"unset", "known", "failed"}]
    BY <1>0, <2>1 DEF EnforceAllowed, TypeOK
  <2>3. CASE NoKill(newChain) /\ v \in {"skipped", "residual"}
    BY <2>2, <2>3, NoKillStep DEF Matched, RequestedInScope
  <2>4. CASE Enforceable(e.c, l) /\ ~InDedupe(e.c) /\ Kill(e, newChain, v)
    <3>1. EnforceTypes /\ DedupeInv' /\ v \in {"killed", "gone", "failed"} /\ requests' = requests \cup {e.c}
      BY <2>2, <2>4, KillStep
    <3>2. RequestedInScope
      BY <1>2, <2>4, <3>1, EnforceableIsInScope DEF RequestedInScope
    <3>3. QED
      BY <2>4, <3>1, <3>2 DEF Matched
  <2>5. QED
    BY <2>1, <2>3, <2>4
<1>3. QED
  BY <1>1, <1>2 DEF Enforce

\* The variables emit may change keep their types.
EmitTypes ==
  /\ rateSec' \in 0 .. MaxTime \cup {Never}
  /\ rateCount' \in 0 .. NormalRate
  /\ verdict' \in [Ids -> Verdicts \cup {Unjudged}]
  /\ queue' \in Seq(Ids) /\ Len(queue') <= PersistQueue
  /\ audit' = audit /\ isolation' = isolation
  /\ streamed' \in [0 .. MaxTime -> Nat]

(***************************************************************************)
(* A call of emit: the verdict is final, and it is queued at the end of    *)
(* the persist channel or not at all.                                      *)
(***************************************************************************)
LEMMA EmitStep ==
  ASSUME TypeOK, ConstantsAssumption, NEW i \in Ids, events[i] \in Event,
         NEW v \in Verdicts, Emit(i, v)
  PROVE  /\ EmitTypes
         /\ verdict' = [verdict EXCEPT ![i] = v]
         /\ queue' \in {queue, Append(queue, i)}
<1>1. queue' = queue \/ Enqueue(i)
  BY DEF Emit
<1>2. queue' \in Seq(Ids) /\ Len(queue') <= PersistQueue /\ queue' \in {queue, Append(queue, i)}
  <2>1. queue \in Seq(Ids) /\ Len(queue) \in Nat /\ Len(queue) <= PersistQueue /\ PersistQueue \in Nat
    BY DEF TypeOK, ConstantsAssumption
  <2>2. CASE queue' = queue
    BY <2>1, <2>2
  <2>3. CASE Len(queue) < PersistQueue /\ queue' = Append(queue, i)
    BY <2>1, <2>3
  <2>4. QED
    BY <1>1, <2>2, <2>3 DEF Enqueue
<1>3. verdict' = [verdict EXCEPT ![i] = v] /\ audit' = audit /\ isolation' = isolation
  BY DEF Emit
<1>4. verdict' \in [Ids -> Verdicts \cup {Unjudged}]
  BY <1>3 DEF TypeOK
<1>5. events[i].ts \in 0 .. MaxTime
  BY DEF Event
<1>6. /\ rateSec' \in 0 .. MaxTime \cup {Never} /\ rateCount' \in 0 .. NormalRate
      /\ streamed' \in [0 .. MaxTime -> Nat]
  <2>1. /\ rateSec \in 0 .. MaxTime \cup {Never} /\ rateCount \in 0 .. NormalRate
        /\ streamed \in [0 .. MaxTime -> Nat] /\ NormalRate \in Nat
    BY DEF TypeOK, ConstantsAssumption
  <2>2. CASE UNCHANGED <<rateSec, rateCount, streamed>>
    BY <2>1, <2>2
  <2>3. CASE /\ rateSec' = events[i].ts /\ RateAllows(events[i].ts)
             /\ rateCount' = RateAt(events[i].ts) + 1
             /\ streamed' = [streamed EXCEPT ![events[i].ts] = @ + 1]
    <3>1. RateAt(events[i].ts) \in 0 .. NormalRate
      BY <2>1 DEF RateAt
    <3>2. rateCount' \in 0 .. NormalRate
      BY <2>1, <2>3, <3>1 DEF RateAllows
    <3>3. streamed' \in [0 .. MaxTime -> Nat]
      BY <1>5, <2>1, <2>3
    <3>4. QED
      BY <1>5, <2>3, <3>2, <3>3
  <2>4. CASE rateSec' = events[i].ts /\ rateCount' = RateAt(events[i].ts) /\ streamed' = streamed
    BY <1>5, <2>1, <2>4 DEF RateAt
  <2>5. QED
    BY <2>2, <2>3, <2>4 DEF Emit
<1>7. QED
  BY <1>2, <1>3, <1>4, <1>6 DEF EmitTypes

(***************************************************************************)
(* A whole evaluation of an event, from judgement to delivery (evaluate).  *)
(***************************************************************************)
LEMMA EvaluateStep ==
  ASSUME TypeOK, DedupeInv, now' = now, ConstantsAssumption,
         NEW i \in Ids, events[i] \in Event, NEW host, Evaluate(i, host)
  PROVE  /\ EnforceTypes /\ EmitTypes /\ DedupeInv' /\ RequestedInScope
         /\ queue' \in {queue, Append(queue, i)}
         /\ \E v \in Matched \cup {"normal"} :
              /\ verdict' = [verdict EXCEPT ![i] = v]
              /\ v = "killed" => ~InDedupe(events[i].c)
              /\ v = "alert" => ~Completes(events[i]) /\ SingleRule(events[i].kind, host) = "alert"
<1> DEFINE e == events[i]
<1> DEFINE j == Judgement(e, host)
<1>1. PICK v \in Verdicts :
        /\ \/ j = "kill" /\ Enforce(e, ChainAfter(e), v)
           \/ /\ j # "kill"
              /\ <<j, v>> \in {<<"none", "normal">>, <<"alert", "alert">>, <<"dry", "dryRun">>}
              /\ NoKill(ChainAfter(e))
              /\ UNCHANGED lc
        /\ Emit(i, v)
  BY DEF Evaluate
<1>2. EmitTypes /\ verdict' = [verdict EXCEPT ![i] = v] /\ queue' \in {queue, Append(queue, i)}
  BY <1>1, EmitStep
<1>3. ChainAfter(e) \in SUBSET Containers
  BY ChainAfterType
<1>4. CASE j = "kill" /\ Enforce(e, ChainAfter(e), v)
  <2>1. /\ EnforceTypes /\ DedupeInv' /\ RequestedInScope
        /\ v \in Matched \ {"alert"} /\ (v = "killed" => ~InDedupe(e.c))
    BY <1>3, <1>4, EnforceStep
  <2>2. QED
    BY <1>2, <2>1
<1>5. CASE /\ <<j, v>> \in {<<"none", "normal">>, <<"alert", "alert">>, <<"dry", "dryRun">>}
           /\ NoKill(ChainAfter(e)) /\ UNCHANGED lc
  <2>1. EnforceTypes /\ DedupeInv' /\ requests' = requests
    BY <1>3, <1>5, NoKillStep DEF TypeOK
  <2>2. v \in {"normal", "alert", "dryRun"} /\ (v = "alert" => j = "alert")
    BY <1>5
  <2>3. v = "alert" => ~Completes(e) /\ SingleRule(e.kind, host) = "alert"
    BY <2>2 DEF Judgement
  <2>4. QED
    BY <1>2, <2>1, <2>2, <2>3 DEF Matched, RequestedInScope
<1>6. QED
  BY <1>1, <1>4, <1>5

-----------------------------------------------------------------------------
(* The inductive invariant.                                                *)

IInv == TypeInv /\ ShutdownInv /\ QueueInv /\ DedupeInv /\ KillOnlyInScope

\* What an evaluated event leaves behind, whoever evaluated it.
Evaluated(i) ==
  /\ EnforceTypes /\ EmitTypes /\ DedupeInv' /\ RequestedInScope
  /\ queue' \in {queue, Append(queue, i)}
  /\ \E v \in Verdicts : verdict' = [verdict EXCEPT ![i] = v]

(***************************************************************************)
(* An event that is judged leaves the Run loop or the timers.              *)
(***************************************************************************)
LEMMA JudgedKeepsEventInv ==
  ASSUME TypeInv, NEW i \in Ids, i < nextId, NEW v, verdict' = [verdict EXCEPT ![i] = v],
         nextId' = nextId, events' = events, cur' \in {cur, NoEvent}, timers' \subseteq timers,
         cur' # i, i \notin timers'
  PROVE  EventInv'
<1>1. verdict \in [Ids -> Verdicts \cup {Unjudged}] /\ timers \subseteq Ids /\ cur \in Ids \cup {NoEvent}
  BY DEF TypeInv, TypeOK
<1>2. \A k \in Ids : k # i => verdict'[k] = verdict[k]
  BY <1>1
<1>3. nextId \in Int /\ \A k \in Ids : k \in Int
  BY DEF TypeInv, TypeOK, Ids
<1>4. \A k \in Ids : k < nextId => events'[k] \in Event
  BY DEF TypeInv, EventInv
<1>5. \A k \in Ids : k >= nextId => verdict'[k] = Unjudged
  BY <1>2, <1>3 DEF TypeInv, EventInv
<1>6. cur' # NoEvent => cur' < nextId /\ verdict'[cur'] = Unjudged /\ cur' \notin timers'
  BY <1>1, <1>2 DEF TypeInv, EventInv
<1>7. \A k \in timers' : k < nextId /\ verdict'[k] = Unjudged /\ events'[k].kind = "connect"
  BY <1>1, <1>2 DEF TypeInv, EventInv
<1>8. QED
  BY <1>4, <1>5, <1>6, <1>7 DEF EventInv

(***************************************************************************)
(* A judgement that is not queued leaves the queue in order.               *)
(***************************************************************************)
LEMMA JudgedKeepsQueueInv ==
  ASSUME TypeOK, QueueInv, NEW i \in Ids, verdict[i] = Unjudged, NEW v \in Verdicts,
         verdict' = [verdict EXCEPT ![i] = v], queue' = queue, audit' = audit
  PROVE  QueueInv'
<1>1. v # Unjudged
  BY DEF Verdicts, Matched, Unjudged
<1>2. /\ verdict \in [Ids -> Verdicts \cup {Unjudged}] /\ queue \in Seq(Ids) /\ audit \subseteq Ids
      /\ \A n \in 1 .. Len(queue) : queue[n] \in Ids
  BY DEF TypeOK
<1>3. \A k \in Ids : k # i => verdict'[k] = verdict[k]
  BY <1>2
<1>4. i \notin audit
  BY DEF QueueInv, Matched, Unjudged
<1>5. \A n \in 1 .. Len(queue) : verdict'[queue[n]] # Unjudged
  BY <1>1, <1>2, <1>3 DEF QueueInv
<1>6. \A k \in audit : verdict'[k] \in Matched
  BY <1>2, <1>3, <1>4 DEF QueueInv
<1>7. QED
  BY <1>5, <1>6 DEF QueueInv

(***************************************************************************)
(* An evaluation preserves the invariant, for the Run loop's event and for *)
(* a timer's (Handle, lifecycle, the time.AfterFunc callback).             *)
(***************************************************************************)
LEMMA EvaluatedKeepsIInv ==
  ASSUME IInv, NEW i \in Ids, i < nextId, verdict[i] = Unjudged, Evaluated(i),
         UNCHANGED <<now, ctxDone, events, nextId, name, stopping>>,
         cur' \in {cur, NoEvent}, timers' \subseteq timers,
         cur' # i, i \notin timers'
  PROVE  IInv'
<1>1. TypeOK'
  BY DEF IInv, TypeInv, TypeOK, Evaluated, EnforceTypes, EmitTypes, stopping
<1>2. PICK v \in Verdicts : verdict' = [verdict EXCEPT ![i] = v]
  BY DEF Evaluated
<1>3. EventInv'
  BY <1>2, JudgedKeepsEventInv DEF IInv
<1>4. ShutdownInv'
  BY DEF IInv, ShutdownInv, stopping
<1>5. QueueInv'
  <2>1. v # Unjudged /\ v \in Verdicts
    BY DEF Verdicts, Matched, Unjudged
  <2>2. i \notin audit
    BY DEF IInv, QueueInv, Matched, Unjudged
  <2>3. \A n \in 1 .. Len(queue) : queue[n] # i /\ queue[n] \in Ids
    BY DEF IInv, TypeInv, TypeOK, QueueInv
  <2>4. audit' = audit /\ queue' \in {queue, Append(queue, i)}
    BY DEF Evaluated, EmitTypes
  <2>5. queue \in Seq(Ids) /\ verdict \in [Ids -> Verdicts \cup {Unjudged}] /\ audit \subseteq Ids
    BY DEF IInv, TypeInv, TypeOK
  <2>6. \A k \in audit' : verdict'[k] \in Matched
    BY <1>2, <2>2, <2>4, <2>5 DEF IInv, QueueInv
  <2>7. CASE queue' = queue
    BY <1>2, <2>4, <2>7, JudgedKeepsQueueInv DEF IInv, TypeInv
  <2>8. CASE queue' = Append(queue, i)
    <3>1. /\ Len(queue') = Len(queue) + 1 /\ queue'[Len(queue) + 1] = i
          /\ \A n \in 1 .. Len(queue) : queue'[n] = queue[n]
      BY <2>5, <2>8
    <3>2. \A n \in 1 .. Len(queue') : verdict'[queue'[n]] # Unjudged /\ queue'[n] \notin audit'
      BY <1>2, <2>1, <2>2, <2>3, <2>4, <2>5, <3>1 DEF IInv, QueueInv
    <3>3. \A m, n \in 1 .. Len(queue') : queue'[m] = queue'[n] => m = n
      BY <2>3, <2>5, <3>1 DEF IInv, QueueInv
    <3>4. QED
      BY <2>6, <3>2, <3>3 DEF QueueInv
  <2>9. QED
    BY <2>4, <2>7, <2>8
<1>6. KillOnlyInScope'
  BY DEF IInv, KillOnlyInScope, Evaluated, RequestedInScope
<1>7. QED
  BY <1>1, <1>3, <1>4, <1>5, <1>6 DEF IInv, TypeInv, Evaluated

(***************************************************************************)
(* The initial states satisfy the invariant.                               *)
(***************************************************************************)
LEMMA InitIInv == ASSUME ConstantsAssumption, Init PROVE IInv
<1>1. TypeOK
  <2>1. /\ nextId \in 1 .. MaxEvents + 1 /\ now \in 0 .. MaxTime /\ rateCount \in 0 .. NormalRate
        /\ Len(queue) <= PersistQueue
    BY DEF Init, ConstantsAssumption
  <2>2. /\ events \in [Ids -> Event \cup {NoRecord}] /\ verdict \in [Ids -> Verdicts \cup {Unjudged}]
        /\ streamed \in [0 .. MaxTime -> Nat] /\ queue \in Seq(Ids)
    BY DEF Init
  <2>3. /\ docker \in [Containers -> DockerStates] /\ lc \in [Containers -> {"unset", "known", "failed"}]
        /\ killed \in [Containers -> 0 .. MaxTime \cup {Never}]
        /\ confirmed \in [Containers -> 0 .. MaxTime \cup {Never}]
    BY DEF Init, DockerStates
  <2>4. QED
    BY <2>1, <2>2, <2>3 DEF Init, TypeOK
<1>2. EventInv /\ ShutdownInv /\ QueueInv /\ DedupeInv /\ KillOnlyInScope
  BY DEF Init, EventInv, ShutdownInv, QueueInv, DedupeInv, Remembered, KillOnlyInScope, Ids
<1>3. QED
  BY <1>1, <1>2 DEF IInv, TypeInv

(***************************************************************************)
(* The persist loop takes the head of the queue: its row is new, and the   *)
(* rest of the queue still has none (persistLoop).                         *)
(***************************************************************************)
LEMMA PersistKeepsIInv == ASSUME IInv, Persist PROVE IInv'
<1> DEFINE i == Head(queue)
<1>1. /\ queue \in Seq(Ids) /\ queue # <<>> /\ Len(queue) <= PersistQueue
      /\ verdict \in [Ids -> Verdicts \cup {Unjudged}] /\ audit \subseteq Ids /\ isolation \subseteq Ids
  BY DEF IInv, TypeInv, TypeOK, Persist
<1>2. /\ queue' = Tail(queue) /\ verdict' = verdict
      /\ audit' \subseteq audit \cup {i} /\ isolation' \subseteq isolation \cup {i}
      /\ audit' = audit \/ (verdict[i] \in Matched /\ audit' = audit \cup {i})
  BY DEF Persist, sink
<1>3. /\ queue' \in Seq(Ids) /\ Len(queue') = Len(queue) - 1 /\ i = queue[1] /\ i \in Ids
      /\ \A n \in 1 .. Len(queue') : queue'[n] = queue[n + 1]
  BY <1>1, <1>2
<1>4. PersistQueue \in Int => Len(queue') <= PersistQueue
  BY <1>1, <1>3
<1>5. QueueInv'
  <2>1. \A n \in 1 .. Len(queue') : n + 1 \in 1 .. Len(queue) /\ queue'[n] # i
    BY <1>1, <1>3 DEF IInv, QueueInv
  <2>2. \A n \in 1 .. Len(queue') : verdict'[queue'[n]] # Unjudged /\ queue'[n] \notin audit'
    BY <1>2, <1>3, <2>1 DEF IInv, QueueInv
  <2>3. \A m, n \in 1 .. Len(queue') : queue'[m] = queue'[n] => m = n
    BY <1>1, <1>3, <2>1 DEF IInv, QueueInv
  <2>4. \A k \in audit' : verdict'[k] \in Matched
    BY <1>2 DEF IInv, QueueInv
  <2>5. QED
    BY <2>2, <2>3, <2>4 DEF QueueInv
<1>6. UNCHANGED <<world, intake, caches, verdict, stopping, history>>
  BY DEF Persist
<1>7. Len(queue') <= PersistQueue
  BY <1>1, <1>3, <1>4, ConstantsAssumption DEF ConstantsAssumption
<1>8. TypeOK'
  BY <1>1, <1>2, <1>3, <1>6, <1>7
     DEF IInv, TypeInv, TypeOK, world, intake, caches, stopping, history, Running
<1>9. EventInv' /\ ShutdownInv'
  BY <1>6 DEF IInv, TypeInv, EventInv, ShutdownInv, intake, stopping
<1>10. DedupeInv' /\ KillOnlyInScope'
  BY <1>6 DEF IInv, DedupeInv, Remembered, KillOnlyInScope, world, caches, history
<1>11. QED
  BY <1>5, <1>8, <1>9, <1>10 DEF IInv, TypeInv

(***************************************************************************)
(* Every step preserves the invariant.                                     *)
(***************************************************************************)
LEMMA NextIInv == ASSUME ConstantsAssumption, IInv, [Next]_vars PROVE IInv'
<1> USE DEF IInv, TypeInv
<1>1. ASSUME NEW c \in Containers, NEW h \in HostNames, LearnAnswer(c, h) PROVE IInv'
  <2>1. nextId \in Ids /\ nextId < MaxEvents + 1 /\ "answer" \in AllKinds
    BY <1>1 DEF LearnAnswer, Arrives, TypeOK, Ids, AllKinds, ConstantsAssumption
  <2>2. TypeOK'
    BY <1>1, <2>1 DEF LearnAnswer, Arrives, TypeOK, Event, Verdicts, Ids, world, stopping, history, ConstantsAssumption
  <2>3. EventInv'
    BY <1>1, <2>1, SMTT(20) DEF LearnAnswer, Arrives, TypeOK, EventInv, Event, Ids, NoEvent
  <2>4. ShutdownInv' /\ QueueInv' /\ DedupeInv' /\ KillOnlyInScope'
    BY <1>1, <2>1 DEF LearnAnswer, Arrives, TypeOK, EventInv, ShutdownInv, QueueInv, DedupeInv, Remembered,
                KillOnlyInScope, world, stopping, history, Matched, Unjudged
  <2>5. QED
    BY <2>2, <2>3, <2>4
<1>2. ASSUME NEW c \in Containers, NEW k \in Kinds[c], Receive(c, k) PROVE IInv'
  <2>1. nextId \in Ids /\ nextId < MaxEvents + 1 /\ k \in AllKinds
    BY <1>2 DEF Receive, Arrives, TypeOK, Ids, ConstantsAssumption
  <2>2. PICK l \in LabelAnswers(c) :
          /\ lc' \in {lc, [lc EXCEPT ![c] = l]}
          /\ \/ cur' = nextId /\ verdict' = verdict
             \/ cur' = NoEvent /\ verdict' = [verdict EXCEPT ![nextId] = "lifecycle"]
    BY <1>2 DEF Receive
  <2>3. l \in {"unset", "known", "failed"}
    BY DEF LabelAnswers, TypeOK
  <2>4. TypeOK'
    <3>1. /\ events' = [events EXCEPT ![nextId] = [c |-> c, kind |-> k, ts |-> now]] /\ nextId' = nextId + 1
          /\ UNCHANGED <<world, timers, chain, name, killed, rateSec, rateCount,
                         queue, audit, isolation, stopping, history>>
      BY <1>2 DEF Receive, Arrives
    <3>2. [c |-> c, kind |-> k, ts |-> now] \in Event
      BY <2>1 DEF TypeOK, Event
    <3>3. events' \in [Ids -> Event \cup {NoRecord}]
      BY <2>1, <3>1, <3>2 DEF TypeOK
    <3>4. verdict' \in [Ids -> Verdicts \cup {Unjudged}]
      BY <2>1, <2>2 DEF TypeOK, Verdicts
    <3>5. nextId' \in 1 .. MaxEvents + 1 /\ cur' \in Ids \cup {NoEvent}
      BY <2>1, <2>2, <3>1 DEF TypeOK, ConstantsAssumption, Ids
    <3>6. lc' \in [Containers -> {"unset", "known", "failed"}]
      BY <2>2, <2>3 DEF TypeOK
    <3>7. QED
      BY <3>1, <3>3, <3>4, <3>5, <3>6 DEF TypeOK, world, stopping, history
  <2>5. EventInv'
    BY <1>2, <2>1, <2>2, SMTT(20) DEF Receive, Arrives, TypeOK, EventInv, Event, Ids, NoEvent
  <2>6. QueueInv'
    BY <1>2, <2>1, <2>2 DEF Receive, Arrives, TypeOK, EventInv, QueueInv, Matched, Unjudged
  <2>7. ShutdownInv' /\ DedupeInv' /\ KillOnlyInScope'
    BY <1>2 DEF Receive, Arrives, TypeOK, ShutdownInv, DedupeInv, Remembered, KillOnlyInScope,
                world, stopping, history
  <2>8. QED
    BY <2>4, <2>5, <2>6, <2>7
<1>3. CASE HandleExit
  <2>1. cur \in Ids /\ cur < nextId /\ verdict[cur] = Unjudged /\ cur \notin timers /\ cur # NoEvent
    BY <1>3 DEF HandleExit, TypeOK, EventInv
  <2>2. TypeOK'
    BY <1>3, <2>1 DEF HandleExit, TypeOK, Verdicts, world, stopping, history
  <2>3. EventInv' /\ ShutdownInv'
    BY <1>3, <2>1, JudgedKeepsEventInv DEF HandleExit, ShutdownInv, stopping
  <2>4. QueueInv'
    BY <1>3, <2>1, JudgedKeepsQueueInv DEF HandleExit, Verdicts
  <2>5. DedupeInv' /\ KillOnlyInScope'
    BY <1>3 DEF HandleExit, DedupeInv, Remembered, KillOnlyInScope, world, history
  <2>6. QED
    BY <2>2, <2>3, <2>4, <2>5
<1>4. CASE HandleStart
  <2>1. cur \in Ids /\ cur < nextId /\ verdict[cur] = Unjudged /\ events[cur] \in Event /\ cur \notin timers
    BY <1>4 DEF HandleStart, TypeOK, EventInv
  <2>2. CASE \E v \in Verdicts : Enforce(events[cur], chain, v) /\ Emit(cur, v)
    <3>1. PICK v \in Verdicts : Enforce(events[cur], chain, v) /\ Emit(cur, v)
      BY <2>2
    <3>2. /\ UNCHANGED <<now, ctxDone, events, nextId, timers, name, stopping>>
          /\ cur' = NoEvent /\ chain \in SUBSET Containers
      BY <1>4 DEF HandleStart, TypeOK
    <3>3. EnforceTypes /\ DedupeInv' /\ RequestedInScope
      BY <2>1, <3>1, <3>2, EnforceStep
    <3>4. Evaluated(cur)
      BY <2>1, <3>1, <3>3, EmitStep DEF Evaluated
    <3>5. QED
      BY <2>1, <3>2, <3>4, EvaluatedKeepsIInv DEF Ids, NoEvent
  <2>3. CASE events[cur].c \notin BlockedImages
    <3>1. TypeOK'
      BY <1>4, <2>1, <2>3 DEF HandleStart, TypeOK, Verdicts, stopping, history
    <3>2. EventInv' /\ ShutdownInv'
      BY <1>4, <2>1, <2>3, JudgedKeepsEventInv DEF HandleStart, ShutdownInv, stopping, Ids, NoEvent
    <3>3. QueueInv'
      BY <1>4, <2>1, <2>3, JudgedKeepsQueueInv DEF HandleStart, Verdicts
    <3>4. DedupeInv' /\ KillOnlyInScope'
      BY <1>4, <2>3 DEF HandleStart, DedupeInv, Remembered, KillOnlyInScope, history
    <3>5. QED
      BY <3>1, <3>2, <3>3, <3>4
  <2>4. QED
    BY <1>4, <2>2, <2>3 DEF HandleStart
<1>5. CASE Defer
  <2>1. cur \in Ids /\ cur < nextId /\ verdict[cur] = Unjudged /\ events[cur].kind = "connect"
    BY <1>5 DEF Defer, Deferrable, TypeOK, EventInv
  <2>2. /\ timers' = timers \cup {cur} /\ cur' = NoEvent
        /\ UNCHANGED <<world, events, nextId, caches, sink, stopping, history>>
    BY <1>5 DEF Defer
  <2>3. TypeOK'
    BY <2>1, <2>2 DEF TypeOK, world, caches, sink, stopping, history
  <2>4. EventInv'
    BY <2>1, <2>2 DEF EventInv, sink
  <2>5. ShutdownInv' /\ QueueInv' /\ DedupeInv' /\ KillOnlyInScope'
    BY <2>2 DEF ShutdownInv, QueueInv, DedupeInv, Remembered, KillOnlyInScope,
                world, caches, sink, stopping, history
  <2>6. QED
    BY <2>3, <2>4, <2>5
<1>6. CASE HandleNow
  <2>1. cur \in Ids /\ cur < nextId /\ verdict[cur] = Unjudged /\ events[cur] \in Event /\ cur \notin timers
    BY <1>6 DEF HandleNow, TypeOK, EventInv
  <2>2. /\ UNCHANGED <<now, ctxDone, events, nextId, timers, name, stopping>>
        /\ cur' = NoEvent /\ Evaluate(cur, name)
    BY <1>6 DEF HandleNow
  <2>3. Evaluated(cur)
    BY <2>1, <2>2, EvaluateStep DEF Evaluated, Verdicts
  <2>4. QED
    BY <2>1, <2>2, <2>3, EvaluatedKeepsIInv DEF Ids, NoEvent
<1>7. CASE RunEnds
  BY <1>7 DEF RunEnds, TypeOK, EventInv, ShutdownInv, QueueInv, DedupeInv, Remembered,
              KillOnlyInScope, world, intake, caches, sink, history
<1>8. CASE ClosePersist
  BY <1>8 DEF ClosePersist, TypeOK, EventInv, ShutdownInv, QueueInv, DedupeInv, Remembered,
              KillOnlyInScope, world, intake, caches, sink, history
<1>9. ASSUME NEW i \in timers, TimerEvaluates(i) PROVE IInv'
  <2>1. i \in Ids /\ i < nextId /\ verdict[i] = Unjudged /\ events[i] \in Event /\ cur # i
    BY DEF TypeOK, EventInv, Ids, NoEvent
  <2>2. /\ UNCHANGED <<now, ctxDone, events, nextId, cur, name, stopping>>
        /\ timers' = timers \ {i} /\ Evaluate(i, name)
    BY <1>9 DEF TimerEvaluates
  <2>3. Evaluated(i)
    BY <2>1, <2>2, EvaluateStep DEF Evaluated, Verdicts
  <2>4. QED
    BY <2>1, <2>2, <2>3, EvaluatedKeepsIInv
<1>10. ASSUME NEW i \in timers, TimerGivesUp(i) PROVE IInv'
  BY <1>10 DEF TimerGivesUp, TypeOK, EventInv, ShutdownInv, QueueInv, DedupeInv, Remembered,
               KillOnlyInScope, world, caches, sink, stopping, history
<1>11. CASE Persist
  BY <1>11, PersistKeepsIInv
<1>12. CASE PersistLoopEnds
  BY <1>12 DEF PersistLoopEnds, TypeOK, EventInv, ShutdownInv, QueueInv, DedupeInv, Remembered,
               KillOnlyInScope, world, intake, caches, sink, history
<1>13. ASSUME NEW c \in Containers, DockerMoves(c) PROVE IInv'
  BY <1>13 DEF DockerMoves, DockerStates, TypeOK, EventInv, ShutdownInv, QueueInv, DedupeInv, Remembered,
               KillOnlyInScope, intake, caches, sink, stopping, history
<1>14. CASE Tick
  <2>1. now \in Nat /\ now' = now + 1 /\ now' \in 0 .. MaxTime
    BY <1>14 DEF Tick, TypeOK, ConstantsAssumption
  <2>2. TypeOK' /\ EventInv' /\ ShutdownInv' /\ QueueInv' /\ KillOnlyInScope'
    BY <1>14, <2>1 DEF Tick, TypeOK, EventInv, ShutdownInv, QueueInv, KillOnlyInScope,
                       intake, caches, sink, stopping, history
  <2>3. killed' = killed /\ confirmed' = confirmed
    BY <1>14 DEF Tick, caches, history
  <2>4. ASSUME NEW c \in Containers PROVE Remembered(c)'
    <3>1. confirmed[c] \in Nat \cup {Never} /\ KillDedupe \in Nat /\ Remembered(c)
      BY DEF TypeOK, ConstantsAssumption, DedupeInv
    <3>2. QED
      BY <2>1, <2>3, <3>1 DEF Remembered, Never
  <2>5. QED
    BY <2>2, <2>4 DEF DedupeInv
<1>15. CASE NameExpires
  BY <1>15 DEF NameExpires, TypeOK, EventInv, ShutdownInv, QueueInv, DedupeInv, Remembered,
               KillOnlyInScope, world, intake, sink, stopping, history
<1>16. CASE PoliciesReplaced
  BY <1>16 DEF PoliciesReplaced, TypeOK, EventInv, ShutdownInv, QueueInv, DedupeInv, Remembered,
               KillOnlyInScope, world, intake, sink, stopping, history
<1>17. CASE CancelContext
  BY <1>17 DEF CancelContext, TypeOK, EventInv, ShutdownInv, QueueInv, DedupeInv, Remembered,
               KillOnlyInScope, intake, caches, sink, stopping, history
<1>18. CASE UNCHANGED vars
  BY <1>18 DEF vars, TypeOK, EventInv, ShutdownInv, QueueInv, DedupeInv, Remembered,
               KillOnlyInScope, world, intake, caches, sink, stopping, history
<1>19. QED
  BY <1>1, <1>2, <1>3, <1>4, <1>5, <1>6, <1>7, <1>8, <1>9, <1>10, <1>11, <1>12, <1>13,
     <1>14, <1>15, <1>16, <1>17, <1>18 DEF Next

-----------------------------------------------------------------------------
(* The theorems.                                                           *)

(***************************************************************************)
(* The invariant holds of every behaviour.                                 *)
(***************************************************************************)
LEMMA SpecIInv == Spec => []IInv
<1> USE ConstantsAssumption
<1>1. Init => IInv
  BY InitIInv
<1>2. IInv /\ [Next]_vars => IInv'
  BY NextIInv
<1>3. QED
  BY <1>1, <1>2, PTL DEF Spec

(***************************************************************************)
(* Type correctness: in particular the persist channel never holds more    *)
(* than its capacity and the rate counter never exceeds its limit.         *)
(***************************************************************************)
THEOREM TypeCorrect == Spec => []TypeOK
<1>1. IInv => TypeOK
  BY DEF IInv, TypeInv
<1>2. QED
  BY <1>1, SpecIInv, PTL

(***************************************************************************)
(* A kill request is only ever sent for a container of the enforcement     *)
(* scope, for every configuration of the scope (scope.go, enforce).        *)
(***************************************************************************)
THEOREM KillsStayInScope == Spec => []KillOnlyInScope
<1>1. IInv => KillOnlyInScope
  BY DEF IInv
<1>2. QED
  BY <1>1, SpecIInv, PTL

(***************************************************************************)
(* Only an evaluation by the Run loop or by a timer gives an event one of  *)
(* the verdicts of a matched rule.                                         *)
(***************************************************************************)
LEMMA MatchedByEvaluation ==
  ASSUME ConstantsAssumption, IInv, [Next]_vars, NEW i \in Ids,
         verdict[i] = Unjudged, verdict'[i] \in Matched
  PROVE  \/ HandleStart /\ i = cur /\ Enforce(events[i], chain, verdict'[i])
         \/ HandleNow /\ i = cur /\ \E v \in Matched \cup {"normal"} :
              /\ verdict' = [verdict EXCEPT ![i] = v]
              /\ v = "killed" => ~InDedupe(events[i].c)
         \/ i \in timers /\ TimerEvaluates(i) /\ \E v \in Matched \cup {"normal"} :
              /\ verdict' = [verdict EXCEPT ![i] = v]
              /\ v = "killed" => ~InDedupe(events[i].c)
              /\ v = "alert" => ~Completes(events[i]) /\ SingleRule(events[i].kind, name) = "alert"
<1> USE DEF Matched, Unjudged
<1>0. verdict \in [Ids -> Verdicts \cup {Unjudged}] /\ nextId \in Nat
  BY DEF IInv, TypeInv, TypeOK
<1>1. CASE HandleStart
  <2>1. cur \in Ids /\ events[cur] \in Event
    BY <1>1 DEF HandleStart, IInv, TypeInv, TypeOK, EventInv
  <2>2. CASE events[cur].c \notin BlockedImages
    BY <1>0, <1>1, <2>1, <2>2 DEF HandleStart
  <2>3. CASE events[cur].c \in BlockedImages
    <3>1. PICK v \in Verdicts : Enforce(events[cur], chain, v) /\ Emit(cur, v)
      BY <1>1, <2>3 DEF HandleStart
    <3>2. verdict' = [verdict EXCEPT ![cur] = v]
      BY <3>1 DEF Emit
    <3>3. i = cur /\ verdict'[i] = v
      BY <1>0, <2>1, <3>2
    <3>4. QED
      BY <1>1, <3>1, <3>3
  <2>4. QED
    BY <2>2, <2>3
<1>2. CASE HandleNow
  <2>1. cur \in Ids /\ events[cur] \in Event /\ now' = now /\ Evaluate(cur, name)
    BY <1>2 DEF HandleNow, IInv, TypeInv, TypeOK, EventInv
  <2>2. PICK v \in Matched \cup {"normal"} :
          verdict' = [verdict EXCEPT ![cur] = v] /\ (v = "killed" => ~InDedupe(events[cur].c))
    BY <2>1, EvaluateStep DEF IInv, TypeInv
  <2>3. i = cur
    BY <1>0, <2>1, <2>2
  <2>4. QED
    BY <1>2, <2>2, <2>3
<1>3. CASE \E k \in timers : TimerEvaluates(k)
  <2>1. PICK k \in timers : TimerEvaluates(k)
    BY <1>3
  <2>2. k \in Ids /\ events[k] \in Event /\ now' = now /\ Evaluate(k, name)
    BY <2>1 DEF TimerEvaluates, IInv, TypeInv, TypeOK, EventInv
  <2>3. PICK v \in Matched \cup {"normal"} :
          /\ verdict' = [verdict EXCEPT ![k] = v] /\ (v = "killed" => ~InDedupe(events[k].c))
          /\ v = "alert" => ~Completes(events[k]) /\ SingleRule(events[k].kind, name) = "alert"
    BY <2>2, EvaluateStep DEF IInv, TypeInv
  <2>4. i = k
    BY <1>0, <2>2, <2>3
  <2>5. QED
    BY <2>1, <2>3, <2>4
<1>4. CASE \/ \E c \in Containers, h \in HostNames : LearnAnswer(c, h)
           \/ \E c \in Containers : \E k \in Kinds[c] : Receive(c, k)
           \/ HandleExit
  BY <1>0, <1>4 DEF LearnAnswer, Receive, HandleExit
<1>5. CASE \/ Defer \/ RunEnds \/ ClosePersist \/ Persist \/ PersistLoopEnds
           \/ \E k \in timers : TimerGivesUp(k)
           \/ \E c \in Containers : DockerMoves(c)
           \/ Tick \/ NameExpires \/ PoliciesReplaced \/ CancelContext \/ UNCHANGED vars
  BY <1>5 DEF Defer, RunEnds, ClosePersist, Persist, PersistLoopEnds, TimerGivesUp, DockerMoves,
              Tick, NameExpires, PoliciesReplaced, CancelContext, vars, sink
<1>6. QED
  BY <1>1, <1>2, <1>3, <1>4, <1>5 DEF Next

(***************************************************************************)
(* Within killDedupe of a confirmed kill no second kill of the container   *)
(* is confirmed (enforce).                                                 *)
(***************************************************************************)
THEOREM KillsAreDeduplicated == Spec => OneKillPerDedupe
<1>1. ASSUME ConstantsAssumption, IInv, [Next]_vars, NEW i \in Ids,
             verdict[i] = Unjudged, verdict'[i] = "killed"
      PROVE  confirmed[events[i].c] = Never \/ now - confirmed[events[i].c] >= KillDedupe
  <2>1. verdict \in [Ids -> Verdicts \cup {Unjudged}]
    BY <1>1 DEF IInv, TypeInv, TypeOK
  <2>2. (i = cur \/ i \in timers) /\ i \in Ids /\ events[i] \in Event /\ ~InDedupe(events[i].c)
    <3>1. "killed" \in Matched
      BY DEF Matched
    <3>2. CASE HandleStart /\ i = cur /\ Enforce(events[i], chain, "killed")
      <4>1. now' = now /\ events[i] \in Event /\ chain \in SUBSET Containers
        BY <1>1, <3>2 DEF HandleStart, IInv, TypeInv, TypeOK, EventInv
      <4>2. QED
        BY <3>2, <4>1, EnforceStep, <1>1 DEF IInv, TypeInv
    <3>3. CASE /\ (i = cur /\ HandleNow) \/ i \in timers
               /\ \E v \in Matched \cup {"normal"} :
                    verdict' = [verdict EXCEPT ![i] = v] /\ (v = "killed" => ~InDedupe(events[i].c))
      <4>1. events[i] \in Event /\ (i = cur \/ i \in timers)
        BY <1>1, <3>3 DEF HandleNow, IInv, TypeInv, TypeOK, EventInv
      <4>2. QED
        BY <1>1, <2>1, <3>3, <4>1
    <3>4. QED
      BY <1>1, <3>1, <3>2, <3>3, MatchedByEvaluation
  <2>3. events[i].c \in Containers
    BY <2>2 DEF Event
  <2>4. /\ Remembered(events[i].c) /\ KillDedupe \in Nat /\ now \in Nat
        /\ killed[events[i].c] \in Nat \cup {Never} /\ confirmed[events[i].c] \in Nat \cup {Never}
    BY <1>1, <2>3 DEF IInv, TypeInv, TypeOK, DedupeInv, ConstantsAssumption
  <2>5. QED
    BY <2>2, <2>4 DEF Remembered, InDedupe, Never
<1>2. IInv /\ [Next]_vars =>
        [\A i \in Ids : verdict[i] = Unjudged /\ verdict'[i] = "killed"
           => LET at == confirmed[events[i].c] IN at = Never \/ now - at >= KillDedupe]_vars
  BY <1>1, ConstantsAssumption
<1>3. QED
  BY <1>2, SpecIInv, PTL DEF Spec, OneKillPerDedupe

(***************************************************************************)
(* An event whose DNS answer arrived in time is not judged a direct-IP     *)
(* connection (Handle, the time.AfterFunc callback).                       *)
(***************************************************************************)
THEOREM GraceIsHonoured == Spec => GraceHonoursAnswers
<1>1. ASSUME ConstantsAssumption, IInv, [Next]_vars, NEW i \in timers,
             verdict[i] = Unjudged, verdict'[i] = "alert"
      PROVE  name = NoHost
  <2>1. i \in Ids /\ i # cur /\ events[i].kind = "connect" /\ verdict \in [Ids -> Verdicts \cup {Unjudged}]
    BY <1>1 DEF IInv, TypeInv, TypeOK, EventInv, Ids, NoEvent
  <2>2. "alert" \in Matched
    BY DEF Matched
  <2>3. SingleRule(events[i].kind, name) = "alert"
    BY <1>1, <2>1, <2>2, MatchedByEvaluation
  <2>4. QED
    BY <2>1, <2>3 DEF SingleRule
<1>2. IInv /\ [Next]_vars =>
        [\A i \in timers : verdict[i] = Unjudged /\ verdict'[i] = "alert" => name = NoHost]_vars
  BY <1>1, ConstantsAssumption
<1>3. QED
  BY <1>2, SpecIInv, PTL DEF Spec, GraceHonoursAnswers

(***************************************************************************)
(* Once the persist channel is closed nothing is sent on it (closed).      *)
(***************************************************************************)
THEOREM ClosedChannelIsSilent == Spec => NoSendAfterClose
<1>1. ASSUME ConstantsAssumption, IInv, [Next]_vars, ~open PROVE Len(queue') <= Len(queue)
  <2>1. closed /\ cur = NoEvent /\ Len(queue) \in Nat
    BY <1>1 DEF IInv, TypeInv, TypeOK, ShutdownInv
  <2>2. CASE queue' = queue
    BY <2>1, <2>2
  <2>3. CASE Persist
    <3>1. queue # <<>> /\ queue' = Tail(queue) /\ queue \in Seq(Ids)
      BY <1>1, <2>3 DEF Persist, IInv, TypeInv, TypeOK
    <3>2. QED
      BY <3>1
  <2>4. ~HandleStart /\ ~HandleNow /\ ~\E i \in timers : TimerEvaluates(i)
    BY <2>1 DEF HandleStart, HandleNow, TimerEvaluates
  <2>5. Persist \/ queue' = queue
    BY <1>1, <2>1, <2>4 DEF Next, LearnAnswer, Receive, HandleExit, Defer, RunEnds, ClosePersist, PersistLoopEnds,
       TimerGivesUp, DockerMoves, Tick, NameExpires, PoliciesReplaced, CancelContext, vars, sink
  <2>6. QED
    BY <2>2, <2>3, <2>5
<1>2. IInv /\ [Next]_vars => [~open => Len(queue') <= Len(queue)]_vars
  BY <1>1, ConstantsAssumption
<1>3. QED
  BY <1>2, SpecIInv, PTL DEF Spec, NoSendAfterClose

-----------------------------------------------------------------------------
(* What the liveness properties of the pipeline need to be safe from: that *)
(* an event gets lost on its way, or that a settled shutdown starts again. *)

(***************************************************************************)
(* An event that was read and is not judged is in the Run loop, waits for  *)
(* its name, or was given up because the server stops (Handle, and the     *)
(* time.AfterFunc callback).                                               *)
(***************************************************************************)
NothingIsForgotten ==
  \A i \in Ids : i < nextId /\ verdict[i] = Unjudged => i = cur \/ i \in timers \/ closed \/ ctxDone

\* The persist loop has returned only from a closed and empty channel.
DrainedIsEmpty == drained => ~open /\ queue = <<>>

(***************************************************************************)
(* An event that is evaluated is not among those that were forgotten.      *)
(***************************************************************************)
LEMMA JudgedIsNotForgotten ==
  ASSUME TypeInv, NothingIsForgotten, NEW i \in Ids, NEW v \in Verdicts,
         verdict' = [verdict EXCEPT ![i] = v], UNCHANGED <<nextId, stopping, ctxDone>>,
         cur' \in {cur, NoEvent}, i = cur \/ cur' = cur, timers \subseteq timers' \cup {i}
  PROVE  NothingIsForgotten'
<1>1. v # Unjudged
  BY DEF Verdicts, Matched, Unjudged
<1>2. \A k \in Ids : verdict'[k] = Unjudged => k # i /\ verdict[k] = Unjudged
  BY <1>1 DEF TypeInv, TypeOK
<1>3. QED
  BY <1>2 DEF NothingIsForgotten, stopping

(***************************************************************************)
(* No step forgets an event.                                               *)
(***************************************************************************)
LEMMA NextForgetsNothing ==
  ASSUME ConstantsAssumption, IInv, NothingIsForgotten, [Next]_vars
  PROVE  NothingIsForgotten'
<1> USE DEF IInv
<1>1. ASSUME NEW c \in Containers, NEW h \in HostNames, LearnAnswer(c, h)
      PROVE  NothingIsForgotten'
  <2>1. nextId \in Ids /\ nextId' = nextId + 1
    BY <1>1 DEF LearnAnswer, Arrives, TypeInv, TypeOK, Ids
  <2>2. \A k \in Ids : k < nextId' /\ verdict'[k] = Unjudged => k < nextId /\ verdict[k] = Unjudged
    BY <1>1, <2>1 DEF LearnAnswer, TypeInv, TypeOK, Unjudged, Ids
  <2>3. QED
    BY <1>1, <2>2 DEF LearnAnswer, NothingIsForgotten, world, stopping
<1>2. ASSUME NEW c \in Containers, NEW k \in Kinds[c], Receive(c, k) PROVE NothingIsForgotten'
  <2>1. nextId \in Ids /\ nextId' = nextId + 1 /\ cur = NoEvent
    BY <1>2 DEF Receive, Arrives, TypeInv, TypeOK, Ids
  <2>2. \/ cur' = nextId /\ verdict' = verdict
        \/ cur' = NoEvent /\ verdict' = [verdict EXCEPT ![nextId] = "lifecycle"]
    BY <1>2 DEF Receive
  <2>3. \A i \in Ids : i < nextId' /\ verdict'[i] = Unjudged =>
          i = cur' \/ (i < nextId /\ verdict[i] = Unjudged)
    BY <2>1, <2>2 DEF TypeInv, TypeOK, Unjudged, Ids
  <2>4. \A i \in Ids : i # NoEvent
    BY DEF Ids, NoEvent
  <2>5. UNCHANGED <<timers, closed, ctxDone>>
    BY <1>2 DEF Receive, world, stopping
  <2>6. QED
    BY <2>1, <2>3, <2>4, <2>5 DEF NothingIsForgotten
<1>3. CASE HandleExit
  <2>1. cur \in Ids
    BY <1>3 DEF HandleExit, TypeInv, TypeOK
  <2>2. QED
    BY <1>3, <2>1, JudgedIsNotForgotten DEF HandleExit, Verdicts, world
<1>4. CASE HandleStart
  <2>1. cur \in Ids
    BY <1>4 DEF HandleStart, TypeInv, TypeOK
  <2>2. \E v \in Verdicts : verdict' = [verdict EXCEPT ![cur] = v]
    BY <1>4 DEF HandleStart, Emit, Verdicts
  <2>3. QED
    BY <1>4, <2>1, <2>2, JudgedIsNotForgotten DEF HandleStart
<1>5. CASE Defer
  BY <1>5 DEF Defer, NothingIsForgotten, world, sink, stopping
<1>6. CASE HandleNow
  <2>1. cur \in Ids
    BY <1>6 DEF HandleNow, TypeInv, TypeOK
  <2>2. \E v \in Verdicts : verdict' = [verdict EXCEPT ![cur] = v]
    BY <1>6 DEF HandleNow, Evaluate, Emit
  <2>3. QED
    BY <1>6, <2>1, <2>2, JudgedIsNotForgotten DEF HandleNow
<1>7. ASSUME NEW i \in timers, TimerEvaluates(i) PROVE NothingIsForgotten'
  <2>1. i \in Ids
    BY DEF TypeInv, TypeOK
  <2>2. \E v \in Verdicts : verdict' = [verdict EXCEPT ![i] = v]
    BY <1>7 DEF TimerEvaluates, Evaluate, Emit
  <2>3. QED
    BY <1>7, <2>1, <2>2, JudgedIsNotForgotten DEF TimerEvaluates
<1>8. ASSUME NEW i \in timers, TimerGivesUp(i) PROVE NothingIsForgotten'
  BY <1>8 DEF TimerGivesUp, NothingIsForgotten, world, sink, stopping
<1>9. CASE \/ RunEnds \/ ClosePersist \/ Persist \/ PersistLoopEnds \/ Tick \/ NameExpires
           \/ PoliciesReplaced \/ CancelContext \/ (\E c \in Containers : DockerMoves(c))
           \/ UNCHANGED vars
  <2>1. UNCHANGED <<nextId, verdict, cur, timers>> /\ (closed => closed') /\ (ctxDone => ctxDone')
    BY <1>9 DEF RunEnds, ClosePersist, Persist, PersistLoopEnds, Tick, NameExpires, PoliciesReplaced,
                CancelContext, DockerMoves, vars, world, intake, sink, stopping
  <2>2. QED
    BY <2>1 DEF NothingIsForgotten
<1>10. QED
  BY <1>1, <1>2, <1>3, <1>4, <1>5, <1>6, <1>7, <1>8, <1>9 DEF Next

(***************************************************************************)
(* Every event that was read is judged, in the Run loop or waiting, unless *)
(* the server stops: what EveryEventSettles waits for is never lost.       *)
(***************************************************************************)
THEOREM EventsAreNotForgotten == Spec => []NothingIsForgotten
<1> USE ConstantsAssumption
<1>1. Init => NothingIsForgotten
  BY DEF Init, NothingIsForgotten, Ids
<1>2. IInv /\ NothingIsForgotten /\ [Next]_vars => NothingIsForgotten'
  BY NextForgetsNothing
<1>3. QED
  BY <1>1, <1>2, SpecIInv, PTL DEF Spec

(***************************************************************************)
(* Once the Run loop has ended, only the persist loop and the timers move  *)
(* what is known of events, and no verdict is given any more.              *)
(***************************************************************************)
LEMMA ClosedStep ==
  ASSUME IInv, [Next]_vars, closed
  PROVE  /\ closed' /\ verdict' = verdict /\ (~open => ~open')
         /\ UNCHANGED <<queue, audit, isolation>> \/ Persist
         /\ timers' \subseteq timers
<1>1. cur = NoEvent
  BY DEF IInv, ShutdownInv
<1>2. /\ ~HandleStart /\ ~HandleNow /\ ~HandleExit /\ ~Defer /\ ~RunEnds
      /\ ~\E i \in timers : TimerEvaluates(i)
      /\ ~\E c \in Containers, h \in HostNames : LearnAnswer(c, h)
      /\ ~\E c \in Containers : \E k \in Kinds[c] : Receive(c, k)
  BY <1>1 DEF HandleStart, HandleNow, HandleExit, Defer, RunEnds, TimerEvaluates, LearnAnswer,
              Receive, Arrives
<1>3. CASE Persist
  BY <1>3 DEF Persist, intake, stopping
<1>4. CASE ~Persist
  <2>1. \/ ClosePersist \/ PersistLoopEnds \/ Tick \/ NameExpires \/ PoliciesReplaced \/ CancelContext
        \/ (\E c \in Containers : DockerMoves(c)) \/ (\E i \in timers : TimerGivesUp(i))
        \/ UNCHANGED vars
    BY <1>2, <1>4 DEF Next
  <2>2. UNCHANGED <<verdict, queue, audit, isolation>> /\ timers' \subseteq timers
    BY <2>1 DEF ClosePersist, PersistLoopEnds, Tick, NameExpires, PoliciesReplaced, CancelContext,
                DockerMoves, TimerGivesUp, vars, intake, sink
  <2>3. closed' = closed /\ (open' = open \/ open' = FALSE)
    BY <2>1 DEF ClosePersist, PersistLoopEnds, Tick, NameExpires, PoliciesReplaced, CancelContext,
                DockerMoves, TimerGivesUp, vars, stopping
  <2>4. QED
    BY <2>2, <2>3
<1>5. QED
  BY <1>3, <1>4

\* No verdict is given after the Run loop has ended, and the records of a
\* persist loop that has returned are final.
ShutdownIsFinal ==
  [][/\ closed => closed' /\ UNCHANGED verdict /\ timers' \subseteq timers
     /\ drained => drained' /\ UNCHANGED <<queue, audit, isolation>>]_vars

(***************************************************************************)
(* What ShutdownDrains reaches is the end: the persist loop returns from a *)
(* closed and empty channel, and from then on no verdict, no audit row and *)
(* no report of an isolation is added, also by a timer that fires late     *)
(* (Run, persistLoop, closed).                                             *)
(***************************************************************************)
THEOREM DrainedIsFinal == Spec => []DrainedIsEmpty /\ ShutdownIsFinal
<1> USE ConstantsAssumption
<1>1. Init => DrainedIsEmpty
  BY DEF Init, DrainedIsEmpty
<1>2. ASSUME IInv, DrainedIsEmpty, [Next]_vars PROVE DrainedIsEmpty'
  <2>1. CASE drained
    <3>1. ~open /\ queue = <<>> /\ closed /\ ~Persist
      BY <1>2, <2>1 DEF DrainedIsEmpty, IInv, ShutdownInv, Persist
    <3>2. ~open' /\ queue' = <<>>
      BY <1>2, <3>1, ClosedStep
    <3>3. QED
      BY <3>2 DEF DrainedIsEmpty
  <2>2. CASE ~drained /\ drained'
    <3>1. PersistLoopEnds
      BY <1>2, <2>2
         DEF Next, LearnAnswer, Receive, HandleExit, HandleStart, Defer, HandleNow, RunEnds,
             ClosePersist, TimerEvaluates, TimerGivesUp, Persist, DockerMoves, Tick, NameExpires,
             PoliciesReplaced, CancelContext, vars, stopping
    <3>2. QED
      BY <3>1 DEF PersistLoopEnds, DrainedIsEmpty, sink
  <2>3. QED
    BY <2>1, <2>2 DEF DrainedIsEmpty
<1>3. ASSUME IInv, DrainedIsEmpty, [Next]_vars
      PROVE  /\ closed => closed' /\ UNCHANGED verdict /\ timers' \subseteq timers
             /\ drained => drained' /\ UNCHANGED <<queue, audit, isolation>>
  <2>1. closed => closed' /\ UNCHANGED verdict /\ timers' \subseteq timers
    BY <1>3, ClosedStep
  <2>2. ASSUME drained PROVE drained' /\ UNCHANGED <<queue, audit, isolation>>
    <3>1. queue = <<>> /\ closed /\ ~Persist
      BY <1>3, <2>2 DEF DrainedIsEmpty, IInv, ShutdownInv, Persist
    <3>2. UNCHANGED <<queue, audit, isolation>>
      BY <1>3, <3>1, ClosedStep
    <3>3. drained'
      BY <1>3, <2>2
         DEF Next, LearnAnswer, Receive, HandleExit, HandleStart, Defer, HandleNow, RunEnds,
             ClosePersist, TimerEvaluates, TimerGivesUp, Persist, PersistLoopEnds, DockerMoves, Tick,
             NameExpires, PoliciesReplaced, CancelContext, vars, stopping
    <3>4. QED
      BY <3>2, <3>3
  <2>3. QED
    BY <2>1, <2>2
<1>4. IInv /\ DrainedIsEmpty /\ [Next]_vars => DrainedIsEmpty'
  BY <1>2
<1>5. IInv /\ DrainedIsEmpty /\ [Next]_vars =>
        [/\ closed => closed' /\ UNCHANGED verdict /\ timers' \subseteq timers
         /\ drained => drained' /\ UNCHANGED <<queue, audit, isolation>>]_vars
  BY <1>3
<1>6. QED
  BY <1>1, <1>4, <1>5, SpecIInv, PTL DEF Spec, ShutdownIsFinal

-----------------------------------------------------------------------------
(* The pipeline implements the event ledger.                               *)

Status == [i \in Ids |-> StatusOf(i)]

\* The rest of the ledger's state stays.
RestStays == UNCHANGED <<audit, isolation, closed \/ ctxDone>>

(***************************************************************************)
(* A step that changes what is known of one event is a move of that event. *)
(***************************************************************************)
LEMMA OneMoves ==
  ASSUME NEW i \in Ids, NEW s, RestStays, StatusOf(i)' = s,
         \A k \in Ids : k # i => StatusOf(k)' = StatusOf(k)
  PROVE  EventLedger!Move(i, s)
<1>1. Status' = [Status EXCEPT ![i] = s]
  BY DEF Status
<1>2. QED
  BY <1>1 DEF EventLedger!Move, RestStays, Status

(***************************************************************************)
(* A step that changes nothing the ledger sees is a stutter.               *)
(***************************************************************************)
LEMMA Stutters ==
  ASSUME RestStays, \A k \in Ids : StatusOf(k)' = StatusOf(k)
  PROVE  UNCHANGED EventLedger!lvars
BY DEF EventLedger!lvars, RestStays

(***************************************************************************)
(* Judging the event in hand or a waiting one is the ledger's Judge.       *)
(***************************************************************************)
LEMMA JudgesInLedger ==
  ASSUME IInv, RestStays, NEW i \in Ids, NEW v \in Verdicts, verdict' = [verdict EXCEPT ![i] = v],
         i < nextId, verdict[i] = Unjudged, i = cur \/ i \in timers, nextId' = nextId,
         \A k \in Ids : k # i => (k = cur' <=> k = cur) /\ (k \in timers' <=> k \in timers)
  PROVE  EventLedger!LNext
<1>1. verdict \in [Ids -> Verdicts \cup {Unjudged}] /\ nextId \in Int /\ i \in Int
  BY DEF IInv, TypeInv, TypeOK, Ids
<1>2. v # Unjudged
  BY DEF Verdicts, Matched, Unjudged
<1>3. StatusOf(i)' = v
  BY <1>1, <1>2 DEF StatusOf
<1>4. StatusOf(i) \in {"taken", "waiting"}
  BY <1>1 DEF StatusOf
<1>5. \A k \in Ids : k # i => StatusOf(k)' = StatusOf(k)
  BY <1>1 DEF StatusOf
<1>6. EventLedger!Move(i, v)
  BY <1>3, <1>5, OneMoves
<1>7. v \in Matched \cup {"normal", "lifecycle"}
  BY DEF Verdicts
<1>8. EventLedger!Judge(i)
  BY <1>4, <1>6, <1>7 DEF EventLedger!Judge, EventLedger!Judged
<1>9. QED
  BY <1>8 DEF EventLedger!LNext

(***************************************************************************)
(* Every step of the pipeline is a step of the ledger or a stutter.        *)
(***************************************************************************)
LEMMA NextImplementsLedger ==
  ASSUME ConstantsAssumption, IInv, [Next]_vars PROVE [EventLedger!LNext]_(EventLedger!lvars)
<1>0. /\ verdict \in [Ids -> Verdicts \cup {Unjudged}] /\ nextId \in Int
      /\ closed \in BOOLEAN /\ ctxDone \in BOOLEAN /\ timers \subseteq Ids
      /\ \A k \in Ids : k \in Int /\ k # NoEvent
  BY DEF IInv, TypeInv, TypeOK, Ids, NoEvent
<1>1. ASSUME NEW c \in Containers, NEW h \in HostNames, LearnAnswer(c, h) PROVE EventLedger!LNext
  <2>1. PICK n \in Ids : n = nextId
    BY <1>1 DEF LearnAnswer, Arrives, Ids, IInv, TypeInv, TypeOK, ConstantsAssumption
  <2>2. /\ verdict[n] = Unjudged /\ nextId' = n + 1 /\ RestStays
        /\ verdict' = [verdict EXCEPT ![n] = "lifecycle"] /\ UNCHANGED <<cur, timers>>
    BY <1>1, <2>1 DEF LearnAnswer, Arrives, RestStays, world, stopping, IInv, TypeInv, EventInv, TypeOK
  <2>3. /\ StatusOf(n) = "new" /\ StatusOf(n)' = "lifecycle"
        /\ \A k \in Ids : k # n => StatusOf(k)' = StatusOf(k)
    BY <1>0, <2>1, <2>2 DEF StatusOf, Unjudged
  <2>4. EventLedger!Move(n, "lifecycle")
    BY <2>2, <2>3, OneMoves
  <2>5. QED
    BY <2>3, <2>4 DEF EventLedger!LNext, EventLedger!Take
<1>2. ASSUME NEW c \in Containers, NEW k \in Kinds[c], Receive(c, k) PROVE EventLedger!LNext
  <2>1. PICK n \in Ids : n = nextId
    BY <1>2 DEF Receive, Arrives, Ids, IInv, TypeInv, TypeOK, ConstantsAssumption
  <2>2. /\ verdict[n] = Unjudged /\ nextId' = n + 1 /\ RestStays
        /\ timers' = timers /\ cur = NoEvent /\ n \notin timers
        /\ \/ cur' = n /\ verdict' = verdict
           \/ cur' = NoEvent /\ verdict' = [verdict EXCEPT ![n] = "lifecycle"]
    BY <1>2, <2>1 DEF Receive, Arrives, RestStays, world, stopping, IInv, TypeInv, TypeOK, EventInv
  <2>3. CASE cur' = n /\ verdict' = verdict
    <3>1. /\ StatusOf(n) = "new" /\ StatusOf(n)' = "taken"
          /\ \A m \in Ids : m # n => StatusOf(m)' = StatusOf(m)
      BY <1>0, <2>1, <2>2, <2>3 DEF StatusOf
    <3>2. EventLedger!Move(n, "taken")
      BY <2>2, <3>1, OneMoves
    <3>3. QED
      BY <3>1, <3>2 DEF EventLedger!LNext, EventLedger!Take
  <2>4. CASE cur' = NoEvent /\ verdict' = [verdict EXCEPT ![n] = "lifecycle"]
    <3>1. /\ StatusOf(n) = "new" /\ StatusOf(n)' = "lifecycle"
          /\ \A m \in Ids : m # n => StatusOf(m)' = StatusOf(m)
      BY <1>0, <2>1, <2>2, <2>4 DEF StatusOf, Unjudged
    <3>2. EventLedger!Move(n, "lifecycle")
      BY <2>2, <3>1, OneMoves
    <3>3. QED
      BY <3>1, <3>2 DEF EventLedger!LNext, EventLedger!Take
  <2>5. QED
    BY <2>2, <2>3, <2>4
<1>3. CASE HandleExit \/ HandleStart \/ HandleNow
  <2>1. /\ cur \in Ids /\ cur < nextId /\ verdict[cur] = Unjudged /\ cur \notin timers
        /\ cur' = NoEvent /\ UNCHANGED <<timers, nextId, now, closed, ctxDone>> /\ events[cur] \in Event
    BY <1>3 DEF HandleExit, HandleStart, HandleNow, IInv, TypeInv, TypeOK, EventInv, world, stopping
  <2>2. UNCHANGED <<audit, isolation>> /\ \E v \in Verdicts : verdict' = [verdict EXCEPT ![cur] = v]
    <3>1. CASE HandleExit
      BY <3>1 DEF HandleExit, Verdicts
    <3>2. CASE HandleStart
      BY <3>2 DEF HandleStart, Emit, Verdicts
    <3>3. CASE HandleNow
      BY <3>3 DEF HandleNow, Evaluate, Emit
    <3>4. QED
      BY <1>3, <3>1, <3>2, <3>3
  <2>3. QED
    BY <1>0, <2>1, <2>2, JudgesInLedger DEF RestStays
<1>4. CASE Defer
  <2>1. PICK n \in Ids : n = cur
    BY <1>4 DEF Defer, IInv, TypeInv, TypeOK
  <2>2. /\ n < nextId /\ verdict[n] = Unjudged /\ nextId' = nextId
        /\ cur' = NoEvent /\ timers' = timers \cup {n} /\ verdict' = verdict /\ RestStays
    BY <1>4, <2>1 DEF Defer, IInv, TypeInv, TypeOK, EventInv, RestStays, sink, world, stopping
  <2>3. /\ StatusOf(n) = "taken" /\ StatusOf(n)' = "waiting"
        /\ \A k \in Ids : k # n => StatusOf(k)' = StatusOf(k)
    BY <1>0, <2>1, <2>2 DEF StatusOf
  <2>4. EventLedger!Move(n, "waiting")
    BY <2>2, <2>3, OneMoves
  <2>5. QED
    BY <2>3, <2>4 DEF EventLedger!LNext, EventLedger!Wait
<1>5. ASSUME NEW i \in timers, TimerEvaluates(i) PROVE EventLedger!LNext
  <2>1. /\ i \in Ids /\ i < nextId /\ verdict[i] = Unjudged /\ RestStays
        /\ timers' = timers \ {i} /\ UNCHANGED <<cur, nextId>>
    BY <1>5 DEF TimerEvaluates, IInv, TypeInv, TypeOK, EventInv, RestStays, Evaluate, Emit, stopping
  <2>2. \E v \in Verdicts : verdict' = [verdict EXCEPT ![i] = v]
    BY <1>5 DEF TimerEvaluates, Evaluate, Emit
  <2>3. QED
    BY <1>0, <2>1, <2>2, JudgesInLedger
<1>6. ASSUME NEW i \in timers, TimerGivesUp(i) PROVE EventLedger!LNext
  <2>1. /\ i \in Ids /\ i < nextId /\ verdict[i] = Unjudged /\ i # cur /\ RestStays
        /\ timers' = timers \ {i} /\ UNCHANGED <<verdict, cur, nextId>> /\ (closed \/ ctxDone)
    BY <1>0, <1>6 DEF TimerGivesUp, IInv, TypeInv, EventInv, RestStays, sink, world, stopping
  <2>2. /\ StatusOf(i) = "waiting" /\ StatusOf(i)' = "abandoned"
        /\ \A k \in Ids : k # i => StatusOf(k)' = StatusOf(k)
    BY <1>0, <2>1 DEF StatusOf
  <2>3. EventLedger!Move(i, "abandoned")
    BY <2>1, <2>2, OneMoves
  <2>4. QED
    BY <2>1, <2>2, <2>3 DEF EventLedger!LNext, EventLedger!Abandon
<1>7. CASE Persist
  <2> DEFINE i == Head(queue)
  <2>1. UNCHANGED <<verdict, cur, timers, nextId, closed, ctxDone>>
    BY <1>7 DEF Persist, world, intake, stopping
  <2>2. \A k \in Ids : StatusOf(k)' = StatusOf(k)
    BY <2>1 DEF StatusOf
  <2>3. i \in Ids /\ i \notin audit
    <3>1. queue \in Seq(Ids) /\ queue # <<>>
      BY <1>7 DEF Persist, IInv, TypeInv, TypeOK
    <3>2. i = queue[1] /\ 1 \in 1 .. Len(queue)
      BY <3>1
    <3>3. QED
      BY <3>1, <3>2 DEF IInv, QueueInv
  <2>4. CASE UNCHANGED <<audit, isolation>>
    BY <2>1, <2>2, <2>4, Stutters DEF RestStays
  <2>5. CASE /\ verdict[i] \in Matched /\ audit' = audit \cup {i}
             /\ isolation' = IF verdict[i] = "killed" THEN isolation \cup {i} ELSE isolation
    <3>1. Status[i] = verdict[i]
      BY <2>3, <2>5 DEF Status, StatusOf, Matched, Unjudged
    <3>2. Status' = Status
      BY <2>2 DEF Status
    <3>3. EventLedger!Record(i)
      BY <2>1, <2>3, <2>5, <3>1, <3>2 DEF EventLedger!Record, Status
    <3>4. QED
      BY <2>3, <3>3 DEF EventLedger!LNext
  <2>6. QED
    BY <1>7, <2>4, <2>5 DEF Persist
<1>8. CASE RunEnds \/ CancelContext
  <2>1. UNCHANGED <<verdict, cur, timers, nextId, audit, isolation>> /\ (closed \/ ctxDone)' = TRUE
    BY <1>0, <1>8 DEF RunEnds, CancelContext, world, intake, sink, stopping
  <2>2. Status' = Status
    BY <2>1 DEF Status, StatusOf
  <2>3. QED
    BY <2>1, <2>2 DEF EventLedger!LNext, EventLedger!Stop, Status
<1>9. CASE \/ ClosePersist \/ PersistLoopEnds \/ Tick \/ NameExpires \/ PoliciesReplaced
           \/ UNCHANGED vars \/ \E c \in Containers : DockerMoves(c)
  <2>1. UNCHANGED <<verdict, cur, timers, nextId, audit, isolation, closed, ctxDone>>
    BY <1>9 DEF ClosePersist, PersistLoopEnds, Tick, NameExpires, PoliciesReplaced, DockerMoves, vars,
                world, intake, sink, stopping
  <2>2. QED
    BY <2>1, Stutters DEF StatusOf, RestStays
<1>10. QED
  BY <1>1, <1>2, <1>3, <1>4, <1>5, <1>6, <1>7, <1>8, <1>9 DEF Next

(***************************************************************************)
(* The pipeline implements the event ledger: every event is judged at most *)
(* once, none is set aside before the server stops, and audit rows and     *)
(* isolation reports follow the judgement (Handle, emit, persistLoop).     *)
(***************************************************************************)
THEOREM PipelineImplementsLedger == Spec => ImplementsLedger
<1> USE ConstantsAssumption
<1>1. Init => EventLedger!LInit
  BY DEF Init, EventLedger!LInit, StatusOf, Ids, NoEvent
<1>2. IInv /\ [Next]_vars => [EventLedger!LNext]_(EventLedger!lvars)
  BY NextImplementsLedger
<1>3. QED
  BY <1>1, <1>2, SpecIInv, PTL DEF Spec, ImplementsLedger, EventLedger!LSpec

=============================================================================
