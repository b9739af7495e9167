------------------------------ MODULE Sequence ------------------------------
(***************************************************************************)
(* The sequence rules of the engine (internal/rules/sequence.go): a rule   *)
(* fires when its steps happen in order in one container within its        *)
(* window.  The engine keeps, per container, rule and step i, the latest   *)
(* started chain that has done steps 1 .. i; it forgets containers that    *)
(* are idle, exited or one too many, and everything when the policies are  *)
(* replaced.                                                               *)
(*                                                                         *)
(* Observe runs in two lock sections: Evaluate judges the event by single  *)
(* rules, advance moves the chains on.  Events are observed one at a time  *)
(* (the pipeline's mutex), but the policies may be replaced in between.    *)
(* The order is that of the calls; the window is measured in event time,   *)
(* which runs behind by up to MaxSkew when an event waited for its DNS     *)
(* answer.                                                                 *)
(***************************************************************************)
EXTENDS Integers, Sequences, FiniteSets

CONSTANTS
  Containers,       \* container IDs
  Kinds,            \* classes of events, by the steps they match
  Rules,            \* numbers of the sequence rules, in policy order
  Steps,            \* Steps[r]: the classes that match each step of r
  Window,           \* Window[r]: WindowSeconds of r
  Rank,             \* Rank[r]: 1 alert, 2 kill with dryRun, 3 kill
  AppliesTo,        \* AppliesTo[r]: containers in the scope of r
  PolicySets,       \* [single, rules]: rank of the single rules, enabled rules
  SeqIdle,          \* seqIdle
  SeqMaxContainers, \* seqMaxContainers
  MaxSkew,          \* how far an event may be behind the newest one
  MaxReplaced,      \* bound on the number of policy replacements
  MaxTime,          \* bound on event time
  MaxEvents         \* bound on the number of events

Time == 0 .. MaxTime
NoRule == 0

ASSUME SequenceAssumption ==
  /\ Rules \subseteq Nat \ {NoRule}
  /\ \A r \in Rules : Steps[r] \in Seq(SUBSET Kinds) /\ Len(Steps[r]) >= 2
  /\ Window \in [Rules -> Nat]
  /\ Rank \in [Rules -> 1 .. 3]
  /\ AppliesTo \in [Rules -> SUBSET Containers]
  /\ PolicySets \subseteq [single : [Kinds -> 0 .. 3], rules : SUBSET Rules]
  /\ SeqIdle \in Nat /\ MaxSkew \in Nat
  /\ MaxReplaced \in Nat /\ MaxTime \in Nat /\ MaxEvents \in Nat
  /\ SeqMaxContainers \in Nat \ {0}

VARIABLES
  policy,    \* the policies of the engine
  version,   \* how often they were replaced
  chains,    \* chains[c][r][i]: the events that did steps 1 .. i, or <<>>
  lastSeen,  \* time of the last event that made or extended a chain
  swept,     \* seqSwept, or Never
  pending,   \* the event between Evaluate and advance, or None
  verdict,   \* what the last Observe returned, until the next one begins
  log,       \* history: every event observed, in order
  since      \* history: since[c][r], the events a chain of r no longer sees

engine == <<policy, version, chains, lastSeen, swept>>
vars == <<engine, pending, verdict, log, since>>

Never == -1
None == [none |-> TRUE]
Event == [n : Nat, c : Containers, kind : Kinds, ts : Time]

Levels(r) == 1 .. Len(Steps[r]) - 1

\* Mutant: one slot too many, for the last step.
MutSlotForLast == [r \in Rules |-> [i \in 1 .. Len(Steps[r]) |-> <<>>]]

NoChains == [r \in Rules |-> [i \in Levels(r) |-> <<>>]]
Start(chain) == chain[1].ts

\* A container is in the engine's map exactly if one of its rules has begun.
Tracks(m, c) == \E r \in Rules : m[c][r][1] # <<>>
Tracked(m) == {c \in Containers : Tracks(m, c)}

TypeOK ==
  /\ policy \in PolicySets
  /\ version \in 0 .. MaxReplaced
  /\ \A c \in Containers, r \in Rules : chains[c][r] \in [Levels(r) -> Seq(Event)]
  /\ lastSeen \in [Containers -> Time]
  /\ swept \in Time \cup {Never}
  /\ pending = None \/ pending \in [ev : Event, single : 0 .. 3, version : 0 .. MaxReplaced]
  /\ log \in Seq(Event) /\ Len(log) <= MaxEvents
  /\ since \in [Containers -> [Rules -> 0 .. MaxEvents]]

Init ==
  /\ policy \in PolicySets
  /\ version = 0
  /\ chains = [c \in Containers |-> NoChains]
  /\ lastSeen = [c \in Containers |-> 0]
  /\ swept = Never
  /\ pending = None
  /\ verdict = None
  /\ log = <<>>
  /\ since = [c \in Containers |-> [r \in Rules |-> 0]]

-----------------------------------------------------------------------------
(* One rule, one event (step).  The loop runs from the last step to the    *)
(* first, so every step reads what the events before this one left.        *)

\* Step i can follow the chain that has done the steps before it.
Follows(r, i, levels, ev) ==
  /\ ev.kind \in Steps[r][i]
  /\ levels[i - 1] # <<>>
  /\ ev.ts - Start(levels[i - 1]) <= Window[r]

Completes(r, levels, ev) == Follows(r, Len(Steps[r]), levels, ev)

\* The chain of steps 1 .. i is made anew: of two chains the later one stays.
Renews(r, i, levels, ev) ==
  IF i = 1
  THEN ev.kind \in Steps[r][1] /\ (levels[1] = <<>> \/ ev.ts >= Start(levels[1]))
  ELSE Follows(r, i, levels, ev) /\ (levels[i] = <<>> \/ Start(levels[i - 1]) >= Start(levels[i]))

\* Mutant: the steps are visited from the first to the last.
MutForward(r, levels, ev) ==
  LET first == [levels EXCEPT ![1] = IF Renews(r, 1, levels, ev) THEN <<ev>> ELSE @]
  IN [i \in DOMAIN levels |->
        IF i = 1 \/ ~Renews(r, i, first, ev) THEN first[i] ELSE Append(first[i - 1], ev)]

\* The chains of rule r after an event that does not complete it.
Advanced(r, levels, ev) ==
  [i \in Levels(r) |->
     IF ~Renews(r, i, levels, ev) THEN levels[i]
     ELSE IF i = 1 THEN <<ev>> ELSE Append(levels[i - 1], ev)]

-----------------------------------------------------------------------------
(* The map of containers.                                                  *)

\* Mutant: a container that was quiet for just seqIdle is dropped as well.
MutSweepEarly(m, at) ==
  [c \in Containers |-> IF at - lastSeen[c] >= SeqIdle THEN NoChains ELSE m[c]]

\* sweep: containers without progress for longer than seqIdle are dropped.
Sweep(m, at) ==
  [c \in Containers |-> IF at - lastSeen[c] > SeqIdle THEN NoChains ELSE m[c]]

SweepDue(at) == swept = Never \/ at - swept >= SeqIdle

Full(m) == Cardinality(Tracked(m)) >= SeqMaxContainers

\* The containers chainsFor may drop to make room: the longest quiet ones.
Oldest(m) == {c \in Tracked(m) : \A d \in Tracked(m) : lastSeen[c] <= lastSeen[d]}

\* Mutant: no room is made for a new container.
MutNoEviction(m, at) == {{}}

\* chainsFor, for a container that is not tracked yet: the containers it drops
\* if sweeping leaves no room.
Evicted(m, at) ==
  IF Full(m) /\ Full(Sweep(m, at)) THEN {{c} : c \in Oldest(Sweep(m, at))} ELSE {{}}

-----------------------------------------------------------------------------
(* Observe.                                                                *)

\* Evaluate, under the engine's read lock: the single rules.
Evaluate(c, kind, ts) ==
  LET ev == [n |-> Len(log) + 1, c |-> c, kind |-> kind, ts |-> ts]
  IN /\ pending = None /\ Len(log) < MaxEvents
     /\ \A n \in DOMAIN log : ts >= log[n].ts - MaxSkew
     /\ log' = Append(log, ev)
     /\ pending' = [ev |-> ev, single |-> policy.single[kind], version |-> version]
     /\ verdict' = None
     /\ UNCHANGED <<engine, since>>

Active(c) == {r \in policy.rules : c \in AppliesTo[r]}
Done(m, ev) == {r \in Active(ev.c) : Completes(r, m[ev.c][r], ev)}

\* The chains of the event's container: a completed rule starts from nothing.
Moved(m, ev) ==
  [r \in Rules |-> IF r \in Done(m, ev) THEN NoChains[r]
                   ELSE IF r \in Active(ev.c) THEN Advanced(r, m[ev.c][r], ev)
                   ELSE m[ev.c][r]]

\* The strongest completed rule; of equals the first in policy order.
Strongest(done) ==
  CHOOSE r \in done : \A q \in done : Rank[r] > Rank[q] \/ (Rank[r] = Rank[q] /\ r <= q)

\* Observe's result: the sequence wins only if it is stronger.
Verdict(m, ev, single, judged) ==
  LET done == Done(m, ev)
  IN [c |-> ev.c, judged |-> judged, advanced |-> version,
      hits |-> {[rule |-> r, steps |-> Append(m[ev.c][r][Len(Steps[r]) - 1], ev)] : r \in done},
      winner |-> IF done # {} /\ Rank[Strongest(done)] > single THEN Strongest(done) ELSE NoRule]

\* advance, under the engine's lock again: all rules move on by one event.
Advance ==
  LET ev == pending.ev
      m == IF SweepDue(ev.ts) THEN Sweep(chains, ev.ts) ELSE chains
      moved == Moved(m, ev)
      begins == ~Tracks(m, ev.c) /\ \E r \in Rules : moved[r][1] # <<>>
      progress == \E r \in Rules \ Done(m, ev) : moved[r] # m[ev.c][r]
      resweep == begins /\ Full(m)
      kept == IF resweep THEN Sweep(m, ev.ts) ELSE m
  IN /\ pending # None
     /\ \E out \in IF begins THEN Evicted(m, ev.ts) ELSE {{}} :
          /\ chains' = [c \in Containers |->
                          IF c = ev.c THEN moved ELSE IF c \in out THEN NoChains ELSE kept[c]]
          /\ since' = [c \in Containers |-> [r \in Rules |->
                          IF c \in out \/ (c = ev.c /\ r \in Done(m, ev)) THEN Len(log) ELSE since[c][r]]]
     /\ lastSeen' = IF progress THEN [lastSeen EXCEPT ![ev.c] = ev.ts] ELSE lastSeen
     /\ swept' = IF SweepDue(ev.ts) \/ resweep THEN ev.ts ELSE swept
     /\ verdict' = Verdict(m, ev, pending.single, pending.version)
     /\ pending' = None
     /\ UNCHANGED <<policy, version, log>>

\* Forget: the container has exited or was isolated.
Forget(c) ==
  /\ pending = None
  /\ Tracks(chains, c)
  /\ chains' = [d \in Containers |-> IF d = c THEN NoChains ELSE chains[d]]
  /\ since' = [since EXCEPT ![c] = [r \in Rules |-> Len(log)]]
  /\ UNCHANGED <<policy, version, lastSeen, swept, pending, verdict, log>>

\* Mutant: the chains of the old policies stay.
MutReplaceKeeps(p) ==
  /\ version < MaxReplaced
  /\ policy' = p
  /\ version' = version + 1
  /\ UNCHANGED <<chains, lastSeen, swept, pending, verdict, log, since>>

\* Replace: new policies, no sequence state.
Replace(p) ==
  /\ version < MaxReplaced
  /\ policy' = p
  /\ version' = version + 1
  /\ chains' = [c \in Containers |-> NoChains]
  /\ swept' = Never
  /\ since' = [c \in Containers |-> [r \in Rules |->
                 IF pending = None THEN Len(log) ELSE Len(log) - 1]]
  /\ UNCHANGED <<lastSeen, pending, verdict, log>>

Next ==
  \/ \E c \in Containers, k \in Kinds, t \in Time : Evaluate(c, k, t)
  \/ Advance
  \/ \E c \in Containers : Forget(c)
  \/ \E p \in PolicySets : Replace(p)

Spec == Init /\ [][Next]_vars

-----------------------------------------------------------------------------
(* Properties.                                                             *)

\* The events at positions f of the log are the steps 1 .. k of rule r in c.
IsSequence(r, k, c, f) ==
  \A i \in 1 .. k :
    /\ log[f[i]].c = c /\ log[f[i]].kind \in Steps[r][i]
    /\ log[f[i]].ts - log[f[1]].ts <= Window[r]
    /\ i < k => f[i] < f[i + 1]

\* A reported hit of rule r in c: all steps, as they are in the log.
IsHit(r, c, steps) ==
  LET f == [i \in 1 .. Len(steps) |-> steps[i].n]
  IN /\ Len(steps) = Len(Steps[r]) /\ IsSequence(r, Len(steps), c, f)
     /\ \A i \in 1 .. Len(steps) : steps[i] = log[f[i]]

\* The newest event is the last step of a sequence since the last reset.
Occurs(r, c) ==
  \E f \in [1 .. Len(Steps[r]) -> since[c][r] + 1 .. Len(log)] :
    IsSequence(r, Len(Steps[r]), c, f) /\ f[Len(Steps[r])] = Len(log)

(***************************************************************************)
(* A rule fires exactly when the events observed since its last reset      *)
(* contain its steps in order within the window: keeping one chain per     *)
(* step, sweeping quiet containers and visiting the steps backwards lose   *)
(* no sequence and invent none (advance, step, sweep).                     *)
(***************************************************************************)
FiresExactly ==
  [][pending # None /\ pending' = None =>
       {h.rule : h \in verdict'.hits} = {r \in Active(pending.ev.c) : Occurs(r, pending.ev.c)}]_vars

(***************************************************************************)
(* The steps a verdict reports are different events of one container, in   *)
(* the order they were observed, each matching its step, within the window *)
(* (sequenceVerdict).                                                      *)
(***************************************************************************)
HitsAreSequences ==
  verdict # None => \A h \in verdict.hits : IsHit(h.rule, verdict.c, h.steps)

(***************************************************************************)
(* A verdict that carries a sequence was judged and advanced under one set *)
(* of policies, although Observe takes the lock twice (Observe, Replace).  *)
(***************************************************************************)
OnePolicySet ==
  verdict # None /\ verdict.hits # {} => verdict.judged = verdict.advanced

(***************************************************************************)
(* The engine never tracks more than seqMaxContainers (chainsFor).         *)
(***************************************************************************)
TrackedBounded == Cardinality(Tracked(chains)) <= SeqMaxContainers

(***************************************************************************)
(* sequence.go says of the containers sweep drops: all their chains are    *)
(* outside the window.                                                     *)
(***************************************************************************)
SweepDropsOnlyExpired ==
  pending # None /\ SweepDue(pending.ev.ts) =>
    \A c \in Containers, r \in Rules :
      Sweep(chains, pending.ev.ts)[c] # chains[c] =>
        \A i \in Levels(r) : chains[c][r][i] # <<>> =>
          pending.ev.ts - Start(chains[c][r][i]) > Window[r]
=============================================================================
