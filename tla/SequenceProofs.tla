--------------------------- MODULE SequenceProofs ---------------------------
(***************************************************************************)
(* Proofs about the sequence rules, for every set of rules, containers and *)
(* bounds: type correctness, that every reported hit is a sequence of      *)
(* observed events, that a verdict with a sequence never mixes two sets of *)
(* policies, that few containers are tracked, and that a rule fires        *)
(* exactly when its steps occurred.                                        *)
(***************************************************************************)
EXTENDS Sequence, FiniteSetTheorems, TLAPS

\* The events that advance has seen: not the one between the two halves.
Advances == IF pending = None THEN Len(log) ELSE Len(log) - 1

(***************************************************************************)
(* A chain is genuine: k observed events of container c, in order, each    *)
(* matching its step of rule r, within the window of the first.            *)
(***************************************************************************)
Genuine(r, k, c, chain) ==
  /\ chain \in Seq(Event) /\ Len(chain) = k
  /\ \A i \in 1 .. k :
       /\ chain[i].n \in 1 .. Len(log) /\ chain[i] = log[chain[i].n]
       /\ chain[i].c = c /\ chain[i].kind \in Steps[r][i]
       /\ chain[i].ts - chain[1].ts <= Window[r]
  /\ \A i \in 1 .. k - 1 : chain[i].n < chain[i + 1].n

\* All of a chain was seen before position p of the log.
Before(chain, p) == \A i \in 1 .. Len(chain) : chain[i].n < p

ChainsGenuine(m, p) ==
  \A c \in Containers, r \in Rules : \A i \in Levels(r) :
    m[c][r][i] # <<>> => Genuine(r, i, c, m[c][r][i]) /\ Before(m[c][r][i], p)

PendingInv ==
  pending # None =>
    /\ pending.ev = log[Len(log)] /\ pending.ev.n = Len(log) /\ Len(log) > 0
    /\ \/ pending.version = version
       \/ \A c \in Containers, r \in Rules : \A i \in Levels(r) : chains[c][r][i] = <<>>

IInv ==
  /\ TypeOK /\ PendingInv
  /\ ChainsGenuine(chains, Advances + 1)
  /\ HitsAreSequences /\ OnePolicySet

-----------------------------------------------------------------------------
(* Lemmas on the chains.                                                   *)

(***************************************************************************)
(* Arithmetic of a rule with at least two steps (MinSequenceSteps).        *)
(***************************************************************************)
LEMMA TwoOrMore ==
  ASSUME NEW len \in Nat, len >= 2
  PROVE  /\ len - 1 \in Nat \ {0} /\ (len - 1) + 1 = len
         /\ len - 1 \in 1 .. len - 1 /\ 1 \in 1 .. len - 1
OBVIOUS

(***************************************************************************)
(* What was seen before an event was seen before the next one.             *)
(***************************************************************************)
LEMMA StillBefore ==
  ASSUME NEW chain \in Seq(Event), NEW p \in Nat, Before(chain, p)
  PROVE  Before(chain, p + 1)
<1>1. ASSUME NEW i \in 1 .. Len(chain) PROVE chain[i].n < p + 1
  <2>1. chain[i] \in Event
    OBVIOUS
  <2>2. chain[i].n \in Nat /\ chain[i].n < p
    BY <2>1 DEF Event, Before
  <2>3. QED
    BY <2>2
<1>2. QED
  BY <1>1 DEF Before

LEMMA AppendedBefore ==
  ASSUME NEW chain \in Seq(Event), NEW ev \in Event, Before(chain, ev.n)
  PROVE  Before(Append(chain, ev), ev.n + 1)
<1>1. Len(chain) \in Nat /\ Len(Append(chain, ev)) = Len(chain) + 1 /\ ev.n \in Nat
  BY DEF Event
<1>2. ASSUME NEW i \in 1 .. Len(chain) + 1 PROVE Append(chain, ev)[i].n < ev.n + 1
  <2>1. CASE i \in 1 .. Len(chain)
    <3>1. Append(chain, ev)[i] = chain[i]
      BY <2>1
    <3>2. chain[i].n < ev.n + 1
      BY <1>1, <2>1, StillBefore DEF Before
    <3>3. QED
      BY <3>1, <3>2
  <2>2. CASE i = Len(chain) + 1
    <3>1. Append(chain, ev)[i] = ev
      BY <2>2
    <3>2. QED
      BY <1>1, <3>1
  <2>3. QED
    BY <1>1, <2>1, <2>2
<1>3. QED
  BY <1>1, <1>2 DEF Before

(***************************************************************************)
(* A verdict and a log that stay keep their hits (Forget, Replace).        *)
(***************************************************************************)
LEMMA SameHits ==
  ASSUME UNCHANGED log
  PROVE  \A r, c, steps : IsHit(r, c, steps) <=> IsHit(r, c, steps)'
BY DEF IsHit, IsSequence

LEMMA SameVerdict ==
  ASSUME IInv, UNCHANGED <<verdict, log>>
  PROVE  HitsAreSequences' /\ OnePolicySet'
<1>1. HitsAreSequences /\ OnePolicySet
  BY DEF IInv
<1>2. \A r, c, steps : IsHit(r, c, steps) <=> IsHit(r, c, steps)'
  BY SameHits
<1>3. OnePolicySet'
  BY <1>1 DEF OnePolicySet
<1>4. HitsAreSequences'
  BY <1>1, <1>2 DEF HitsAreSequences
<1>5. QED
  BY <1>3, <1>4

(***************************************************************************)
(* What the constants give for a rule (SequenceAssumption).                *)
(***************************************************************************)
LEMMA RuleFacts ==
  ASSUME SequenceAssumption, NEW r \in Rules
  PROVE  /\ Steps[r] \in Seq(SUBSET Kinds) /\ Len(Steps[r]) \in Nat /\ Len(Steps[r]) >= 2
         /\ Window[r] \in Nat
         /\ Len(Steps[r]) - 1 \in Nat \ {0} /\ (Len(Steps[r]) - 1) + 1 = Len(Steps[r])
         /\ Len(Steps[r]) - 1 \in Levels(r) /\ 1 \in Levels(r)
<1>1. Steps[r] \in Seq(SUBSET Kinds) /\ Len(Steps[r]) >= 2 /\ Window[r] \in Nat
  BY DEF SequenceAssumption
<1>2. Len(Steps[r]) \in Nat
  BY <1>1
<1>3. QED
  BY <1>1, <1>2, TwoOrMore DEF Levels

(***************************************************************************)
(* A first step is a genuine chain (step, i = 0).                          *)
(***************************************************************************)
LEMMA FirstStepGenuine ==
  ASSUME SequenceAssumption, NEW r \in Rules, NEW ev \in Event,
         ev.n \in 1 .. Len(log), ev = log[ev.n], ev.kind \in Steps[r][1]
  PROVE  Genuine(r, 1, ev.c, <<ev>>) /\ <<ev>> # <<>>
<1>1. Window[r] \in Nat /\ ev.ts \in Int
  BY RuleFacts DEF Event, Time
<1>2. <<ev>> \in Seq(Event) /\ Len(<<ev>>) = 1 /\ <<ev>>[1] = ev
  OBVIOUS
<1>3. ev.ts - ev.ts <= Window[r]
  BY <1>1
<1>4. QED
  BY <1>2, <1>3 DEF Genuine

(***************************************************************************)
(* A chain extended by a later event that follows it is genuine (step).    *)
(***************************************************************************)
LEMMA ExtensionGenuine ==
  ASSUME SequenceAssumption, NEW r \in Rules, NEW k \in Nat \ {0}, NEW ev \in Event, NEW chain,
         ev.n \in 1 .. Len(log), ev = log[ev.n], ev.kind \in Steps[r][k + 1],
         Genuine(r, k, ev.c, chain), Before(chain, ev.n), ev.ts - Start(chain) <= Window[r]
  PROVE  Genuine(r, k + 1, ev.c, Append(chain, ev)) /\ Append(chain, ev) # <<>>
<1> DEFINE long == Append(chain, ev)
<1>1. chain \in Seq(Event) /\ Len(chain) = k
  BY DEF Genuine
<1>2. /\ long \in Seq(Event) /\ Len(long) = k + 1 /\ long[k + 1] = ev
      /\ \A i \in 1 .. k : long[i] = chain[i]
  BY <1>1
<1> HIDE DEF long
<1>3. long[1] = chain[1]
  BY <1>2
<1>4. ASSUME NEW i \in 1 .. k + 1
      PROVE  /\ long[i].n \in 1 .. Len(log) /\ long[i] = log[long[i].n]
             /\ long[i].c = ev.c /\ long[i].kind \in Steps[r][i]
             /\ long[i].ts - long[1].ts <= Window[r]
  <2>1. CASE i \in 1 .. k
    BY <1>2, <1>3, <2>1 DEF Genuine
  <2>2. CASE i = k + 1
    BY <1>2, <1>3, <2>2 DEF Start
  <2>3. QED
    BY <2>1, <2>2
<1>5. ASSUME NEW i \in 1 .. k PROVE long[i].n < long[i + 1].n
  <2>1. CASE i \in 1 .. k - 1
    <3>1. i + 1 \in 1 .. k /\ i \in 1 .. k
      BY <2>1
    <3>2. QED
      BY <1>2, <2>1, <3>1 DEF Genuine
  <2>2. CASE i = k
    BY <1>1, <1>2, <2>2 DEF Before
  <2>3. QED
    BY <2>1, <2>2
<1>6. Genuine(r, k + 1, ev.c, long)
  BY <1>2, <1>4, <1>5 DEF Genuine
<1>7. long # <<>>
  BY <1>2
<1>8. QED
  BY <1>6, <1>7 DEF long

(***************************************************************************)
(* One event leaves the chains of a rule genuine (step).                   *)
(***************************************************************************)
LEMMA AdvancedGenuine ==
  ASSUME SequenceAssumption, NEW r \in Rules, NEW ev \in Event,
         ev.n \in 1 .. Len(log), ev = log[ev.n],
         NEW levels \in [Levels(r) -> Seq(Event)],
         \A i \in Levels(r) : levels[i] # <<>> => Genuine(r, i, ev.c, levels[i]) /\ Before(levels[i], ev.n)
  PROVE  /\ Advanced(r, levels, ev) \in [Levels(r) -> Seq(Event)]
         /\ \A i \in Levels(r) : Advanced(r, levels, ev)[i] # <<>> =>
              Genuine(r, i, ev.c, Advanced(r, levels, ev)[i]) /\ Before(Advanced(r, levels, ev)[i], ev.n + 1)
<1> DEFINE next == Advanced(r, levels, ev)
<1>1. ev.n \in Nat /\ \A e \in Event : e.n \in Nat
  BY DEF Event
<1>2. ASSUME NEW i \in Levels(r), next[i] # <<>>
      PROVE  Genuine(r, i, ev.c, next[i]) /\ Before(next[i], ev.n + 1)
  <2>1. i \in Nat \ {0} /\ i <= Len(Steps[r]) - 1 /\ Len(Steps[r]) \in Nat
    BY RuleFacts DEF Levels
  <2>2. CASE ~Renews(r, i, levels, ev)
    <3>1. next[i] = levels[i]
      BY <2>2 DEF Advanced
    <3>2. Genuine(r, i, ev.c, levels[i]) /\ Before(levels[i], ev.n)
      BY <1>2, <3>1
    <3>3. Before(levels[i], ev.n + 1)
      BY <1>1, <3>2, StillBefore DEF Genuine
    <3>4. QED
      BY <3>1, <3>2, <3>3
  <2>3. CASE Renews(r, i, levels, ev) /\ i = 1
    <3>1. next[i] = <<ev>> /\ ev.kind \in Steps[r][1]
      BY <2>3 DEF Advanced, Renews
    <3>2. Genuine(r, 1, ev.c, <<ev>>)
      BY <3>1, FirstStepGenuine
    <3>3. Before(<<ev>>, ev.n + 1)
      BY <1>1 DEF Before
    <3>4. QED
      BY <2>3, <3>1, <3>2, <3>3
  <2>4. CASE Renews(r, i, levels, ev) /\ i # 1
    <3>1. /\ next[i] = Append(levels[i - 1], ev) /\ ev.kind \in Steps[r][i] /\ levels[i - 1] # <<>>
          /\ ev.ts - Start(levels[i - 1]) <= Window[r]
      BY <2>4 DEF Advanced, Renews, Follows
    <3>2. i - 1 \in Levels(r) /\ i - 1 \in Nat \ {0} /\ i = (i - 1) + 1
      BY <2>1, <2>4, SMTT(20) DEF Levels
    <3>3. Genuine(r, i - 1, ev.c, levels[i - 1]) /\ Before(levels[i - 1], ev.n) /\ levels[i - 1] \in Seq(Event)
      BY <3>1, <3>2
    <3>4. Genuine(r, (i - 1) + 1, ev.c, Append(levels[i - 1], ev))
      BY <3>1, <3>2, <3>3, ExtensionGenuine
    <3>5. Before(Append(levels[i - 1], ev), ev.n + 1)
      BY <3>3, AppendedBefore
    <3>6. QED
      BY <3>1, <3>2, <3>4, <3>5
  <2>5. QED
    BY <2>2, <2>3, <2>4
<1>3. ASSUME NEW i \in Levels(r) PROVE next[i] \in Seq(Event)
  <2>1. CASE next[i] = <<>>
    BY <2>1
  <2>2. CASE next[i] # <<>>
    BY <1>2, <2>2 DEF Genuine
  <2>3. QED
    BY <2>1, <2>2
<1>4. next \in [Levels(r) -> Seq(Event)]
  BY <1>3 DEF Advanced
<1>5. QED
  BY <1>2, <1>4

\* The type of the map of containers.
MapType(m) == \A c \in Containers, r \in Rules : m[c][r] \in [Levels(r) -> Seq(Event)]

(***************************************************************************)
(* Chains that are cleared are genuine, and of the right type.             *)
(***************************************************************************)
LEMMA NoChainsType ==
  ASSUME NEW r \in Rules
  PROVE  NoChains[r] \in [Levels(r) -> Seq(Event)] /\ \A i \in Levels(r) : NoChains[r][i] = <<>>
BY DEF NoChains

(***************************************************************************)
(* Sweeping keeps chains or clears them (sweep).                           *)
(***************************************************************************)
LEMMA SweepKeeps ==
  ASSUME NEW m, NEW at, NEW p, MapType(m), ChainsGenuine(m, p)
  PROVE  MapType(Sweep(m, at)) /\ ChainsGenuine(Sweep(m, at), p)
<1>1. ASSUME NEW c \in Containers, NEW r \in Rules
      PROVE  /\ Sweep(m, at)[c][r] \in [Levels(r) -> Seq(Event)]
             /\ \A i \in Levels(r) : Sweep(m, at)[c][r][i] = m[c][r][i] \/ Sweep(m, at)[c][r][i] = <<>>
  BY NoChainsType DEF Sweep, MapType
<1>2. QED
  BY <1>1 DEF MapType, ChainsGenuine

(***************************************************************************)
(* What came before an event came before the next one.                     *)
(***************************************************************************)
LEMMA LaterStillBefore ==
  ASSUME NEW r, NEW i, NEW c, NEW chain, NEW p \in 1 .. Len(log), log \in Seq(Event),
         Genuine(r, i, c, chain), Before(chain, p)
  PROVE  Before(chain, p + 1)
<1>1. ASSUME NEW j \in 1 .. Len(chain) PROVE chain[j].n < p + 1
  <2>1. chain[j].n < p
    BY DEF Before
  <2>2. chain[j].n \in Nat /\ p \in Nat
    BY DEF Genuine
  <2>3. QED
    BY <2>1, <2>2
<1>2. QED
  BY <1>1 DEF Before

(***************************************************************************)
(* The chains of the event's container after the event (advance).          *)
(***************************************************************************)
LEMMA MovedGenuine ==
  ASSUME SequenceAssumption, NEW m, MapType(m), NEW ev \in Event,
         ev.n \in 1 .. Len(log), ev = log[ev.n], ChainsGenuine(m, ev.n), NEW r \in Rules
  PROVE  /\ Moved(m, ev)[r] \in [Levels(r) -> Seq(Event)]
         /\ \A i \in Levels(r) : Moved(m, ev)[r][i] # <<>> =>
              Genuine(r, i, ev.c, Moved(m, ev)[r][i]) /\ Before(Moved(m, ev)[r][i], ev.n + 1)
<1>1. ev.c \in Containers /\ ev.n \in Nat /\ \A e \in Event : e.n \in Nat
  BY DEF Event
<1>2. /\ m[ev.c][r] \in [Levels(r) -> Seq(Event)]
      /\ \A i \in Levels(r) : m[ev.c][r][i] # <<>> => Genuine(r, i, ev.c, m[ev.c][r][i]) /\ Before(m[ev.c][r][i], ev.n)
  BY <1>1 DEF MapType, ChainsGenuine
<1>3. \A i \in Levels(r) : m[ev.c][r][i] # <<>> => Before(m[ev.c][r][i], ev.n + 1)
  BY <1>1, <1>2, StillBefore DEF Genuine
<1>4. CASE r \in Done(m, ev)
  BY <1>4, NoChainsType DEF Moved
<1>5. CASE r \notin Done(m, ev) /\ r \in Active(ev.c)
  BY <1>2, <1>5, AdvancedGenuine DEF Moved
<1>6. CASE r \notin Done(m, ev) /\ r \notin Active(ev.c)
  BY <1>2, <1>3, <1>6 DEF Moved
<1>7. QED
  BY <1>4, <1>5, <1>6

(***************************************************************************)
(* A genuine chain of all steps is a sequence of the log.                  *)
(***************************************************************************)
LEMMA GenuineIsSequence ==
  ASSUME SequenceAssumption, NEW r \in Rules, NEW c, NEW chain, Genuine(r, Len(Steps[r]), c, chain)
  PROVE  IsHit(r, c, chain)
<1> DEFINE k == Len(Steps[r])
<1> DEFINE f == [i \in 1 .. k |-> chain[i].n]
<1>1. k \in Nat /\ k >= 2 /\ 1 \in 1 .. k
  BY RuleFacts
<1>2. Len(chain) = k /\ \A i \in 1 .. k : f[i] = chain[i].n /\ chain[i] = log[f[i]]
  BY DEF Genuine
<1>3. ASSUME NEW i \in 1 .. k
      PROVE  /\ log[f[i]].c = c /\ log[f[i]].kind \in Steps[r][i]
             /\ log[f[i]].ts - log[f[1]].ts <= Window[r]
             /\ i < k => f[i] < f[i + 1]
  <2>1. /\ log[f[i]] = chain[i] /\ log[f[1]] = chain[1]
        /\ chain[i].c = c /\ chain[i].kind \in Steps[r][i] /\ chain[i].ts - chain[1].ts <= Window[r]
    BY <1>1, <1>2 DEF Genuine
  <2>2. ASSUME i < k PROVE f[i] < f[i + 1]
    <3>1. i \in 1 .. k - 1 /\ i + 1 \in 1 .. k
      BY <1>1, <2>2
    <3>2. QED
      BY <1>2, <3>1 DEF Genuine
  <2>3. QED
    BY <2>1, <2>2
<1>4. QED
  BY <1>2, <1>3 DEF IsHit, IsSequence

(***************************************************************************)
(* The hits of a verdict are sequences (sequenceVerdict).                  *)
(***************************************************************************)
LEMMA VerdictIsGenuine ==
  ASSUME SequenceAssumption, policy \in PolicySets, NEW m, MapType(m), NEW ev \in Event,
         ev.n \in 1 .. Len(log), ev = log[ev.n], ChainsGenuine(m, ev.n), NEW single, NEW judged,
         NEW h \in Verdict(m, ev, single, judged).hits
  PROVE  /\ h.rule \in Rules /\ Genuine(h.rule, Len(Steps[h.rule]), ev.c, h.steps)
         /\ h.rule \in Done(m, ev)
<1>1. PICK r \in Done(m, ev) : h = [rule |-> r, steps |-> Append(m[ev.c][r][Len(Steps[r]) - 1], ev)]
  BY DEF Verdict
<1>2. r \in Rules /\ Completes(r, m[ev.c][r], ev)
  BY <1>1 DEF Done, Active, SequenceAssumption
<1>3. ev.c \in Containers
  BY DEF Event
<1> DEFINE k == Len(Steps[r]) - 1
<1>4. k \in Nat \ {0} /\ k \in Levels(r) /\ k + 1 = Len(Steps[r])
  BY <1>2, RuleFacts
<1>5. /\ ev.kind \in Steps[r][k + 1] /\ m[ev.c][r][k] # <<>>
      /\ ev.ts - Start(m[ev.c][r][k]) <= Window[r]
  BY <1>2, <1>4 DEF Completes, Follows
<1>6. Genuine(r, k, ev.c, m[ev.c][r][k]) /\ Before(m[ev.c][r][k], ev.n)
  BY <1>2, <1>3, <1>4, <1>5 DEF ChainsGenuine
<1> HIDE DEF k
<1>7. Genuine(r, k + 1, ev.c, Append(m[ev.c][r][k], ev))
  BY <1>2, <1>4, <1>5, <1>6, ExtensionGenuine
<1>8. h.rule = r /\ h.steps = Append(m[ev.c][r][k], ev)
  BY <1>1 DEF k
<1>9. QED
  BY <1>1, <1>2, <1>4, <1>7, <1>8

(***************************************************************************)
(* Without chains nothing completes.                                       *)
(***************************************************************************)
LEMMA EmptyCompletesNothing ==
  ASSUME SequenceAssumption, policy \in PolicySets, NEW m, NEW ev \in Event,
         \A c \in Containers, r \in Rules : \A i \in Levels(r) : m[c][r][i] = <<>>
  PROVE  Done(m, ev) = {}
<1>1. ev.c \in Containers
  BY DEF Event
<1>2. ASSUME NEW r \in Done(m, ev) PROVE FALSE
  <2>1. r \in Rules /\ m[ev.c][r][Len(Steps[r]) - 1] # <<>>
    BY DEF Done, Active, Completes, Follows, SequenceAssumption
  <2>2. QED
    BY <1>1, <2>1, RuleFacts
<1>3. QED
  BY <1>2

(***************************************************************************)
(* The second half of Observe preserves the invariant (advance).           *)
(***************************************************************************)
LEMMA AdvanceKeepsIInv == ASSUME SequenceAssumption, IInv, Advance PROVE IInv'
<1> DEFINE ev == pending.ev
<1> DEFINE m == IF SweepDue(ev.ts) THEN Sweep(chains, ev.ts) ELSE chains
<1> DEFINE moved == Moved(m, ev)
<1> DEFINE kept == IF (~Tracks(m, ev.c) /\ \E r \in Rules : moved[r][1] # <<>>) /\ Full(m) THEN Sweep(m, ev.ts) ELSE m
<1>1. /\ pending # None /\ ev \in Event /\ ev.n = Len(log) /\ ev = log[ev.n] /\ ev.n \in 1 .. Len(log)
      /\ log \in Seq(Event) /\ Len(log) \in Nat /\ policy \in PolicySets /\ ev.c \in Containers /\ ev.ts \in Time
  <2>1. pending # None
    BY DEF Advance
  <2>2. TypeOK /\ PendingInv
    BY DEF IInv
  <2>3. ev \in Event /\ log \in Seq(Event) /\ Len(log) \in Nat /\ policy \in PolicySets
    BY <2>1, <2>2 DEF TypeOK
  <2>4. ev = log[Len(log)] /\ ev.n = Len(log) /\ Len(log) > 0
    BY <2>1, <2>2 DEF PendingInv
  <2> HIDE DEF ev
  <2>5. ev.c \in Containers /\ ev.ts \in Time
    BY <2>3 DEF Event
  <2>6. QED
    BY <2>1, <2>3, <2>4, <2>5
<1>2. /\ pending' = None /\ UNCHANGED <<policy, version, log>>
      /\ verdict' = Verdict(m, ev, pending.single, pending.version)
      /\ swept' \in {swept, ev.ts} /\ lastSeen' \in {lastSeen, [lastSeen EXCEPT ![ev.c] = ev.ts]}
  BY DEF Advance
<1>3. PICK out \in (IF ~Tracks(m, ev.c) /\ \E r \in Rules : moved[r][1] # <<>>
                     THEN Evicted(m, ev.ts) ELSE {{}}) :
        /\ chains' = [c \in Containers |->
                        IF c = ev.c THEN moved ELSE IF c \in out THEN NoChains ELSE kept[c]]
        /\ since' = [c \in Containers |-> [r \in Rules |->
                        IF c \in out \/ (c = ev.c /\ r \in Done(m, ev)) THEN Len(log) ELSE since[c][r]]]
  BY DEF Advance
<1>4. Advances + 1 = ev.n /\ Advances' = Len(log)
  BY <1>1, <1>2 DEF Advances
<1>5. MapType(chains) /\ ChainsGenuine(chains, ev.n)
  BY <1>4 DEF IInv, TypeOK, MapType
<1>6. MapType(m) /\ ChainsGenuine(m, ev.n)
  BY <1>5, SweepKeeps
<1>7. MapType(kept) /\ ChainsGenuine(kept, ev.n)
  BY <1>6, SweepKeeps
<1>8. ASSUME NEW c \in Containers, NEW r \in Rules
      PROVE  /\ chains'[c][r] \in [Levels(r) -> Seq(Event)]
             /\ \A i \in Levels(r) : chains'[c][r][i] # <<>> =>
                  Genuine(r, i, c, chains'[c][r][i]) /\ Before(chains'[c][r][i], ev.n + 1)
  <2> HIDE DEF m, moved, kept
  <2>1. CASE c = ev.c
    <3>1. chains'[c] = moved
      BY <1>3, <2>1
    <3>2. QED
      BY <1>1, <1>6, <2>1, <3>1, MovedGenuine DEF moved
  <2>2. CASE c # ev.c /\ c \in out
    <3>1. chains'[c] = NoChains
      BY <1>3, <2>2
    <3>2. QED
      BY <3>1, NoChainsType
  <2>3. CASE c # ev.c /\ c \notin out
    <3>1. chains'[c] = kept[c]
      BY <1>3, <2>3
    <3>2. /\ kept[c][r] \in [Levels(r) -> Seq(Event)]
          /\ \A i \in Levels(r) : kept[c][r][i] # <<>> => Genuine(r, i, c, kept[c][r][i]) /\ Before(kept[c][r][i], ev.n)
      BY <1>7 DEF MapType, ChainsGenuine
    <3>3. ASSUME NEW i \in Levels(r), kept[c][r][i] # <<>>
          PROVE  Before(kept[c][r][i], ev.n + 1)
      BY <1>1, <3>2, <3>3, LaterStillBefore
    <3>4. QED
      BY <3>1, <3>2, <3>3
  <2>4. QED
    BY <2>1, <2>2, <2>3
<1>9. TypeOK'
  <2>1. \A c \in Containers, r \in Rules : chains'[c][r] \in [Levels(r) -> Seq(Event)]
    BY <1>8
  <2>2. lastSeen' \in [Containers -> Time] /\ swept' \in Time \cup {Never}
    BY <1>1, <1>2 DEF IInv, TypeOK
  <2>3. since' \in [Containers -> [Rules -> 0 .. MaxEvents]]
    <3>1. Len(log) \in 0 .. MaxEvents /\ since \in [Containers -> [Rules -> 0 .. MaxEvents]]
      BY <1>1 DEF IInv, TypeOK, SequenceAssumption
    <3>2. QED
      BY <1>3, <3>1
  <2>4. QED
    BY <1>2, <2>1, <2>2, <2>3 DEF IInv, TypeOK
<1>10. ChainsGenuine(chains, Advances + 1)'
  <2>1. Advances' + 1 = ev.n + 1
    BY <1>1, <1>4
  <2>2. ASSUME NEW c \in Containers, NEW r \in Rules, NEW i \in Levels(r), chains'[c][r][i] # <<>>
        PROVE  Genuine(r, i, c, chains[c][r][i])' /\ Before(chains[c][r][i], Advances + 1)'
    <3>1. Genuine(r, i, c, chains'[c][r][i]) /\ Before(chains'[c][r][i], ev.n + 1)
      BY <1>8, <2>2
    <3>2. Genuine(r, i, c, chains[c][r][i])'
      BY <1>2, <3>1 DEF Genuine
    <3>3. Before(chains[c][r][i], Advances + 1)'
      BY <2>1, <3>1 DEF Before
    <3>4. QED
      BY <3>2, <3>3
  <2>3. QED
    BY <2>2 DEF ChainsGenuine
<1>11. HitsAreSequences'
  <2>1. ASSUME NEW h \in verdict'.hits
        PROVE  IsHit(h.rule, ev.c, h.steps)
    <3>1. h.rule \in Rules /\ Genuine(h.rule, Len(Steps[h.rule]), ev.c, h.steps)
      <4>1. h \in Verdict(m, ev, pending.single, pending.version).hits
        BY <1>2, <2>1
      <4> HIDE DEF m
      <4>2. QED
        BY <1>1, <1>6, <4>1, VerdictIsGenuine
    <3>2. QED
      BY <3>1, GenuineIsSequence
  <2>2. verdict'.c = ev.c
    BY <1>2 DEF Verdict
  <2>3. \A r, c, steps : IsHit(r, c, steps) <=> IsHit(r, c, steps)'
    BY <1>2, SameHits
  <2> HIDE DEF ev
  <2>4. QED
    BY <2>1, <2>2, <2>3 DEF HitsAreSequences
<1>12. OnePolicySet'
  <2>1. verdict'.judged = pending.version /\ verdict'.advanced = version
    BY <1>2 DEF Verdict
  <2>2. CASE pending.version = version
    BY <2>1, <2>2 DEF OnePolicySet
  <2>3. CASE \A c \in Containers, r \in Rules : \A i \in Levels(r) : chains[c][r][i] = <<>>
    <3>1. \A c \in Containers, r \in Rules : \A i \in Levels(r) : m[c][r][i] = <<>>
      BY <2>3, NoChainsType DEF Sweep
    <3>2. Done(m, ev) = {}
      <4>1. ev \in Event /\ policy \in PolicySets
        BY <1>1
      <4> HIDE DEF ev, m
      <4>2. QED
        BY <3>1, <4>1, EmptyCompletesNothing
    <3>3. verdict'.hits = {}
      BY <1>2, <3>2 DEF Verdict
    <3>4. QED
      BY <3>3 DEF OnePolicySet
  <2>4. QED
    BY <1>1, <2>2, <2>3 DEF IInv, PendingInv
<1>13. PendingInv'
  BY <1>2 DEF PendingInv
<1>14. QED
  BY <1>9, <1>10, <1>11, <1>12, <1>13 DEF IInv

(***************************************************************************)
(* Clearing chains keeps the map genuine (Forget, Replace).                *)
(***************************************************************************)
LEMMA ClearedStaysGenuine ==
  ASSUME IInv, UNCHANGED <<pending, log>>,
         \A c \in Containers, r \in Rules :
           /\ chains'[c][r] \in [Levels(r) -> Seq(Event)]
           /\ \A i \in Levels(r) : chains'[c][r][i] \in {chains[c][r][i], <<>>}
  PROVE  MapType(chains)' /\ ChainsGenuine(chains, Advances + 1)'
<1>1. MapType(chains)'
  BY DEF MapType
<1>2. Advances' = Advances
  BY DEF Advances
<1>3. ASSUME NEW c \in Containers, NEW r \in Rules, NEW i \in Levels(r), chains'[c][r][i] # <<>>
      PROVE  Genuine(r, i, c, chains[c][r][i])' /\ Before(chains[c][r][i], Advances + 1)'
  <2>1. chains'[c][r][i] = chains[c][r][i]
    BY <1>3
  <2>2. Genuine(r, i, c, chains[c][r][i]) /\ Before(chains[c][r][i], Advances + 1)
    BY <1>3, <2>1 DEF IInv, ChainsGenuine
  <2>3. Genuine(r, i, c, chains[c][r][i])'
    BY <2>1, <2>2 DEF Genuine
  <2>4. Before(chains[c][r][i], Advances + 1)'
    BY <1>2, <2>1, <2>2 DEF Before
  <2>5. QED
    BY <2>3, <2>4
<1>4. QED
  BY <1>1, <1>3 DEF ChainsGenuine

(***************************************************************************)
(* The first half of Observe preserves the invariant (Evaluate).           *)
(***************************************************************************)
LEMMA EvaluateKeepsIInv ==
  ASSUME SequenceAssumption, IInv, NEW c \in Containers, NEW k \in Kinds, NEW t \in Time, Evaluate(c, k, t)
  PROVE  IInv'
<1> DEFINE ev == [n |-> Len(log) + 1, c |-> c, kind |-> k, ts |-> t]
<1>1. /\ log \in Seq(Event) /\ Len(log) \in Nat /\ policy \in PolicySets /\ pending = None
      /\ Len(log) < MaxEvents
  BY DEF Evaluate, IInv, TypeOK
<1>2. /\ log' = Append(log, ev) /\ verdict' = None
      /\ pending' = [ev |-> ev, single |-> policy.single[k], version |-> version]
      /\ UNCHANGED <<policy, version, chains, lastSeen, swept, since>>
  BY DEF Evaluate, engine
<1>3. ev \in Event /\ ev.n = Len(log) + 1
  BY <1>1 DEF Event
<1> HIDE DEF ev
<1>4. /\ log' \in Seq(Event) /\ Len(log') = Len(log) + 1 /\ log'[Len(log')] = ev
      /\ \A n \in 1 .. Len(log) : log'[n] = log[n]
  BY <1>1, <1>2, <1>3
<1>5. pending' # None /\ pending'.ev = ev /\ pending'.version = version
  BY <1>2 DEF None
<1>6. TypeOK'
  <2>1. policy.single[k] \in 0 .. 3 /\ version \in 0 .. MaxReplaced
    BY <1>1 DEF SequenceAssumption, IInv, TypeOK
  <2>2. pending' \in [ev : Event, single : 0 .. 3, version : 0 .. MaxReplaced]
    BY <1>2, <1>3, <2>1
  <2>3. Len(log') <= MaxEvents
    BY <1>1, <1>4 DEF SequenceAssumption
  <2>4. QED
    BY <1>2, <1>4, <2>2, <2>3 DEF IInv, TypeOK
<1>7. PendingInv'
  BY <1>1, <1>2, <1>3, <1>4, <1>5 DEF PendingInv
<1>8. ChainsGenuine(chains, Advances + 1)'
  <2>1. Advances' = Advances /\ Advances = Len(log)
    BY <1>1, <1>4, <1>5 DEF Advances
  <2>2. ASSUME NEW d \in Containers, NEW r \in Rules, NEW i \in Levels(r), chains[d][r][i] # <<>>
        PROVE  Genuine(r, i, d, chains[d][r][i])' /\ Before(chains[d][r][i], Advances + 1)'
    <3>1. Genuine(r, i, d, chains[d][r][i]) /\ Before(chains[d][r][i], Advances + 1)
      BY <2>2 DEF IInv, ChainsGenuine
    <3>2. Genuine(r, i, d, chains[d][r][i])'
      <4> DEFINE chain == chains[d][r][i]
      <4>1. chain' = chain
        BY <1>2
      <4>2. ASSUME NEW j \in 1 .. i
            PROVE  chain[j].n \in 1 .. Len(log') /\ chain[j] = log'[chain[j].n]
        <5>1. chain[j].n \in 1 .. Len(log) /\ chain[j] = log[chain[j].n]
          BY <3>1 DEF Genuine
        <5>2. QED
          BY <1>1, <1>4, <5>1, SMTT(20)
      <4>3. QED
        BY <3>1, <4>1, <4>2 DEF Genuine
    <3>3. Before(chains[d][r][i], Advances + 1)'
      BY <1>2, <2>1, <3>1 DEF Before
    <3>4. QED
      BY <3>2, <3>3
  <2>3. QED
    BY <1>2, <2>2 DEF ChainsGenuine
<1>9. HitsAreSequences' /\ OnePolicySet'
  BY <1>2 DEF HitsAreSequences, OnePolicySet
<1>10. QED
  BY <1>6, <1>7, <1>8, <1>9 DEF IInv

(***************************************************************************)
(* Every step preserves the invariant.                                     *)
(***************************************************************************)
LEMMA NextIInv == ASSUME SequenceAssumption, IInv, [Next]_vars PROVE IInv'
<1>1. ASSUME NEW c \in Containers, NEW k \in Kinds, NEW t \in Time, Evaluate(c, k, t) PROVE IInv'
  BY <1>1, EvaluateKeepsIInv
<1>2. CASE Advance
  BY <1>2, AdvanceKeepsIInv
<1>3. ASSUME NEW d \in Containers, Forget(d) PROVE IInv'
  <2>1. /\ pending = None /\ UNCHANGED <<policy, version, lastSeen, swept, pending, verdict, log>>
        /\ chains' = [c \in Containers |-> IF c = d THEN NoChains ELSE chains[c]]
        /\ since' = [since EXCEPT ![d] = [r \in Rules |-> Len(log)]]
    BY <1>3 DEF Forget
  <2>2. \A c \in Containers : chains'[c] = IF c = d THEN NoChains ELSE chains[c]
    BY <2>1
  <2>3. Len(log) \in 0 .. MaxEvents
    BY DEF IInv, TypeOK, SequenceAssumption
  <2>4. MapType(chains)' /\ ChainsGenuine(chains, Advances + 1)'
    <3>1. ASSUME NEW c \in Containers, NEW r \in Rules
          PROVE  /\ chains'[c][r] \in [Levels(r) -> Seq(Event)]
                 /\ \A i \in Levels(r) : chains'[c][r][i] \in {chains[c][r][i], <<>>}
      BY <2>2, NoChainsType DEF IInv, TypeOK
    <3>2. QED
      BY <2>1, <3>1, ClearedStaysGenuine
  <2>5. TypeOK'
    BY <2>1, <2>3, <2>4 DEF IInv, TypeOK, MapType
  <2>6. PendingInv'
    BY <2>1 DEF IInv, PendingInv
  <2>7. QED
    BY <2>1, <2>4, <2>5, <2>6, SameVerdict DEF IInv
<1>4. ASSUME NEW p \in PolicySets, Replace(p) PROVE IInv'
  <2>1. /\ UNCHANGED <<lastSeen, pending, verdict, log>> /\ policy' = p /\ swept' = Never
        /\ version' = version + 1 /\ version < MaxReplaced
        /\ chains' = [c \in Containers |-> NoChains]
        /\ since' = [c \in Containers |-> [r \in Rules |-> IF pending = None THEN Len(log) ELSE Len(log) - 1]]
    BY <1>4 DEF Replace
  <2>2. Len(log) \in 0 .. MaxEvents /\ (pending # None => Len(log) - 1 \in 0 .. MaxEvents)
    BY DEF IInv, TypeOK, PendingInv, SequenceAssumption
  <2>3. \A c \in Containers, r \in Rules : \A i \in Levels(r) : chains'[c][r][i] = <<>>
    BY <2>1, NoChainsType
  <2>4. MapType(chains)' /\ ChainsGenuine(chains, Advances + 1)'
    BY <2>1, <2>3, NoChainsType DEF MapType, ChainsGenuine
  <2>5. TypeOK'
    <3>1. version' \in 0 .. MaxReplaced
      BY <2>1 DEF IInv, TypeOK, SequenceAssumption
    <3>2. since' \in [Containers -> [Rules -> 0 .. MaxEvents]]
      BY <2>1, <2>2
    <3>3. QED
      BY <2>1, <2>4, <3>1, <3>2 DEF IInv, TypeOK, MapType
  <2>6. PendingInv'
    BY <2>1, <2>3 DEF IInv, PendingInv
  <2>7. HitsAreSequences' /\ OnePolicySet'
    BY <2>1, SameVerdict
  <2>8. QED
    BY <2>4, <2>5, <2>6, <2>7 DEF IInv
<1>5. CASE UNCHANGED vars
  <2>1. UNCHANGED <<policy, version, chains, lastSeen, swept, pending, verdict, log, since>>
    BY <1>5 DEF vars, engine
  <2>2. TypeOK' /\ PendingInv'
    BY <2>1 DEF IInv, TypeOK, PendingInv
  <2>3. MapType(chains)' /\ ChainsGenuine(chains, Advances + 1)'
    <3>1. ASSUME NEW c \in Containers, NEW r \in Rules
          PROVE  chains'[c][r] \in [Levels(r) -> Seq(Event)]
      BY <2>1 DEF IInv, TypeOK
    <3>2. QED
      BY <2>1, <3>1, ClearedStaysGenuine
  <2>4. HitsAreSequences' /\ OnePolicySet'
    BY <2>1, SameVerdict
  <2>5. QED
    BY <2>2, <2>3, <2>4 DEF IInv
<1>6. QED
  BY <1>1, <1>2, <1>3, <1>4, <1>5 DEF Next

(***************************************************************************)
(* The invariant holds of every behaviour.                                 *)
(***************************************************************************)
LEMMA SpecIInv == Spec => []IInv
<1> USE SequenceAssumption
<1>1. Init => IInv
  <2>1. ASSUME Init PROVE \A c \in Containers, r \in Rules : \A i \in Levels(r) : chains[c][r][i] = <<>>
    BY <2>1, NoChainsType DEF Init
  <2>2. ASSUME Init PROVE TypeOK
    <3>1. \A c \in Containers, r \in Rules : chains[c][r] \in [Levels(r) -> Seq(Event)]
      BY <2>2, NoChainsType DEF Init
    <3>2. 0 \in Time /\ 0 \in 0 .. MaxEvents /\ 0 \in 0 .. MaxReplaced /\ log \in Seq(Event) /\ Len(log) = 0
      BY <2>2 DEF Init, Time, SequenceAssumption
    <3>3. QED
      BY <2>2, <3>1, <3>2 DEF Init, TypeOK, SequenceAssumption
  <2>3. Init => PendingInv /\ HitsAreSequences /\ OnePolicySet
    BY DEF Init, PendingInv, HitsAreSequences, OnePolicySet
  <2>4. QED
    BY <2>1, <2>2, <2>3 DEF IInv, ChainsGenuine
<1>2. IInv /\ [Next]_vars => IInv'
  BY NextIInv
<1>3. QED
  BY <1>1, <1>2, PTL DEF Spec

(***************************************************************************)
(* Type correctness of the engine's sequence state.                        *)
(***************************************************************************)
THEOREM SequenceTypeCorrect == Spec => []TypeOK
<1>1. IInv => TypeOK
  BY DEF IInv
<1>2. QED
  BY <1>1, SpecIInv, PTL

(***************************************************************************)
(* Whatever is reported as a sequence was one: soundness of the rules for  *)
(* every set of rules and every order of events (step, sequenceVerdict).   *)
(***************************************************************************)
THEOREM ReportedHitsAreSequences == Spec => []HitsAreSequences
<1>1. IInv => HitsAreSequences
  BY DEF IInv
<1>2. QED
  BY <1>1, SpecIInv, PTL

(***************************************************************************)
(* Replacing the policies between the two halves of Observe never yields a *)
(* verdict that mixes the old and the new (Observe, Replace).              *)
(***************************************************************************)
THEOREM VerdictsUseOnePolicySet == Spec => []OnePolicySet
<1>1. IInv => OnePolicySet
  BY DEF IInv
<1>2. QED
  BY <1>1, SpecIInv, PTL

-----------------------------------------------------------------------------
(* The containers that are tracked.                                        *)

\* Finitely many, within the limit: sweeping cannot make them more, and a new
\* one comes in only when there is room or another one goes.
FewTracked(m) == IsFiniteSet(Tracked(m)) /\ Cardinality(Tracked(m)) <= SeqMaxContainers

LEMMA FewerTracked ==
  ASSUME SequenceAssumption, NEW m, NEW q, FewTracked(m), Tracked(q) \subseteq Tracked(m)
  PROVE  FewTracked(q)
<1>1. IsFiniteSet(Tracked(q)) /\ Cardinality(Tracked(q)) <= Cardinality(Tracked(m))
  BY FS_Subset DEF FewTracked
<1>2. Cardinality(Tracked(q)) \in Nat /\ Cardinality(Tracked(m)) \in Nat
  BY <1>1, FS_CardinalityType DEF FewTracked
<1>3. QED
  BY <1>1, <1>2 DEF FewTracked, SequenceAssumption

LEMMA NoChainsUntracked ==
  ASSUME SequenceAssumption, NEW r \in Rules
  PROVE  NoChains[r][1] = <<>>
<1>1. 1 \in Levels(r)
  BY RuleFacts DEF Levels
<1>2. QED
  BY <1>1 DEF NoChains

LEMMA SweptTracked ==
  ASSUME SequenceAssumption, NEW m, NEW at
  PROVE  Tracked(Sweep(m, at)) \subseteq Tracked(m)
BY NoChainsUntracked DEF Tracked, Tracks, Sweep

\* One more container, where there is room.
LEMMA RoomForOne ==
  ASSUME SequenceAssumption, NEW m, NEW q, NEW c, FewTracked(m), ~Full(m),
         Tracked(q) \subseteq Tracked(m) \cup {c}
  PROVE  FewTracked(q)
<1> DEFINE T == Tracked(m) \cup {c}
<1>1. Cardinality(Tracked(m)) \in Nat
  BY FS_CardinalityType DEF FewTracked
<1>2. Cardinality(Tracked(m)) + 1 <= SeqMaxContainers
  BY <1>1 DEF Full, SequenceAssumption
<1>3. IsFiniteSet(T) /\ (Cardinality(T) = Cardinality(Tracked(m))
                         \/ Cardinality(T) = Cardinality(Tracked(m)) + 1)
  BY FS_AddElement DEF FewTracked
<1>4. IsFiniteSet(Tracked(q)) /\ Cardinality(Tracked(q)) <= Cardinality(T)
  BY <1>3, FS_Subset
<1>5. Cardinality(Tracked(q)) \in Nat
  BY <1>4, FS_CardinalityType
<1>6. QED
  BY <1>1, <1>2, <1>3, <1>4, <1>5 DEF FewTracked, SequenceAssumption

\* One more container in the place of another.
LEMMA OneForAnother ==
  ASSUME SequenceAssumption, NEW m, NEW q, NEW c, NEW d \in Tracked(m), FewTracked(m),
         Tracked(q) \subseteq (Tracked(m) \ {d}) \cup {c}
  PROVE  FewTracked(q)
<1> DEFINE T == Tracked(m) \ {d}
<1>1. Cardinality(Tracked(m)) \in Nat
  BY FS_CardinalityType DEF FewTracked
<1>2. IsFiniteSet(T) /\ Cardinality(T) = Cardinality(Tracked(m)) - 1
  BY FS_RemoveElement DEF FewTracked
<1>3. IsFiniteSet(T \cup {c}) /\ (Cardinality(T \cup {c}) = Cardinality(T)
                                  \/ Cardinality(T \cup {c}) = Cardinality(T) + 1)
  BY <1>2, FS_AddElement
<1>4. IsFiniteSet(Tracked(q)) /\ Cardinality(Tracked(q)) <= Cardinality(T \cup {c})
  BY <1>3, FS_Subset
<1>5. Cardinality(Tracked(q)) \in Nat
  BY <1>4, FS_CardinalityType
<1>6. QED
  BY <1>1, <1>2, <1>3, <1>4, <1>5 DEF FewTracked, SequenceAssumption

\* chainsFor: the one action that can track a new container.
LEMMA AdvanceTracksFew ==
  ASSUME SequenceAssumption, FewTracked(chains), Advance
  PROVE  FewTracked(chains')
<1> DEFINE ev == pending.ev
           m == IF SweepDue(ev.ts) THEN Sweep(chains, ev.ts) ELSE chains
           moved == Moved(m, ev)
           begins == ~Tracks(m, ev.c) /\ \E r \in Rules : moved[r][1] # <<>>
           resweep == begins /\ Full(m)
           kept == IF resweep THEN Sweep(m, ev.ts) ELSE m
<1>1. PICK out \in (IF begins THEN Evicted(m, ev.ts) ELSE {{}}) :
        chains' = [c \in Containers |->
                     IF c = ev.c THEN moved ELSE IF c \in out THEN NoChains ELSE kept[c]]
  BY DEF Advance
<1>2. FewTracked(m)
  <2>1. Tracked(m) \subseteq Tracked(chains)
    BY SweptTracked
  <2> HIDE DEF m
  <2>2. QED
    BY <2>1, FewerTracked
<1>3. FewTracked(kept) /\ Tracked(kept) \subseteq Tracked(m)
  <2> HIDE DEF m, resweep
  <2>1. Tracked(kept) \subseteq Tracked(m)
    BY SweptTracked
  <2> HIDE DEF kept
  <2>2. QED
    BY <1>2, <2>1, FewerTracked
<1>4. Tracked(chains') \subseteq (Tracked(kept) \ out) \cup {ev.c}
  <2>1. ASSUME NEW c \in Containers, c # ev.c, Tracks(chains', c)
        PROVE  c \notin out /\ Tracks(kept, c)
    <3>1. chains'[c] = IF c \in out THEN NoChains ELSE kept[c]
      BY <1>1, <2>1
    <3> HIDE DEF kept
    <3>2. c \notin out
      BY <2>1, <3>1, NoChainsUntracked DEF Tracks
    <3>3. QED
      BY <2>1, <3>1, <3>2 DEF Tracks
  <2> HIDE DEF kept, ev
  <2>2. QED
    BY <2>1 DEF Tracked
<1>5. CASE ~begins
  <2>1. kept = m /\ out = {}
    BY <1>1, <1>5
  <2>2. ASSUME ev.c \in Containers, Tracks(chains', ev.c), ~Tracks(m, ev.c) PROVE FALSE
    <3>1. chains'[ev.c] = moved
      BY <1>1, <2>2
    <3>2. \E r \in Rules : chains'[ev.c][r][1] # <<>>
      BY <2>2 DEF Tracks
    <3>3. QED
      BY <1>5, <2>2, <3>1, <3>2
  <2>3. Tracked(chains') \subseteq Tracked(m)
    BY <1>4, <2>1, <2>2 DEF Tracked
  <2>4. QED
    BY <1>2, <2>3, FewerTracked
<1>6. CASE begins /\ out = {}
  <2>1. ~Full(kept)
    <3>1. CASE ~Full(m)
      BY <3>1
    <3>2. CASE Full(m) /\ ~Full(Sweep(m, ev.ts))
      BY <1>6, <3>2
    <3>3. CASE Full(m) /\ Full(Sweep(m, ev.ts))
      BY <1>1, <1>6, <3>3 DEF Evicted
    <3>4. QED
      BY <3>1, <3>2, <3>3
  <2> HIDE DEF kept
  <2>2. QED
    BY <1>3, <1>4, <1>6, <2>1, RoomForOne
<1>7. CASE begins /\ out # {}
  <2>1. Full(m) /\ \E d \in Oldest(Sweep(m, ev.ts)) : out = {d}
    BY <1>1, <1>7 DEF Evicted
  <2>2. kept = Sweep(m, ev.ts)
    BY <1>7, <2>1
  <2>3. PICK d \in Tracked(kept) : out = {d}
    BY <2>1, <2>2 DEF Oldest
  <2> HIDE DEF kept
  <2>4. QED
    BY <1>3, <1>4, <2>3, OneForAnother
<1>8. QED
  BY <1>5, <1>6, <1>7

(***************************************************************************)
(* However many containers send events, the engine tracks no more than     *)
(* seqMaxContainers of them (chainsFor, sweep).                            *)
(***************************************************************************)
THEOREM TrackedStayBounded == Spec => []TrackedBounded
<1> USE SequenceAssumption
<1>1. Init => FewTracked(chains)
  <2> SUFFICES ASSUME Init PROVE FewTracked(chains)
    OBVIOUS
  <2>1. Tracked(chains) = {}
    BY NoChainsUntracked DEF Init, Tracked, Tracks
  <2>2. QED
    BY <2>1, FS_EmptySet DEF FewTracked, SequenceAssumption
<1>2. ASSUME FewTracked(chains), [Next]_vars PROVE FewTracked(chains)'
  <2>1. CASE Advance
    BY <1>2, <2>1, AdvanceTracksFew DEF FewTracked, Tracked, Tracks
  <2>2. CASE UNCHANGED chains
    BY <1>2, <2>2 DEF FewTracked, Tracked, Tracks
  <2>3. CASE \E d \in Containers : Forget(d)
    <3>1. Tracked(chains') \subseteq Tracked(chains)
      BY <2>3, NoChainsUntracked DEF Forget, Tracked, Tracks
    <3>2. FewTracked(chains')
      BY <1>2, <3>1, FewerTracked
    <3>3. QED
      BY <3>2 DEF FewTracked, Tracked, Tracks
  <2>4. CASE \E p \in PolicySets : Replace(p)
    <3>1. Tracked(chains') \subseteq Tracked(chains)
      BY <2>4, NoChainsUntracked DEF Replace, Tracked, Tracks
    <3>2. FewTracked(chains')
      BY <1>2, <3>1, FewerTracked
    <3>3. QED
      BY <3>2 DEF FewTracked, Tracked, Tracks
  <2>5. QED
    BY <1>2, <2>1, <2>2, <2>3, <2>4 DEF Next, Evaluate, vars, engine
<1>3. FewTracked(chains) => TrackedBounded
  BY DEF FewTracked, TrackedBounded
<1>4. QED
  BY <1>1, <1>2, <1>3, PTL DEF Spec

-----------------------------------------------------------------------------
(***************************************************************************)
(* A rule fires exactly when its steps occurred.                           *)
(*                                                                         *)
(* Of all ways to read steps 1 .. i out of the events since the reset, the *)
(* engine keeps a chain whose first event is no earlier (Covers), so what  *)
(* a later event can extend within the window it can extend too.  A chain  *)
(* that is swept was quiet for longer than seqIdle; its first event is at  *)
(* most MaxSkew after the container was last seen, and the events to come  *)
(* are at most MaxSkew behind: if the window leaves room for both          *)
(* (WindowsFit), none of them is within it (Expired).                      *)
(***************************************************************************)

WindowsFit == \A r \in Rules : Window[r] + MaxSkew + MaxSkew <= SeqIdle

\* After the first p events no event to come is within r's window of time s.
Expired(r, s, p) == \E n \in 1 .. p : log[n].ts - MaxSkew - s > Window[r]
Covers(chain, r, s, p) == (chain # <<>> /\ Start(chain) >= s) \/ Expired(r, s, p)

\* Sequences of the first p events, since position b, are covered by the chains.
LevelsCover(levels, r, c, b, p, q) ==
  \A i \in Levels(r) : \A f \in [1 .. i -> b .. p] :
    IsSequence(r, i, c, f) => Covers(levels[i], r, log[f[1]].ts, q)

Skewed == \A n, k \in 1 .. Len(log) : n < k => log[k].ts >= log[n].ts - MaxSkew
Recent(m) ==
  \A c \in Containers, r \in Rules : \A i \in Levels(r) :
    m[c][r][i] # <<>> => lastSeen[c] >= Start(m[c][r][i]) - MaxSkew
AfterReset(m) ==
  \A c \in Containers, r \in Rules : \A i \in Levels(r) :
    \A j \in 1 .. Len(m[c][r][i]) : m[c][r][i][j].n > since[c][r]
Complete(m, p, q) ==
  \A c \in Containers : \A r \in Active(c) : LevelsCover(m[c][r], r, c, since[c][r] + 1, p, q)
Resets == \A c \in Containers, r \in Rules : since[c][r] <= Advances

FInv ==
  /\ Skewed /\ Resets
  /\ Recent(chains) /\ AfterReset(chains) /\ Complete(chains, Advances, Advances)

(***************************************************************************)
(* Where a chain starts.                                                   *)
(***************************************************************************)
LEMMA StartTime ==
  ASSUME SequenceAssumption, NEW chain \in Seq(Event), chain # <<>>
  PROVE  Start(chain) \in Time /\ Start(chain) \in Nat
<1>1. chain[1] \in Event
  BY DEF Start
<1>2. QED
  BY <1>1 DEF Start, Event, Time

\* What extends a chain does not move its start.
LEMMA AppendedStart ==
  ASSUME NEW chain \in Seq(Event), chain # <<>>, NEW ev \in Event
  PROVE  Append(chain, ev) # <<>> /\ Start(Append(chain, ev)) = Start(chain)
<1>1. Len(chain) \in Nat /\ Len(chain) > 0
  OBVIOUS
<1>2. Len(Append(chain, ev)) = Len(chain) + 1
  OBVIOUS
<1>3. Append(chain, ev)[1] = chain[1]
  BY <1>1
<1>4. Append(chain, ev) # <<>>
  BY <1>1, <1>2
<1>5. QED
  BY <1>3, <1>4 DEF Start

(***************************************************************************)
(* The newest event is outside the window of what is expired.              *)
(***************************************************************************)
LEMMA ExpiredIsOver ==
  ASSUME SequenceAssumption, log \in Seq(Event), Len(log) > 0, Skewed,
         NEW r \in Rules, NEW s \in Time, Expired(r, s, Len(log))
  PROVE  log[Len(log)].ts - s > Window[r]
<1>1. PICK n \in 1 .. Len(log) : log[n].ts - MaxSkew - s > Window[r]
  BY DEF Expired
<1> DEFINE N == Len(log)
<1>2. /\ N \in 1 .. N /\ N \in Nat /\ n \in Nat /\ n <= N
      /\ log[N] \in Event /\ log[n] \in Event
  <2>1. N \in Nat /\ N >= 1
    OBVIOUS
  <2>2. QED
    BY <2>1
<1>3. /\ MaxSkew \in Nat /\ log[N].ts \in Int /\ log[n].ts \in Int /\ s \in Int /\ Window[r] \in Nat
  <2>1. log[N].ts \in Int /\ log[n].ts \in Int /\ s \in Int
    BY <1>2, SMTT(20) DEF Event, Time
  <2>2. MaxSkew \in Nat /\ Window[r] \in Nat
    BY RuleFacts DEF SequenceAssumption
  <2>3. QED
    BY <2>1, <2>2
<1>4. log[N].ts >= log[n].ts - MaxSkew
  <2>1. CASE n = N
    BY <1>3, <2>1
  <2>2. CASE n # N
    BY <1>2, <2>2 DEF Skewed
  <2>3. QED
    BY <2>1, <2>2
<1> HIDE DEF N
<1>5. log[N].ts - s > Window[r]
  BY <1>1, <1>3, <1>4, SMTT(20)
<1>6. QED
  BY <1>5 DEF N

(***************************************************************************)
(* What is covered stays covered as events come.                           *)
(***************************************************************************)
LEMMA CoversGrows ==
  ASSUME NEW chain, NEW r, NEW s, NEW p \in Nat, NEW q \in Nat, p <= q, Covers(chain, r, s, p)
  PROVE  Covers(chain, r, s, q)
<1>1. \A n \in 1 .. p : n \in 1 .. q
  OBVIOUS
<1>2. QED
  BY <1>1 DEF Covers, Expired

(***************************************************************************)
(* Sweeping drops only what is expired, if the windows fit (sweep).        *)
(***************************************************************************)
LEMMA SweepCovers ==
  ASSUME SequenceAssumption, WindowsFit, TypeOK, Len(log) > 0, NEW m, MapType(m), Recent(m),
         NEW c \in Containers, NEW r \in Rules, NEW i \in Levels(r), NEW s \in Time,
         Covers(m[c][r][i], r, s, Len(log))
  PROVE  Covers(Sweep(m, log[Len(log)].ts)[c][r][i], r, s, Len(log))
<1> DEFINE at == log[Len(log)].ts
           chain == m[c][r][i]
<1>1. CASE ~(at - lastSeen[c] > SeqIdle)
  <2>1. Sweep(m, at)[c][r][i] = chain
    BY <1>1 DEF Sweep
  <2>2. QED
    BY <2>1
<1>2. CASE at - lastSeen[c] > SeqIdle /\ chain # <<>> /\ Start(chain) >= s
  <2>1. chain \in Seq(Event)
    BY DEF MapType
  <2>2. Start(chain) \in Nat /\ lastSeen[c] >= Start(chain) - MaxSkew
    BY <1>2, <2>1, StartTime DEF Recent
  <2>3. /\ Len(log) \in 1 .. Len(log) /\ at \in Int /\ lastSeen[c] \in Int /\ s \in Int
        /\ MaxSkew \in Nat /\ SeqIdle \in Nat /\ Window[r] \in Nat
    <3>1. Len(log) \in 1 .. Len(log) /\ log \in Seq(Event)
      BY DEF TypeOK
    <3>2. log[Len(log)] \in Event
      BY <3>1
    <3>3. QED
      BY <3>1, <3>2, RuleFacts, SMTT(20) DEF TypeOK, SequenceAssumption, Event, Time
  <2>4. Window[r] + MaxSkew + MaxSkew <= SeqIdle
    BY DEF WindowsFit
  <2> HIDE DEF at, chain
  <2>5. at - MaxSkew - s > Window[r]
    BY <1>2, <2>2, <2>3, <2>4, SMTT(20)
  <2>6. Expired(r, s, Len(log))
    BY <2>3, <2>5 DEF Expired, at
  <2>7. QED
    BY <2>6 DEF Covers
<1>3. CASE Expired(r, s, Len(log))
  BY <1>3 DEF Covers
<1>4. QED
  BY <1>1, <1>2, <1>3 DEF Covers

(***************************************************************************)
(* Sweeping keeps what is said of the chains that stay (sweep).            *)
(***************************************************************************)
LEMMA SweepKeepsRest ==
  ASSUME NEW m, NEW at, Recent(m), AfterReset(m)
  PROVE  Recent(Sweep(m, at)) /\ AfterReset(Sweep(m, at))
<1>1. \A c \in Containers, r \in Rules : \A i \in Levels(r) :
        Sweep(m, at)[c][r][i] = m[c][r][i] \/ Sweep(m, at)[c][r][i] = <<>>
  BY NoChainsType DEF Sweep
<1>2. Len(<<>>) = 0
  OBVIOUS
<1>3. QED
  BY <1>1, <1>2 DEF Recent, AfterReset

(***************************************************************************)
(* An event renews a chain only by one that starts no earlier (step).      *)
(***************************************************************************)
LEMMA AdvancedKeepsCover ==
  ASSUME SequenceAssumption, NEW r \in Rules, NEW levels \in [Levels(r) -> Seq(Event)], NEW ev \in Event,
         NEW i \in Levels(r), NEW s \in Time, NEW q, Covers(levels[i], r, s, q)
  PROVE  Covers(Advanced(r, levels, ev)[i], r, s, q)
<1> DEFINE next == Advanced(r, levels, ev)[i]
<1>1. next = IF ~Renews(r, i, levels, ev) THEN levels[i]
             ELSE IF i = 1 THEN <<ev>> ELSE Append(levels[i - 1], ev)
  BY DEF Advanced
<1>2. CASE Expired(r, s, q)
  BY <1>2 DEF Covers
<1>3. CASE levels[i] # <<>> /\ Start(levels[i]) >= s /\ ~Renews(r, i, levels, ev)
  BY <1>1, <1>3 DEF Covers
<1>4. CASE levels[i] # <<>> /\ Start(levels[i]) >= s /\ Renews(r, i, levels, ev) /\ i = 1
  <2>1. next = <<ev>> /\ next # <<>> /\ Start(next) = ev.ts
    BY <1>1, <1>4 DEF Start
  <2>2. ev.ts >= Start(levels[1])
    BY <1>4 DEF Renews
  <2>3. ev.ts \in Nat /\ s \in Nat /\ Start(levels[1]) \in Nat
    <3>1. levels[1] \in Seq(Event) /\ levels[1] # <<>>
      BY <1>4
    <3>2. Start(levels[1]) \in Nat
      BY <3>1, StartTime
    <3>3. QED
      BY <3>2 DEF Event, Time
  <2>4. Start(next) >= s
    BY <1>4, <2>1, <2>2, <2>3
  <2> HIDE DEF next
  <2>5. QED
    BY <2>1, <2>4 DEF Covers, next
<1>5. CASE levels[i] # <<>> /\ Start(levels[i]) >= s /\ Renews(r, i, levels, ev) /\ i # 1
  <2> DEFINE old == levels[i - 1]
  <2>1. old # <<>> /\ Start(old) >= Start(levels[i])
    BY <1>5 DEF Renews, Follows
  <2>2. i - 1 \in Levels(r)
    BY <1>5 DEF Levels
  <2>3. old \in Seq(Event) /\ Start(old) \in Nat /\ Start(levels[i]) \in Nat /\ s \in Nat
    BY <1>5, <2>1, <2>2, StartTime, SMTT(20) DEF Time
  <2>4. next = Append(old, ev)
    BY <1>1, <1>5
  <2> HIDE DEF next, old
  <2>5. next # <<>> /\ Start(next) = Start(old)
    BY <2>1, <2>3, <2>4 DEF Start
  <2>6. Start(next) >= s
    BY <1>5, <2>1, <2>3, <2>5
  <2>7. QED
    BY <2>5, <2>6 DEF Covers, next
<1>6. QED
  BY <1>2, <1>3, <1>4, <1>5 DEF Covers

(***************************************************************************)
(* What the steps before the newest event cover lets it follow (step).     *)
(***************************************************************************)
LEMMA CoveredFollows ==
  ASSUME SequenceAssumption, log \in Seq(Event), Len(log) > 0, Skewed,
         NEW r \in Rules, NEW levels \in [Levels(r) -> Seq(Event)], NEW c, NEW b \in Nat \ {0},
         LevelsCover(levels, r, c, b, Len(log) - 1, Len(log)),
         NEW k \in Levels(r), NEW f \in [1 .. k + 1 -> b .. Len(log)],
         IsSequence(r, k + 1, c, f), f[k + 1] = Len(log)
  PROVE  /\ Follows(r, k + 1, levels, log[Len(log)])
         /\ levels[k] \in Seq(Event) /\ levels[k] # <<>> /\ Start(levels[k]) >= log[f[1]].ts
<1> DEFINE ev == log[Len(log)]
           s == log[f[1]].ts
           g == [j \in 1 .. k |-> f[j]]
<1>1. k \in Nat \ {0} /\ Len(log) \in Nat /\ k + 1 \in 1 .. k + 1 /\ 1 \in 1 .. k + 1
  <2>1. Len(Steps[r]) - 1 \in Nat
    BY RuleFacts
  <2>2. QED
    BY <2>1 DEF Levels
<1>2. g \in [1 .. k -> b .. Len(log) - 1] /\ IsSequence(r, k, c, g) /\ g[1] = f[1]
  <2>1. ASSUME NEW j \in 1 .. k PROVE f[j] \in b .. Len(log) - 1 /\ g[j] = f[j]
    <3>1. j \in 1 .. k + 1 /\ j + 1 \in 1 .. k + 1 /\ j < k + 1
      BY <1>1
    <3>2. f[j] < f[j + 1] /\ f[j] \in b .. Len(log) /\ f[j + 1] \in b .. Len(log)
      BY <3>1 DEF IsSequence
    <3>3. QED
      BY <1>1, <3>2
  <2>2. 1 \in 1 .. k /\ \A j \in 1 .. k : j \in 1 .. k + 1 /\ (j < k => j + 1 \in 1 .. k /\ j < k + 1)
    BY <1>1
  <2>3. g \in [1 .. k -> b .. Len(log) - 1] /\ g[1] = f[1]
    BY <2>1, <2>2
  <2> HIDE DEF g
  <2>4. IsSequence(r, k, c, g)
    BY <2>1, <2>2 DEF IsSequence
  <2>5. QED
    BY <2>3, <2>4
<1>3. /\ ev.kind \in Steps[r][k + 1] /\ ev.ts - s <= Window[r]
  BY <1>1 DEF IsSequence
<1>4. ev \in Event /\ s \in Time
  <2>1. Len(log) \in 1 .. Len(log) /\ f[1] \in b .. Len(log)
    BY <1>1
  <2>2. f[1] \in 1 .. Len(log)
    BY <1>1, <2>1
  <2>3. ev \in Event /\ log[f[1]] \in Event
    BY <2>1, <2>2
  <2>4. QED
    BY <2>3 DEF Event
<1>12. ev.ts \in Int /\ s \in Int /\ Window[r] \in Int
  <2>1. Window[r] \in Nat
    BY RuleFacts
  <2> HIDE DEF ev, s
  <2>2. QED
    BY <1>4, <2>1 DEF Event, Time
<1> HIDE DEF g
<1>5. Covers(levels[k], r, s, Len(log))
  <2>1. Covers(levels[k], r, log[g[1]].ts, Len(log))
    BY <1>2 DEF LevelsCover
  <2>2. QED
    BY <1>2, <2>1
<1>6. ~Expired(r, s, Len(log))
  <2>1. ASSUME Expired(r, s, Len(log)) PROVE FALSE
    <3>1. ev.ts - s > Window[r]
      BY <1>4, <2>1, ExpiredIsOver
    <3>2. ev.ts \in Int /\ s \in Int /\ Window[r] \in Int
      BY <1>12
    <3> HIDE DEF ev, s
    <3>3. QED
      BY <1>3, <3>1, <3>2
  <2>2. QED
    BY <2>1
<1>7. levels[k] # <<>> /\ Start(levels[k]) >= s
  BY <1>5, <1>6 DEF Covers
<1>8. levels[k] \in Seq(Event) /\ Start(levels[k]) \in Nat
  BY <1>7, StartTime
<1>9. ev.ts - Start(levels[k]) <= Window[r]
  <2>1. ev.ts \in Int /\ s \in Int /\ Window[r] \in Int
    BY <1>12
  <2> HIDE DEF ev, s
  <2>2. QED
    BY <1>3, <1>7, <1>8, <2>1
<1>10. (k + 1) - 1 = k
  BY <1>1
<1>11. QED
  BY <1>3, <1>7, <1>8, <1>9, <1>10 DEF Follows

(***************************************************************************)
(* After an event its chains cover the sequences it ends too (step).       *)
(***************************************************************************)
LEMMA AdvancedCovers ==
  ASSUME SequenceAssumption, log \in Seq(Event), Len(log) > 0, Skewed,
         NEW r \in Rules, NEW levels \in [Levels(r) -> Seq(Event)], NEW c, NEW b \in Nat \ {0},
         LevelsCover(levels, r, c, b, Len(log) - 1, Len(log))
  PROVE  LevelsCover(Advanced(r, levels, log[Len(log)]), r, c, b, Len(log), Len(log))
<1> DEFINE ev == log[Len(log)]
           N == Len(log)
<1> SUFFICES ASSUME NEW i \in Levels(r), NEW f \in [1 .. i -> b .. N], IsSequence(r, i, c, f)
             PROVE  Covers(Advanced(r, levels, ev)[i], r, log[f[1]].ts, N)
  BY DEF LevelsCover
<1> DEFINE s == log[f[1]].ts
           next == Advanced(r, levels, ev)[i]
<1>1. i \in Nat \ {0} /\ N \in Nat /\ N \in 1 .. N /\ 1 \in 1 .. i /\ i \in 1 .. i
  <2>1. Len(Steps[r]) - 1 \in Nat
    BY RuleFacts
  <2>2. QED
    BY <2>1 DEF Levels
<1>2. f[1] \in 1 .. N /\ ev \in Event /\ s \in Time
  <2>1. f[1] \in b .. N
    BY <1>1
  <2>2. f[1] \in 1 .. N
    BY <1>1, <2>1
  <2>3. log[f[1]] \in Event /\ ev \in Event
    BY <1>1, <2>2
  <2>4. QED
    BY <2>2, <2>3 DEF Event
<1>3. next = IF ~Renews(r, i, levels, ev) THEN levels[i]
             ELSE IF i = 1 THEN <<ev>> ELSE Append(levels[i - 1], ev)
  BY DEF Advanced
<1>4. CASE f[i] # N
  <2>1. ASSUME NEW j \in 1 .. i PROVE f[j] \in b .. N - 1
    <3>1. CASE j = i
      BY <1>1, <1>4, <3>1
    <3>2. CASE j # i
      <4>1. j + 1 \in 1 .. i /\ j < i
        BY <1>1, <3>2
      <4>2. f[j] < f[j + 1] /\ f[j] \in b .. N /\ f[j + 1] \in b .. N
        BY <4>1 DEF IsSequence
      <4>3. QED
        BY <1>1, <4>2
    <3>3. QED
      BY <3>1, <3>2
  <2>2. f \in [1 .. i -> b .. N - 1]
    BY <2>1
  <2>3. Covers(levels[i], r, s, N)
    BY <2>2 DEF LevelsCover
  <2>4. QED
    BY <1>2, <2>3, AdvancedKeepsCover
<1>5. CASE f[i] = N /\ i = 1
  <2>1. ev.kind \in Steps[r][1] /\ s = ev.ts
    BY <1>1, <1>5 DEF IsSequence
  <2>2. ev.ts \in Nat
    <3> HIDE DEF ev
    <3>1. QED
      BY <1>2 DEF Event, Time
  <2>3. CASE Renews(r, i, levels, ev)
    <3>1. next = <<ev>> /\ <<ev>> # <<>> /\ Start(<<ev>>) = ev.ts
      BY <1>3, <1>5, <2>3 DEF Start
    <3>2. Start(next) >= s
      BY <2>1, <2>2, <3>1
    <3> HIDE DEF next, s
    <3>3. Covers(next, r, s, N)
      BY <3>1, <3>2 DEF Covers
    <3>4. QED
      BY <3>3 DEF next, s
  <2>4. CASE ~Renews(r, i, levels, ev)
    <3>1. levels[1] # <<>> /\ ~(ev.ts >= Start(levels[1]))
      BY <1>5, <2>1, <2>4 DEF Renews
    <3>2. levels[1] \in Seq(Event)
      BY <1>5
    <3>3. Start(levels[1]) \in Nat
      BY <3>1, <3>2, StartTime
    <3>4. Start(levels[1]) >= s /\ next = levels[1]
      BY <1>3, <1>5, <2>1, <2>2, <2>4, <3>1, <3>3
    <3> HIDE DEF next, s
    <3>5. Covers(next, r, s, N)
      BY <3>1, <3>4 DEF Covers
    <3>6. QED
      BY <3>5 DEF next, s
  <2>5. QED
    BY <2>3, <2>4
<1>6. CASE f[i] = N /\ i # 1
  <2> DEFINE k == i - 1
  <2>1. k \in Levels(r) /\ k + 1 = i
    BY <1>1, <1>6 DEF Levels
  <2>2. f \in [1 .. k + 1 -> b .. N] /\ IsSequence(r, k + 1, c, f) /\ f[k + 1] = N
    BY <1>6, <2>1
  <2> HIDE DEF k
  <2>3. /\ Follows(r, k + 1, levels, ev) /\ levels[k] \in Seq(Event) /\ levels[k] # <<>>
        /\ Start(levels[k]) >= s
    BY <2>1, <2>2, CoveredFollows
  <2>4. s \in Nat /\ Start(levels[k]) \in Nat
    <3>1. Start(levels[k]) \in Nat
      BY <2>3, StartTime
    <3>2. QED
      BY <1>2, <3>1 DEF Time
  <2>5. CASE Renews(r, i, levels, ev)
    <3>1. next = Append(levels[k], ev)
      BY <1>3, <1>6, <2>5 DEF k
    <3>2. Append(levels[k], ev) # <<>> /\ Start(Append(levels[k], ev)) = Start(levels[k])
      BY <1>2, <2>3, AppendedStart
    <3> HIDE DEF next, s, ev
    <3>3. Covers(next, r, s, N)
      BY <2>3, <3>1, <3>2 DEF Covers
    <3>4. QED
      BY <3>3 DEF next, s, ev
  <2>6. CASE ~Renews(r, i, levels, ev)
    <3>1. levels[i] # <<>> /\ ~(Start(levels[k]) >= Start(levels[i]))
      BY <1>6, <2>1, <2>3, <2>6 DEF Renews, k
    <3>2. levels[i] \in Seq(Event)
      OBVIOUS
    <3>3. Start(levels[i]) \in Nat
      BY <3>1, <3>2, StartTime
    <3>4. Start(levels[i]) >= s /\ next = levels[i]
      <4>1. next = levels[i]
        BY <1>3, <2>6
      <4> HIDE DEF next, s
      <4>2. QED
        BY <2>3, <2>4, <3>1, <3>3, <4>1
    <3> HIDE DEF next, s
    <3>5. Covers(next, r, s, N)
      BY <3>1, <3>4 DEF Covers
    <3>6. QED
      BY <3>5 DEF next, s
  <2>7. QED
    BY <2>5, <2>6
<1>7. QED
  BY <1>4, <1>5, <1>6

(***************************************************************************)
(* The newest event completes a rule exactly when it ends a sequence since *)
(* the reset (step).                                                       *)
(***************************************************************************)
LEMMA CompletesIfOccurs ==
  ASSUME SequenceAssumption, log \in Seq(Event), Len(log) > 0, Skewed,
         NEW r \in Rules, NEW levels \in [Levels(r) -> Seq(Event)], NEW c \in Containers,
         since[c][r] \in Nat,
         LevelsCover(levels, r, c, since[c][r] + 1, Len(log) - 1, Len(log)), Occurs(r, c)
  PROVE  Completes(r, levels, log[Len(log)])
<1> DEFINE b == since[c][r] + 1
           k == Len(Steps[r]) - 1
<1>1. k \in Levels(r) /\ k + 1 = Len(Steps[r]) /\ b \in Nat \ {0}
  <2>1. k \in Levels(r) /\ k + 1 = Len(Steps[r])
    BY RuleFacts
  <2>2. b \in Nat \ {0}
    OBVIOUS
  <2>3. QED
    BY <2>1, <2>2
<1> HIDE DEF k
<1>2. PICK f \in [1 .. k + 1 -> b .. Len(log)] : IsSequence(r, k + 1, c, f) /\ f[k + 1] = Len(log)
  BY <1>1 DEF Occurs
<1> HIDE DEF b
<1>3. LevelsCover(levels, r, c, b, Len(log) - 1, Len(log))
  BY DEF b
<1>4. Follows(r, k + 1, levels, log[Len(log)])
  BY <1>1, <1>2, <1>3, CoveredFollows
<1>5. QED
  BY <1>1, <1>4 DEF Completes

LEMMA OccursIfCompletes ==
  ASSUME SequenceAssumption, NEW r \in Rules, NEW levels \in [Levels(r) -> Seq(Event)], NEW ev \in Event,
         ev.n = Len(log), ev = log[Len(log)], log \in Seq(Event), Len(log) > 0,
         since[ev.c][r] \in Nat, since[ev.c][r] < Len(log),
         \A i \in Levels(r) : levels[i] # <<>> => Genuine(r, i, ev.c, levels[i]) /\ Before(levels[i], ev.n),
         \A i \in Levels(r) : \A j \in 1 .. Len(levels[i]) : levels[i][j].n > since[ev.c][r],
         Completes(r, levels, ev)
  PROVE  Occurs(r, ev.c)
<1> DEFINE k == Len(Steps[r]) - 1
           chain == Append(levels[k], ev)
           f == [i \in 1 .. Len(chain) |-> chain[i].n]
           b == since[ev.c][r] + 1
<1>1. k \in Levels(r) /\ k + 1 = Len(Steps[r]) /\ k \in Nat \ {0}
  BY RuleFacts
<1>2. /\ ev.kind \in Steps[r][k + 1] /\ levels[k] # <<>> /\ ev.ts - Start(levels[k]) <= Window[r]
  BY <1>1 DEF Completes, Follows
<1> HIDE DEF k
<1>3. /\ Genuine(r, k, ev.c, levels[k]) /\ Before(levels[k], ev.n) /\ levels[k] \in Seq(Event)
      /\ Len(levels[k]) = k
  BY <1>1, <1>2 DEF Genuine
<1>4. ev.n \in 1 .. Len(log) /\ ev = log[ev.n] /\ Len(log) \in Nat
  OBVIOUS
<1>5. Genuine(r, k + 1, ev.c, chain)
  BY <1>1, <1>2, <1>3, <1>4, ExtensionGenuine
<1>6. /\ Len(chain) = k + 1 /\ chain[k + 1] = ev /\ \A i \in 1 .. k : chain[i] = levels[k][i]
  BY <1>1, <1>3
<1> HIDE DEF chain
<1>7. IsHit(r, ev.c, chain)
  BY <1>1, <1>5, GenuineIsSequence
<1>8. IsSequence(r, k + 1, ev.c, f)
  BY <1>6, <1>7 DEF IsHit
<1>9. f \in [1 .. k + 1 -> b .. Len(log)] /\ f[k + 1] = Len(log)
  <2>1. ASSUME NEW i \in 1 .. k + 1 PROVE chain[i].n \in b .. Len(log)
    <3>1. chain[i].n \in 1 .. Len(log)
      BY <1>5 DEF Genuine
    <3>2. CASE i \in 1 .. k
      <4>1. chain[i].n > since[ev.c][r]
        BY <1>1, <1>3, <1>6, <3>2
      <4>2. QED
        BY <1>4, <3>1, <4>1
    <3>3. CASE i = k + 1
      BY <1>4, <1>6, <3>3
    <3>4. QED
      BY <1>1, <3>2, <3>3
  <2>2. f \in [1 .. k + 1 -> b .. Len(log)]
    BY <1>6, <2>1
  <2>3. k + 1 \in 1 .. k + 1
    BY <1>1
  <2>4. QED
    BY <1>6, <2>2, <2>3
<1> HIDE DEF f
<1>10. QED
  BY <1>1, <1>8, <1>9 DEF Occurs

(***************************************************************************)
(* The types of what the log says, as the lemmas want them.                *)
(***************************************************************************)
LEMMA LogFacts ==
  ASSUME TypeOK, Len(log) > 0
  PROVE  /\ log \in Seq(Event) /\ Len(log) \in Nat \ {0} /\ log[Len(log)] \in Event
         /\ log[Len(log)].ts \in Time
         /\ \A n \in 1 .. Len(log) : log[n].ts \in Time
         /\ \A c \in Containers, r \in Rules : since[c][r] \in Nat
<1>1. log \in Seq(Event) /\ Len(log) \in Nat \ {0} /\ Len(log) \in 1 .. Len(log)
  BY DEF TypeOK
<1>2. \A n \in 1 .. Len(log) : log[n] \in Event
  BY <1>1
<1>3. \A c \in Containers, r \in Rules : since[c][r] \in Nat
  BY DEF TypeOK
<1>4. QED
  BY <1>1, <1>2, <1>3 DEF Event

\* The rules that are on are rules.
LEMMA ActiveAreRules ==
  ASSUME SequenceAssumption, TypeOK, NEW c PROVE Active(c) \subseteq Rules
BY DEF Active, TypeOK, SequenceAssumption

(***************************************************************************)
(* Sweeping leaves everything covered (sweep).                             *)
(***************************************************************************)
LEMMA SweepComplete ==
  ASSUME SequenceAssumption, WindowsFit, TypeOK, Len(log) > 0, NEW m, MapType(m), Recent(m),
         Complete(m, Len(log) - 1, Len(log))
  PROVE  Complete(Sweep(m, log[Len(log)].ts), Len(log) - 1, Len(log))
<1> DEFINE w == Sweep(m, log[Len(log)].ts)
<1> SUFFICES ASSUME NEW c \in Containers, NEW r \in Active(c), NEW i \in Levels(r),
                    NEW f \in [1 .. i -> since[c][r] + 1 .. Len(log) - 1], IsSequence(r, i, c, f)
             PROVE  Covers(w[c][r][i], r, log[f[1]].ts, Len(log))
  BY DEF Complete, LevelsCover
<1>1. r \in Rules
  BY ActiveAreRules
<1>2. Covers(m[c][r][i], r, log[f[1]].ts, Len(log))
  BY DEF Complete, LevelsCover
<1>3. log[f[1]].ts \in Time
  <2>1. 1 \in 1 .. i
    BY DEF Levels
  <2>2. f[1] \in since[c][r] + 1 .. Len(log) - 1
    BY <2>1
  <2>3. since[c][r] \in Nat /\ Len(log) \in Nat
    BY <1>1, LogFacts
  <2>4. f[1] \in 1 .. Len(log)
    BY <2>2, <2>3
  <2>5. QED
    BY <2>4, LogFacts
<1>4. QED
  BY <1>1, <1>2, <1>3, SweepCovers

(***************************************************************************)
(* What holds of the chains as advance finds them, swept or not.           *)
(***************************************************************************)
Found(m) ==
  /\ MapType(m) /\ ChainsGenuine(m, Len(log)) /\ Recent(m) /\ AfterReset(m)
  /\ Complete(m, Len(log) - 1, Len(log))

LEMMA SweepFound ==
  ASSUME SequenceAssumption, WindowsFit, TypeOK, Len(log) > 0, NEW m, Found(m)
  PROVE  Found(Sweep(m, log[Len(log)].ts))
BY SweepKeeps, SweepKeepsRest, SweepComplete DEF Found

LEMMA ChainsFound ==
  ASSUME SequenceAssumption, IInv, FInv, pending # None
  PROVE  Found(chains) /\ TypeOK /\ Len(log) > 0 /\ Advances = Len(log) - 1
<1>1. TypeOK /\ Len(log) > 0 /\ Advances = Len(log) - 1
  BY DEF IInv, PendingInv, Advances
<1>2. MapType(chains) /\ ChainsGenuine(chains, Len(log))
  <2>1. (Len(log) - 1) + 1 = Len(log)
    BY <1>1, LogFacts
  <2>2. ChainsGenuine(chains, Len(log))
    BY <1>1, <2>1 DEF IInv
  <2>3. QED
    BY <1>1, <2>2 DEF TypeOK, MapType
<1>3. Complete(chains, Len(log) - 1, Len(log))
  <2>1. ASSUME NEW c \in Containers, NEW r \in Active(c), NEW i \in Levels(r),
               NEW f \in [1 .. i -> since[c][r] + 1 .. Len(log) - 1], IsSequence(r, i, c, f)
        PROVE  Covers(chains[c][r][i], r, log[f[1]].ts, Len(log))
    <3>1. Covers(chains[c][r][i], r, log[f[1]].ts, Len(log) - 1)
      BY <1>1, <2>1 DEF FInv, Complete, LevelsCover
    <3>2. Len(log) \in Nat /\ Len(log) - 1 \in Nat /\ Len(log) - 1 <= Len(log)
      BY <1>1, LogFacts
    <3>3. QED
      BY <3>1, <3>2, CoversGrows
  <2>2. QED
    BY <2>1 DEF Complete, LevelsCover
<1>4. QED
  BY <1>1, <1>2, <1>3 DEF Found, FInv

(***************************************************************************)
(* The rules an event completes are those whose sequence it ends (advance).*)
(***************************************************************************)
LEMMA DoneExactly ==
  ASSUME SequenceAssumption, TypeOK, PendingInv, Skewed, Resets, pending # None, NEW m, Found(m)
  PROVE  Done(m, pending.ev) = {r \in Active(pending.ev.c) : Occurs(r, pending.ev.c)}
<1> DEFINE ev == pending.ev
<1>1. /\ ev \in Event /\ ev.n = Len(log) /\ ev = log[Len(log)] /\ Len(log) > 0 /\ ev.c \in Containers
      /\ Advances = Len(log) - 1
  BY LogFacts DEF PendingInv, Event, Advances
<1> HIDE DEF ev
<1>2. ASSUME NEW r \in Active(ev.c)
      PROVE  Completes(r, m[ev.c][r], ev) <=> Occurs(r, ev.c)
  <2>1. r \in Rules
    BY ActiveAreRules
  <2>2. /\ m[ev.c][r] \in [Levels(r) -> Seq(Event)] /\ since[ev.c][r] \in Nat
        /\ log \in Seq(Event) /\ since[ev.c][r] < Len(log)
    <3>1. m[ev.c][r] \in [Levels(r) -> Seq(Event)]
      BY <1>1, <2>1 DEF Found, MapType
    <3>2. since[ev.c][r] \in Nat /\ log \in Seq(Event) /\ Len(log) \in Nat
      BY <1>1, <2>1, LogFacts
    <3>3. since[ev.c][r] <= Len(log) - 1
      BY <1>1, <2>1 DEF Resets
    <3>4. QED
      BY <3>1, <3>2, <3>3
  <2>3. ASSUME Occurs(r, ev.c) PROVE Completes(r, m[ev.c][r], ev)
    <3>1. LevelsCover(m[ev.c][r], r, ev.c, since[ev.c][r] + 1, Len(log) - 1, Len(log))
      BY <1>1 DEF Found, Complete
    <3>2. QED
      BY <1>1, <2>1, <2>2, <2>3, <3>1, CompletesIfOccurs
  <2>4. ASSUME Completes(r, m[ev.c][r], ev) PROVE Occurs(r, ev.c)
    <3>1. \A i \in Levels(r) : m[ev.c][r][i] # <<>> =>
            Genuine(r, i, ev.c, m[ev.c][r][i]) /\ Before(m[ev.c][r][i], ev.n)
      BY <1>1, <2>1 DEF Found, ChainsGenuine
    <3>2. \A i \in Levels(r) : \A j \in 1 .. Len(m[ev.c][r][i]) : m[ev.c][r][i][j].n > since[ev.c][r]
      BY <1>1, <2>1 DEF Found, AfterReset
    <3>3. QED
      BY <1>1, <2>1, <2>2, <2>4, <3>1, <3>2, OccursIfCompletes
  <2>5. QED
    BY <2>3, <2>4
<1>3. QED
  BY <1>2 DEF Done, ev

(***************************************************************************)
(* No room is made by dropping the container that begins (chainsFor).      *)
(***************************************************************************)
LEMMA OthersEvicted ==
  ASSUME SequenceAssumption, NEW m, NEW at, NEW c \in Containers, ~Tracks(m, c), NEW out \in Evicted(m, at)
  PROVE  c \notin out
<1>1. ~Tracks(Sweep(m, at), c)
  <2>1. \A r \in Rules : Sweep(m, at)[c][r][1] = m[c][r][1] \/ Sweep(m, at)[c] = NoChains
    BY DEF Sweep
  <2>2. CASE Sweep(m, at)[c] = NoChains
    BY <2>2, NoChainsUntracked DEF Tracks
  <2>3. CASE Sweep(m, at)[c] # NoChains
    BY <2>1, <2>3 DEF Tracks
  <2>4. QED
    BY <2>2, <2>3
<1>2. c \notin Tracked(Sweep(m, at))
  BY <1>1 DEF Tracked
<1>3. QED
  BY <1>2 DEF Evicted, Oldest

(***************************************************************************)
(* The second half of Observe keeps everything covered (advance).          *)
(***************************************************************************)
LEMMA AdvanceKeepsFInv ==
  ASSUME SequenceAssumption, WindowsFit, IInv, IInv', FInv, Advance
  PROVE  /\ FInv'
         /\ {h.rule : h \in verdict'.hits} = {r \in Active(pending.ev.c) : Occurs(r, pending.ev.c)}
<1> DEFINE ev == pending.ev
           m == IF SweepDue(ev.ts) THEN Sweep(chains, ev.ts) ELSE chains
           moved == Moved(m, ev)
           begins == ~Tracks(m, ev.c) /\ \E r \in Rules : moved[r][1] # <<>>
           kept == IF begins /\ Full(m) THEN Sweep(m, ev.ts) ELSE m
           N == Len(log)
<1>1. /\ pending # None /\ ev \in Event /\ ev.n = N /\ ev = log[N] /\ ev.c \in Containers
      /\ N \in Nat \ {0} /\ N > 0 /\ log \in Seq(Event) /\ N \in 1 .. N /\ TypeOK
      /\ Found(chains) /\ Advances = N - 1 /\ PendingInv /\ Skewed /\ Resets
  <2>1. pending # None /\ PendingInv /\ Skewed /\ Resets
    BY DEF Advance, IInv, FInv
  <2>2. Found(chains) /\ TypeOK /\ N > 0 /\ Advances = N - 1
    BY <2>1, ChainsFound
  <2>3. log \in Seq(Event) /\ N \in Nat \ {0} /\ log[N] \in Event
    BY <2>2, LogFacts
  <2>4. QED
    BY <2>1, <2>2, <2>3 DEF PendingInv, Event
<1>2. /\ pending' = None /\ UNCHANGED <<policy, version, log>>
      /\ verdict' = Verdict(m, ev, pending.single, pending.version)
      /\ lastSeen' = IF \E r \in Rules \ Done(m, ev) : moved[r] # m[ev.c][r]
                     THEN [lastSeen EXCEPT ![ev.c] = ev.ts] ELSE lastSeen
  BY DEF Advance
<1>3. PICK out \in (IF begins THEN Evicted(m, ev.ts) ELSE {{}}) :
        /\ chains' = [c \in Containers |->
                        IF c = ev.c THEN moved ELSE IF c \in out THEN NoChains ELSE kept[c]]
        /\ since' = [c \in Containers |-> [r \in Rules |->
                        IF c \in out \/ (c = ev.c /\ r \in Done(m, ev)) THEN N ELSE since[c][r]]]
  BY DEF Advance
<1>4. Found(m)
  BY <1>1, SweepFound
<1>5. Found(kept)
  <2> HIDE DEF m, begins
  <2>1. QED
    BY <1>1, <1>4, SweepFound
<1>6. Done(m, ev) = {r \in Active(ev.c) : Occurs(r, ev.c)}
  <2> HIDE DEF m
  <2>1. QED
    BY <1>1, <1>4, DoneExactly
<1>7. {h.rule : h \in verdict'.hits} = Done(m, ev)
  <2>1. verdict'.hits = {[rule |-> r, steps |-> Append(m[ev.c][r][Len(Steps[r]) - 1], ev)] : r \in Done(m, ev)}
    BY <1>2 DEF Verdict
  <2>2. ASSUME NEW r \in Done(m, ev) PROVE \E h \in verdict'.hits : h.rule = r
    <3> DEFINE h == [rule |-> r, steps |-> Append(m[ev.c][r][Len(Steps[r]) - 1], ev)]
    <3>1. h \in verdict'.hits /\ h.rule = r
      BY <2>1
    <3> HIDE DEF h
    <3>2. QED
      BY <3>1
  <2>3. ASSUME NEW h \in verdict'.hits PROVE h.rule \in Done(m, ev)
    <3>1. PICK r \in Done(m, ev) : h = [rule |-> r, steps |-> Append(m[ev.c][r][Len(Steps[r]) - 1], ev)]
      BY <2>1
    <3>2. h.rule = r
      BY <3>1
    <3>3. QED
      BY <3>2
  <2>4. QED
    BY <2>2, <2>3
<1>8. ev.c \notin out
  <2> HIDE DEF m, moved
  <2>1. CASE begins
    <3>1. ~Tracks(m, ev.c) /\ out \in Evicted(m, ev.ts) /\ ev.c \in Containers
      BY <1>1, <1>3, <2>1
    <3> HIDE DEF ev, begins
    <3>2. QED
      BY <3>1, OthersEvicted
  <2>2. CASE ~begins
    BY <1>3, <2>2
  <2>3. QED
    BY <2>1, <2>2
<1>9. Advances' = N /\ \A c \in Containers : Active(c)' = Active(c)
  BY <1>1, <1>2 DEF Advances, Active
<1>10. Skewed'
  BY <1>1, <1>2 DEF Skewed
<1> HIDE DEF m, moved, begins, kept
<1>11. Resets'
  <2>1. ASSUME NEW c \in Containers, NEW r \in Rules PROVE since'[c][r] <= N
    <3>1. since[c][r] <= N - 1 /\ since[c][r] \in Nat
      BY <1>1, LogFacts DEF Resets
    <3>2. since'[c][r] = N \/ since'[c][r] = since[c][r]
      BY <1>3
    <3>3. QED
      BY <1>1, <3>1, <3>2
  <2>2. QED
    BY <1>9, <2>1 DEF Resets
<1>12. Recent(chains)'
  <2>1. ASSUME NEW c \in Containers, NEW r \in Rules, NEW i \in Levels(r), chains'[c][r][i] # <<>>
        PROVE  lastSeen'[c] >= Start(chains'[c][r][i]) - MaxSkew
    <3>1. CASE c # ev.c
      <4>1. c \notin out
        BY <1>3, <2>1, <3>1, NoChainsType
      <4>2. chains'[c] = kept[c]
        BY <1>3, <3>1, <4>1
      <4>3. lastSeen'[c] = lastSeen[c]
        BY <1>1, <1>2, <3>1 DEF TypeOK
      <4>4. QED
        BY <1>5, <2>1, <4>2, <4>3 DEF Found, Recent
    <3>2. CASE c = ev.c /\ moved[r] = m[ev.c][r] /\ lastSeen' = lastSeen
      <4>1. chains'[c] = moved
        BY <1>3, <3>2
      <4>2. QED
        BY <1>1, <1>4, <2>1, <3>2, <4>1 DEF Found, Recent
    <3>3. CASE c = ev.c /\ lastSeen' = [lastSeen EXCEPT ![ev.c] = ev.ts]
      <4>1. lastSeen'[c] = ev.ts
        BY <1>1, <3>3 DEF TypeOK
      <4>2. Genuine(r, i, c, chains[c][r][i])'
        BY <2>1 DEF IInv, ChainsGenuine
      <4> DEFINE chain == chains'[c][r][i]
      <4>3. chain \in Seq(Event) /\ chain # <<>> /\ Len(chain) = i
        BY <2>1, <4>2 DEF Genuine
      <4>4. 1 \in 1 .. i
        BY DEF Levels
      <4>5. chain[1].n \in 1 .. N /\ chain[1] = log[chain[1].n]
        BY <1>2, <4>2, <4>4 DEF Genuine
      <4> HIDE DEF chain
      <4>6. PICK n \in 1 .. N : n = chain[1].n
        BY <4>5
      <4>7. log[n].ts = Start(chain) /\ Start(chain) \in Nat
        BY <4>3, <4>5, <4>6, StartTime DEF Start
      <4>8. ev.ts \in Nat /\ MaxSkew \in Nat
        BY <1>1 DEF Event, Time, SequenceAssumption
      <4>9. ev.ts >= log[n].ts - MaxSkew
        <5>1. CASE n = N
          BY <1>1, <4>7, <4>8, <5>1
        <5>2. CASE n # N
          <6>1. n < N
            BY <1>1, <4>6, <5>2
          <6>2. QED
            BY <1>1, <6>1 DEF Skewed
        <5>3. QED
          BY <5>1, <5>2
      <4>10. QED
        BY <4>1, <4>7, <4>9 DEF chain
    <3>4. CASE c = ev.c /\ r \in Done(m, ev)
      <4>1. chains'[c][r] = NoChains[r]
        BY <1>3, <3>4 DEF moved, Moved
      <4>2. QED
        BY <2>1, <4>1, NoChainsType
    <3>5. r \in Done(m, ev) \/ moved[r] = m[ev.c][r] \/ lastSeen' = [lastSeen EXCEPT ![ev.c] = ev.ts]
      BY <1>2
    <3>6. lastSeen' = lastSeen \/ lastSeen' = [lastSeen EXCEPT ![ev.c] = ev.ts]
      BY <1>2
    <3>7. QED
      BY <3>1, <3>2, <3>3, <3>4, <3>5, <3>6
  <2>2. QED
    BY <2>1 DEF Recent, Start
<1>13. AfterReset(chains)'
  <2>1. ASSUME NEW c \in Containers, NEW r \in Rules, NEW i \in Levels(r),
               NEW j \in 1 .. Len(chains'[c][r][i])
        PROVE  chains'[c][r][i][j].n > since'[c][r]
    <3>0. Len(<<>>) = 0 /\ chains'[c][r][i] # <<>>
      OBVIOUS
    <3>1. CASE c # ev.c
      <4>1. c \notin out
        BY <1>3, <3>0, <3>1, NoChainsType
      <4>2. chains'[c] = kept[c] /\ since'[c][r] = since[c][r]
        BY <1>3, <3>1, <4>1
      <4>3. QED
        BY <1>5, <2>1, <4>2 DEF Found, AfterReset
    <3>2. CASE c = ev.c
      <4>1. r \notin Done(m, ev)
        BY <1>3, <3>0, <3>2, NoChainsType DEF moved, Moved
      <4>2. chains'[c] = moved /\ since'[c][r] = since[c][r]
        BY <1>3, <1>8, <3>2, <4>1
      <4>3. since[c][r] < N
        <5>1. since[c][r] <= N - 1 /\ since[c][r] \in Nat
          BY <1>1, LogFacts DEF Resets
        <5>2. QED
          BY <1>1, <5>1
      <4>4. \A k \in Levels(r) : \A l \in 1 .. Len(m[c][r][k]) : m[c][r][k][l].n > since[c][r]
        BY <1>4 DEF Found, AfterReset
      <4>5. m[c][r] \in [Levels(r) -> Seq(Event)]
        BY <1>4 DEF Found, MapType
      <4>6. CASE moved[r][i] = m[c][r][i]
        BY <2>1, <4>2, <4>4, <4>6
      <4>7. CASE moved[r][i] = <<ev>>
        <5>1. j = 1 /\ <<ev>>[1] = ev
          BY <2>1, <4>2, <4>7
        <5>2. QED
          BY <1>1, <4>2, <4>3, <4>7, <5>1
      <4>8. CASE i - 1 \in Levels(r) /\ moved[r][i] = Append(m[c][r][i - 1], ev)
        <5> DEFINE old == m[c][r][i - 1]
        <5>1. old \in Seq(Event) /\ \A l \in 1 .. Len(old) : old[l].n > since[c][r]
          BY <4>4, <4>5, <4>8
        <5>2. chains'[c][r][i] = Append(old, ev)
          BY <4>2, <4>8
        <5> HIDE DEF old
        <5>3. /\ Len(Append(old, ev)) = Len(old) + 1 /\ Append(old, ev)[Len(old) + 1] = ev
              /\ \A l \in 1 .. Len(old) : Append(old, ev)[l] = old[l]
          BY <1>1, <5>1
        <5>4. j \in 1 .. Len(old) \/ j = Len(old) + 1
          BY <2>1, <5>1, <5>2, <5>3
        <5>5. QED
          BY <1>1, <4>2, <4>3, <5>1, <5>2, <5>3, <5>4
      <4>9. \/ moved[r][i] = m[c][r][i] \/ moved[r][i] = <<ev>>
            \/ i - 1 \in Levels(r) /\ moved[r][i] = Append(m[c][r][i - 1], ev)
        <5>1. moved[r] = m[c][r] \/ moved[r] = Advanced(r, m[c][r], ev)
          BY <3>2, <4>1 DEF moved, Moved
        <5>2. i = 1 \/ i - 1 \in Levels(r)
          BY DEF Levels
        <5>3. QED
          BY <5>1, <5>2 DEF Advanced
      <4>10. QED
        BY <4>6, <4>7, <4>8, <4>9
    <3>3. QED
      BY <3>1, <3>2
  <2>2. QED
    BY <2>1 DEF AfterReset
<1>14. ASSUME NEW c \in Containers, NEW r \in Active(c)
       PROVE  LevelsCover(chains'[c][r], r, c, since'[c][r] + 1, N, N)
  <2>1. r \in Rules /\ since[c][r] \in Nat
    BY <1>1, ActiveAreRules, LogFacts
  <2>2. CASE since'[c][r] = N
    <3>1. SUFFICES ASSUME NEW i \in Levels(r), NEW f \in [1 .. i -> N + 1 .. N] PROVE FALSE
      BY <2>2 DEF LevelsCover
    <3>2. 1 \in 1 .. i
      BY DEF Levels
    <3>3. f[1] \in N + 1 .. N
      BY <3>2
    <3>4. QED
      BY <1>1, <3>3
  <2>3. CASE c = ev.c /\ since'[c][r] # N
    <3>1. r \notin Done(m, ev) /\ since'[c][r] = since[c][r]
      BY <1>3, <2>1, <2>3
    <3>2. chains'[c][r] = Advanced(r, m[c][r], ev)
      BY <1>3, <2>1, <2>3, <3>1 DEF moved, Moved
    <3>3. m[c][r] \in [Levels(r) -> Seq(Event)]
      BY <1>4, <2>1 DEF Found, MapType
    <3>4. LevelsCover(m[c][r], r, c, since[c][r] + 1, N - 1, N) /\ since[c][r] + 1 \in Nat \ {0}
      BY <1>4, <2>1 DEF Found, Complete
    <3>5. LevelsCover(Advanced(r, m[c][r], log[N]), r, c, since[c][r] + 1, N, N)
      BY <1>1, <2>1, <3>3, <3>4, AdvancedCovers
    <3>6. QED
      BY <1>1, <3>1, <3>2, <3>5
  <2>4. CASE c # ev.c /\ since'[c][r] # N
    <3>1. c \notin out /\ since'[c][r] = since[c][r]
      BY <1>3, <2>1, <2>4
    <3>2. chains'[c] = kept[c]
      BY <1>3, <2>4, <3>1
    <3>3. SUFFICES ASSUME NEW i \in Levels(r), NEW f \in [1 .. i -> since[c][r] + 1 .. N], IsSequence(r, i, c, f)
                   PROVE  Covers(kept[c][r][i], r, log[f[1]].ts, N)
      BY <3>1, <3>2 DEF LevelsCover
    <3>4. ASSUME NEW j \in 1 .. i PROVE f[j] \in since[c][r] + 1 .. N - 1
      <4>1. f[j] \in since[c][r] + 1 .. N
        BY <3>3
      <4>2. f[j] # N
        BY <1>1, <2>4, <3>3 DEF IsSequence
      <4>3. QED
        BY <1>1, <2>1, <4>1, <4>2
    <3>5. f \in [1 .. i -> since[c][r] + 1 .. N - 1]
      BY <3>4
    <3>6. QED
      BY <1>5, <3>3, <3>5 DEF Found, Complete, LevelsCover
  <2>5. QED
    BY <2>2, <2>3, <2>4
<1>15. Complete(chains, Advances, Advances)'
  <2>1. ASSUME NEW c \in Containers, NEW r \in Active(c)', NEW i \in Levels(r),
               NEW f \in [1 .. i -> since'[c][r] + 1 .. Advances'], IsSequence(r, i, c, f)'
        PROVE  Covers(chains[c][r][i], r, log[f[1]].ts, Advances)'
    <3>1. r \in Active(c) /\ f \in [1 .. i -> since'[c][r] + 1 .. N]
      BY <1>9, <2>1
    <3>2. IsSequence(r, i, c, f)
      BY <1>2, <2>1 DEF IsSequence
    <3>3. Covers(chains'[c][r][i], r, log[f[1]].ts, N)
      BY <1>14, <2>1, <3>1, <3>2 DEF LevelsCover
    <3>4. QED
      BY <1>2, <1>9, <3>3 DEF Covers, Expired, Start
  <2>2. QED
    BY <2>1 DEF Complete, LevelsCover
<1>16. QED
  BY <1>6, <1>7, <1>10, <1>11, <1>12, <1>13, <1>15 DEF FInv

(***************************************************************************)
(* The first half of Observe keeps everything covered (Evaluate).          *)
(***************************************************************************)
LEMMA EvaluateKeepsFInv ==
  ASSUME SequenceAssumption, IInv, FInv, NEW c \in Containers, NEW k \in Kinds, NEW t \in Time,
         Evaluate(c, k, t)
  PROVE  FInv'
<1> DEFINE ev == [n |-> Len(log) + 1, c |-> c, kind |-> k, ts |-> t]
           N == Len(log)
<1>1. /\ log \in Seq(Event) /\ N \in Nat /\ pending = None /\ Advances = N
      /\ \A n \in 1 .. N : t >= log[n].ts - MaxSkew
      /\ \A d \in Containers, r \in Rules : since[d][r] \in Nat
  <2>1. TypeOK /\ pending = None /\ \A n \in DOMAIN log : t >= log[n].ts - MaxSkew
    BY DEF Evaluate, IInv
  <2>2. log \in Seq(Event) /\ N \in Nat /\ DOMAIN log = 1 .. N
    BY <2>1 DEF TypeOK
  <2>3. ASSUME NEW d \in Containers, NEW r \in Rules PROVE since[d][r] \in Nat
    <3>1. since[d][r] \in 0 .. MaxEvents /\ MaxEvents \in Nat
      BY <2>1 DEF TypeOK, SequenceAssumption
    <3>2. QED
      BY <3>1
  <2>4. QED
    BY <2>1, <2>2, <2>3 DEF Advances
<1>2. /\ log' = Append(log, ev) /\ pending' # None
      /\ UNCHANGED <<policy, version, chains, lastSeen, swept, since>>
  BY DEF Evaluate, engine, None
<1>3. ev \in Event /\ ev.ts = t
  BY <1>1 DEF Event
<1> HIDE DEF ev
<1>4. /\ Len(log') = N + 1 /\ log'[N + 1] = ev /\ \A n \in 1 .. N : log'[n] = log[n]
  BY <1>1, <1>2, <1>3
<1>5. Advances' = N
  BY <1>1, <1>2, <1>4 DEF Advances
<1> HIDE DEF N
<1>6. Skewed'
  <2>1. ASSUME NEW n \in 1 .. N + 1, NEW l \in 1 .. N + 1, n < l
        PROVE  log'[l].ts >= log'[n].ts - MaxSkew
    <3>1. n \in 1 .. N
      BY <1>1, <2>1
    <3>2. CASE l \in 1 .. N
      BY <1>4, <2>1, <3>1, <3>2 DEF FInv, Skewed, N
    <3>3. CASE l = N + 1
      BY <1>1, <1>3, <1>4, <3>1, <3>3
    <3>4. QED
      BY <1>1, <3>2, <3>3
  <2>2. QED
    BY <1>4, <2>1 DEF Skewed
<1>7. Resets' /\ Recent(chains)' /\ AfterReset(chains)'
  BY <1>1, <1>2, <1>5 DEF FInv, Resets, Recent, AfterReset, Start
<1>8. Complete(chains, Advances, Advances)'
  <2>1. ASSUME NEW d \in Containers, NEW r \in Active(d)', NEW i \in Levels(r),
               NEW f \in [1 .. i -> since'[d][r] + 1 .. Advances'], IsSequence(r, i, d, f)'
        PROVE  Covers(chains[d][r][i], r, log[f[1]].ts, Advances)'
    <3>1. r \in Active(d) /\ f \in [1 .. i -> since[d][r] + 1 .. N] /\ r \in Rules
      <4>1. r \in Active(d)
        BY <1>2, <2>1 DEF Active
      <4>2. QED
        BY <1>2, <1>5, <2>1, <4>1, ActiveAreRules DEF IInv
    <3>2. ASSUME NEW j \in 1 .. i PROVE f[j] \in 1 .. N /\ log'[f[j]] = log[f[j]]
      <4>1. f[j] \in since[d][r] + 1 .. N /\ since[d][r] \in Nat
        BY <1>1, <3>1
      <4>2. f[j] \in 1 .. N
        BY <1>1, <4>1
      <4>3. QED
        BY <1>4, <4>2
    <3>3. 1 \in 1 .. i
      BY DEF Levels
    <3>4. IsSequence(r, i, d, f)
      BY <2>1, <3>2, <3>3 DEF IsSequence
    <3>5. Covers(chains[d][r][i], r, log[f[1]].ts, N)
      BY <1>1, <2>1, <3>1, <3>4 DEF FInv, Complete, LevelsCover
    <3>6. log'[f[1]].ts = log[f[1]].ts /\ \A n \in 1 .. N : log'[n].ts = log[n].ts
      BY <1>4, <3>2, <3>3
    <3>7. QED
      BY <1>2, <1>5, <3>5, <3>6 DEF Covers, Expired, Start
  <2>2. QED
    BY <2>1 DEF Complete, LevelsCover
<1>9. QED
  BY <1>6, <1>7, <1>8 DEF FInv

(***************************************************************************)
(* What is cleared has nothing to cover (Forget, Replace).                 *)
(***************************************************************************)
LEMMA ClearedStaysCovered ==
  ASSUME SequenceAssumption, IInv, IInv', FInv, UNCHANGED <<log, pending, lastSeen>>,
         \A c \in Containers, r \in Rules :
           \/ /\ since'[c][r] = Advances
              /\ \A i \in Levels(r) : chains'[c][r][i] = <<>>
           \/ chains'[c] = chains[c] /\ since'[c] = since[c] /\ policy' = policy
  PROVE  FInv'
<1>1. Advances' = Advances /\ Skewed' /\ Len(<<>>) = 0
  BY DEF Advances, FInv, Skewed
<1>2. Advances \in Nat
  BY LogFacts DEF IInv, TypeOK, PendingInv, Advances
<1>3. Resets' /\ Recent(chains)' /\ AfterReset(chains)'
  <2>1. ASSUME NEW c \in Containers, NEW r \in Rules
        PROVE  /\ since'[c][r] <= Advances
               /\ \A i \in Levels(r) :
                    /\ chains'[c][r][i] # <<>> => lastSeen'[c] >= Start(chains'[c][r][i]) - MaxSkew
                    /\ \A j \in 1 .. Len(chains'[c][r][i]) : chains'[c][r][i][j].n > since'[c][r]
    <3>1. CASE since'[c][r] = Advances /\ \A i \in Levels(r) : chains'[c][r][i] = <<>>
      BY <1>1, <1>2, <3>1
    <3>2. CASE chains'[c] = chains[c] /\ since'[c] = since[c]
      BY <3>2 DEF FInv, Resets, Recent, AfterReset
    <3>3. QED
      BY <3>1, <3>2
  <2>2. QED
    BY <1>1, <2>1 DEF Resets, Recent, AfterReset, Start
<1>4. ASSUME NEW c \in Containers, NEW r \in Active(c)', NEW i \in Levels(r),
             NEW f \in [1 .. i -> since'[c][r] + 1 .. Advances'], IsSequence(r, i, c, f)'
      PROVE  Covers(chains[c][r][i], r, log[f[1]].ts, Advances)'
  <2>1. r \in Rules
    BY DEF IInv, TypeOK, Active, SequenceAssumption
  <2>2. CASE since'[c][r] = Advances
    <3>1. 1 \in 1 .. i
      BY DEF Levels
    <3>2. f[1] \in Advances + 1 .. Advances
      BY <1>1, <1>4, <2>2, <3>1
    <3>3. QED
      BY <1>2, <3>2
  <2>3. CASE chains'[c] = chains[c] /\ since'[c] = since[c] /\ policy' = policy
    <3>1. r \in Active(c) /\ IsSequence(r, i, c, f) /\ f \in [1 .. i -> since[c][r] + 1 .. Advances]
      BY <1>1, <1>4, <2>3 DEF Active, IsSequence
    <3>2. Covers(chains[c][r][i], r, log[f[1]].ts, Advances)
      BY <1>4, <3>1 DEF FInv, Complete, LevelsCover
    <3>3. QED
      BY <1>1, <2>3, <3>2 DEF Covers, Expired, Start
  <2>4. QED
    BY <2>1, <2>2, <2>3
<1>5. Complete(chains, Advances, Advances)'
  BY <1>4 DEF Complete, LevelsCover
<1>6. QED
  BY <1>1, <1>3, <1>5 DEF FInv

(***************************************************************************)
(* Every step keeps everything covered.                                    *)
(***************************************************************************)
LEMMA NextFInv ==
  ASSUME SequenceAssumption, WindowsFit, IInv, IInv', FInv, [Next]_vars
  PROVE  FInv'
<1>1. ASSUME NEW c \in Containers, NEW k \in Kinds, NEW t \in Time, Evaluate(c, k, t) PROVE FInv'
  BY <1>1, EvaluateKeepsFInv
<1>2. CASE Advance
  BY <1>2, AdvanceKeepsFInv
<1>3. ASSUME NEW d \in Containers, Forget(d) PROVE FInv'
  <2>1. /\ pending = None /\ UNCHANGED <<log, pending, lastSeen, policy>>
        /\ chains' = [c \in Containers |-> IF c = d THEN NoChains ELSE chains[c]]
        /\ since' = [since EXCEPT ![d] = [r \in Rules |-> Len(log)]]
    BY <1>3 DEF Forget
  <2>2. Advances = Len(log) /\ since \in [Containers -> [Rules -> 0 .. MaxEvents]]
    BY <2>1 DEF Advances, IInv, TypeOK
  <2>3. ASSUME NEW c \in Containers, NEW r \in Rules
        PROVE  \/ /\ since'[c][r] = Advances
                  /\ \A i \in Levels(r) : chains'[c][r][i] = <<>>
               \/ chains'[c] = chains[c] /\ since'[c] = since[c] /\ policy' = policy
    BY <2>1, <2>2, NoChainsType
  <2>4. QED
    BY <2>1, <2>3, ClearedStaysCovered
<1>4. ASSUME NEW p \in PolicySets, Replace(p) PROVE FInv'
  <2>1. /\ UNCHANGED <<lastSeen, pending, log>>
        /\ chains' = [c \in Containers |-> NoChains]
        /\ since' = [c \in Containers |-> [r \in Rules |-> Advances]]
    BY <1>4 DEF Replace, Advances
  <2>2. ASSUME NEW c \in Containers, NEW r \in Rules
        PROVE  since'[c][r] = Advances /\ \A i \in Levels(r) : chains'[c][r][i] = <<>>
    BY <2>1, NoChainsType
  <2>3. QED
    BY <2>1, <2>2, ClearedStaysCovered
<1>5. CASE UNCHANGED vars
  BY <1>5, ClearedStaysCovered DEF vars, engine
<1>6. QED
  BY <1>1, <1>2, <1>3, <1>4, <1>5 DEF Next

(***************************************************************************)
(* At every event exactly the rules fire whose steps occurred in order,    *)
(* within the window, since their last reset: one chain per step is enough *)
(* and sweeping loses nothing, if every window with twice the skew fits in *)
(* seqIdle (advance, step, sweep).                                         *)
(***************************************************************************)
THEOREM RulesFireExactly == WindowsFit => (Spec => FiresExactly)
<1> SUFFICES ASSUME WindowsFit PROVE Spec => FiresExactly
  OBVIOUS
<1> USE SequenceAssumption
<1>1. Init => FInv
  <2> SUFFICES ASSUME Init PROVE FInv
    OBVIOUS
  <2>1. /\ Len(log) = 0 /\ Advances = 0 /\ Len(<<>>) = 0
        /\ \A c \in Containers, r \in Rules : since[c][r] = 0
    BY DEF Init, Advances
  <2>2. \A c \in Containers, r \in Rules : \A i \in Levels(r) : chains[c][r][i] = <<>>
    BY NoChainsType DEF Init
  <2>3. Skewed /\ Resets /\ Recent(chains) /\ AfterReset(chains)
    BY <2>1, <2>2 DEF Skewed, Resets, Recent, AfterReset
  <2>4. Complete(chains, Advances, Advances)
    <3>1. ASSUME NEW c \in Containers, NEW r \in Active(c), NEW i \in Levels(r),
                 NEW f \in [1 .. i -> since[c][r] + 1 .. 0]
          PROVE  FALSE
      <4>1. r \in Rules /\ 1 \in 1 .. i
        BY DEF Levels, Active, Init, SequenceAssumption
      <4>2. f[1] \in 0 + 1 .. 0
        BY <2>1, <3>1, <4>1
      <4>3. QED
        BY <4>2
    <3>2. QED
      BY <2>1, <3>1 DEF Complete, LevelsCover
  <2>5. QED
    BY <2>3, <2>4 DEF FInv
<1>2. IInv /\ IInv' /\ FInv /\ [Next]_vars => FInv'
  BY NextFInv
<1>3. IInv /\ IInv' /\ FInv /\ [Next]_vars =>
        [pending # None /\ pending' = None =>
           {h.rule : h \in verdict'.hits} = {r \in Active(pending.ev.c) : Occurs(r, pending.ev.c)}]_vars
  <2> SUFFICES ASSUME IInv, IInv', FInv, [Next]_vars, pending # None, pending' = None
               PROVE  {h.rule : h \in verdict'.hits} = {r \in Active(pending.ev.c) : Occurs(r, pending.ev.c)}
    OBVIOUS
  <2>1. Advance
    BY DEF Next, Evaluate, Forget, Replace, vars
  <2>2. QED
    BY <2>1, AdvanceKeepsFInv
<1>4. QED
  BY <1>1, <1>2, <1>3, SpecIInv, PTL DEF Spec, FiresExactly
=============================================================================
