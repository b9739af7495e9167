---------------------------- MODULE StreamProofs ----------------------------
(***************************************************************************)
(* The live events (Stream): their types, and that a gap whose fill was    *)
(* taken is complete, for any number of verdicts and rows.                 *)
(*                                                                         *)
(* A fill takes from the newest verdicts what is not held, unless it is    *)
(* older than all that is held. So it must be known of every verdict that  *)
(* was missed that something older is held (Anchored), or that it was on   *)
(* the screen already, or that a full list left it behind (AnchorInv):     *)
(* rows only leave a list at its old end, where everything older is behind *)
(* it. What an answer brings is a beginning of the log as it was then      *)
(* (AnswersAreNewest); OwedInv then says of each verdict owed that it is   *)
(* settled, or the connection it was lost with is not back yet, or that a  *)
(* fill under way still brings it. With no fill under way, GapIsFilled is  *)
(* what remains.                                                           *)
(***************************************************************************)
EXTENDS Stream, ListProofs

Held == Range(rows) \cup Range(queue)

\* An older verdict is held, or v was on the screen, or fell off its end.
Anchored(v) == (\E h \in Held : h < v) \/ v \in OnScreen \cup passed

StreamShape ==
  /\ wire \in Seq(Verdicts) /\ \A i, j \in DOMAIN wire : i < j => wire[i] < wire[j]
  /\ \A v \in Range(wire) \cup Held : v <= said
  /\ missed \subseteq Verdicts /\ owed \subseteq missed /\ \A v \in owed : v <= kept
  /\ Range(rows) \subseteq seen

SpentShape ==
  /\ spent \in [DOMAIN Limit -> Nat] /\ spent.lose <= MaxLost
  /\ wasUp \/ (\E i \in DOMAIN fills : fills[i].at # "idle") => spent.lose >= 1
  /\ ~connected => wasUp \/ missed = {}

AnchorInv ==
  /\ \A v \in missed : Anchored(v)
  /\ Held # {} => \A v \in Range(wire) : Anchored(v)

AnswersAreNewest ==
  /\ load.at = "answered" => \E k \in 0 .. kept : load.data = Newest(k)
  /\ \A i \in DOMAIN fills : fills[i].at = "answered" => \E k \in 0 .. kept : fills[i].data = Newest(k)

\* A fill that is still to bring v.
Brings(r, v) == r.at \in {"sent", "failed"} \/ (r.at = "answered" /\ v \in Range(r.data))

Settled(v) == v \in OnScreen \cup passed \/ v \notin Recent
Brought(v) == \E i \in DOMAIN fills : Brings(fills[i], v)

OwedInv ==
  \A v \in owed : Settled(v) \/ wasUp \/ Brought(v)

StreamInv == StreamTypeOK /\ StreamShape /\ SpentShape /\ AnchorInv /\ AnswersAreNewest /\ OwedInv

-----------------------------------------------------------------------------
(* The lists.                                                              *)

\* Newest(n) is the last verdicts up to n.
LEMMA NewestFacts ==
  ASSUME NEW n \in 0 .. MaxVerdicts
  PROVE  /\ Newest(n) \in Seq(Verdicts) /\ Len(Newest(n)) <= MaxRows
         /\ Range(Newest(n)) = {v \in 1 .. n : v > n - MaxRows}
<1> DEFINE len == IF n < MaxRows THEN n ELSE MaxRows
<1>1. MaxRows \in Nat \ {0} /\ MaxVerdicts \in Nat /\ n \in Nat /\ n <= MaxVerdicts
  BY StreamAssumption
<1>2. len \in Nat /\ len <= MaxRows /\ len <= n
  BY <1>1
<1>3. \A i \in 1 .. len : n + 1 - i \in 1 .. n /\ n + 1 - i > n - MaxRows
  BY <1>1
<1>4. ASSUME NEW v \in 1 .. n, v > n - MaxRows
      PROVE  n + 1 - v \in 1 .. len /\ v = n + 1 - (n + 1 - v)
  BY <1>1, <1>4
<1>5. Newest(n) = [i \in 1 .. len |-> n + 1 - i]
  BY DEF Newest
<1> HIDE DEF len
<1>6. Newest(n) \in [1 .. len -> Verdicts]
  <2>1. \A i \in 1 .. len : n + 1 - i \in Verdicts
    BY <1>1, <1>3 DEF Verdicts
  <2>2. QED
    BY <1>5, <2>1
<1>7. Newest(n) \in Seq(Verdicts) /\ Len(Newest(n)) = len
  BY <1>2, <1>6, IsASeq, LenProperties
<1>8. Range(Newest(n)) = {v \in 1 .. n : v > n - MaxRows}
  <2>1. Range(Newest(n)) = {n + 1 - i : i \in 1 .. len}
    BY <1>5 DEF Range
  <2>2. QED
    BY <1>3, <1>4, <2>1
<1>9. QED
  BY <1>2, <1>7, <1>8

\* A list that is cut was longer than it may be.
LEMMA FirstRowsFacts ==
  ASSUME NEW X, NEW s \in Seq(X)
  PROVE  /\ FirstRows(s) \in Seq(X) /\ Len(FirstRows(s)) <= MaxRows
         /\ Range(FirstRows(s)) \subseteq Range(s)
         /\ Len(FirstRows(s)) = MaxRows \/ FirstRows(s) = s
<1> DEFINE n == IF Len(s) < MaxRows THEN Len(s) ELSE MaxRows
           t == SubSeq(s, 1, n)
<1>1. MaxRows \in Nat \ {0} /\ Len(s) \in Nat /\ n \in Nat /\ n <= Len(s) /\ n <= MaxRows
  BY StreamAssumption
<1>2. FirstRows(s) = t
  BY DEF FirstRows
<1>3. t \in Seq(X) /\ Len(t) = n /\ \A i \in 1 .. n : t[i] = s[i]
  <2> HIDE DEF n
  <2>1. QED
    BY <1>1, SubSeqProperties
<1>4. Range(t) \subseteq Range(s)
  <2> HIDE DEF n, t
  <2>1. DOMAIN t = 1 .. n /\ DOMAIN s = 1 .. Len(s) /\ 1 .. n \subseteq 1 .. Len(s)
    BY <1>1, <1>3
  <2>2. QED
    BY <1>3, <2>1 DEF Range
<1>5. n = MaxRows \/ t = s
  <2>1. CASE Len(s) < MaxRows
    BY <1>1, <1>3, <2>1, SeqEqual
  <2>2. QED
    BY <2>1
<1>6. QED
  <2> HIDE DEF n, t
  <2>1. QED
    BY <1>1, <1>2, <1>3, <1>4, <1>5

\* What a merge leaves out is behind a full list.
LEMMA MergeFacts ==
  ASSUME NEW a \in Seq(Verdicts), NEW b \in Seq(Verdicts)
  PROVE  LET m == mergeByTime(a, b)
         IN /\ m \in Seq(Verdicts) /\ Len(m) <= MaxRows
            /\ Range(m) \subseteq Range(a) \cup Range(b)
            /\ Len(m) = MaxRows \/ Range(m) = Range(a) \cup Range(b)
<1> DEFINE new == Filtered(b, Verdicts \ Range(a))
           all == a \o new
           d == Descending(all)
           m == mergeByTime(a, b)
<1>1. new \in Seq(Verdicts) /\ Range(new) = Range(b) \cap (Verdicts \ Range(a))
  BY FilteredRange
<1>2. m = FirstRows(d)
  BY DEF mergeByTime
<1> HIDE DEF new, m
<1>3. all \in Seq(Verdicts) /\ Range(all) = Range(a) \cup Range(new)
  BY <1>1, ConcatProperties, RangeConcatenation
<1>4. Range(b) \subseteq Verdicts
  BY DEF Range
<1>5. Range(all) = Range(a) \cup Range(b)
  BY <1>1, <1>3, <1>4
<1> HIDE DEF all
<1>6. d \in Seq(Verdicts) /\ Range(d) = Range(a) \cup Range(b)
  BY <1>3, <1>5, DescendingRange
<1> HIDE DEF d
<1>7. /\ m \in Seq(Verdicts) /\ Len(m) <= MaxRows /\ Range(m) \subseteq Range(d)
      /\ Len(m) = MaxRows \/ m = d
  BY <1>2, <1>6, FirstRowsFacts
<1>8. QED
  BY <1>6, <1>7 DEF m

\* A list turned round has the same elements.
LEMMA ReverseRange ==
  ASSUME NEW X, NEW s \in Seq(X)
  PROVE  Reverse(s) \in Seq(X) /\ Range(Reverse(s)) = Range(s)
<1>1. Len(s) \in Nat /\ DOMAIN s = 1 .. Len(s) /\ \A i \in 1 .. Len(s) : s[i] \in X
  OBVIOUS
<1>2. Reverse(s) = [i \in 1 .. Len(s) |-> s[(Len(s) - i) + 1]]
  BY DEF Reverse
<1>3. \A i \in 1 .. Len(s) : /\ (Len(s) - i) + 1 \in 1 .. Len(s)
                            /\ (Len(s) - ((Len(s) - i) + 1)) + 1 = i
  BY <1>1
<1>4. Reverse(s) \in [1 .. Len(s) -> X]
  BY <1>1, <1>2, <1>3
<1>5. Reverse(s) \in Seq(X)
  BY <1>1, <1>4, IsASeq
<1>6. Range(Reverse(s)) = {s[(Len(s) - i) + 1] : i \in 1 .. Len(s)}
  BY <1>2 DEF Range
<1>7. Range(s) = {s[i] : i \in 1 .. Len(s)}
  BY <1>1 DEF Range
<1>8. QED
  BY <1>3, <1>5, <1>6, <1>7

\* What fillFrom compares an answer with is what is held.
LEMMA HeldIs ==
  ASSUME StreamTypeOK
  PROVE  Range(rows \o queue) = Held /\ (rows \o queue = <<>> <=> Held = {}) /\ Held \subseteq Verdicts
<1>1. rows \in Seq(Verdicts) /\ queue \in Seq(Verdicts)
  BY DEF StreamTypeOK
<1>2. Range(rows \o queue) = Held
  BY <1>1, RangeConcatenation DEF Held
<1>3. (rows \o queue) \in Seq(Verdicts)
  BY <1>1, ConcatProperties
<1>4. \A s \in Seq(Verdicts) : (s = <<>> <=> Range(s) = {}) /\ Range(s) \subseteq Verdicts
  <2> SUFFICES ASSUME NEW s \in Seq(Verdicts)
               PROVE  (s = <<>> <=> Range(s) = {}) /\ Range(s) \subseteq Verdicts
    OBVIOUS
  <2>1. DOMAIN s = 1 .. Len(s) /\ Len(s) \in Nat /\ (s = <<>> <=> Len(s) = 0)
    BY EmptySeq
  <2>2. Range(s) = {s[i] : i \in 1 .. Len(s)} /\ \A i \in 1 .. Len(s) : s[i] \in Verdicts
    BY <2>1 DEF Range
  <2>3. Len(s) # 0 => 1 \in 1 .. Len(s)
    BY <2>1
  <2>4. Len(s) = 0 => 1 .. Len(s) = {}
    BY <2>1
  <2>5. QED
    BY <2>1, <2>2, <2>3, <2>4
<1>5. QED
  BY <1>2, <1>3, <1>4

\* Rows that are the newest verdicts and no full list are all there are.
LEMMA ShortRows ==
  ASSUME NEW r \in Seq(Verdicts), Len(r) < MaxRows,
         NEW k \in 0 .. MaxVerdicts, Range(r) = Range(Newest(k))
  PROVE  k < MaxRows
<1> SUFFICES ASSUME k >= MaxRows PROVE FALSE
  BY StreamAssumption
<1>1. MaxRows \in Nat \ {0} /\ k \in Nat /\ Len(r) \in Nat
  BY StreamAssumption
<1>2. Range(r) = k - MaxRows + 1 .. k
  <2>1. Range(r) = {v \in 1 .. k : v > k - MaxRows}
    BY NewestFacts
  <2>2. QED
    BY <1>1, <2>1
<1>3. Cardinality(Range(r)) = MaxRows
  <2>1. k - MaxRows + 1 \in Int /\ k \in Int
    BY <1>1
  <2>2. Cardinality(k - MaxRows + 1 .. k) =
          IF k - MaxRows + 1 > k THEN 0 ELSE k - (k - MaxRows + 1) + 1
    BY <2>1, FS_Interval
  <2>3. QED
    BY <1>1, <1>2, <2>2
<1>4. r \in Surjection(1 .. Len(r), Range(r))
  BY DEF Surjection, Range
<1>5. IsFiniteSet(1 .. Len(r)) /\ Cardinality(1 .. Len(r)) = Len(r)
  <2>1. 1 \in Int /\ Len(r) \in Int
    BY <1>1
  <2>2. IsFiniteSet(1 .. Len(r)) /\ Cardinality(1 .. Len(r)) = IF 1 > Len(r) THEN 0 ELSE Len(r) - 1 + 1
    BY <2>1, FS_Interval
  <2>3. QED
    BY <1>1, <2>2
<1>6. Cardinality(Range(r)) <= Len(r)
  BY <1>4, <1>5, FS_Surjection
<1>7. QED
  BY <1>1, <1>3, <1>6

-----------------------------------------------------------------------------
(* Anchors.                                                                *)

\* Rows that are a full list anchor every verdict: one of them is older, or is
\* the verdict, or all are newer.
LEMMA FullAnchors ==
  ASSUME NEW r \in Seq(Verdicts), draws(r), Len(r) = MaxRows, Range(r) \subseteq seen',
         NEW v \in Verdicts
  PROVE  Anchored(v)'
<1>1. rows' = r /\ DOMAIN r = 1 .. Len(r) /\ Range(r) = {r[i] : i \in DOMAIN r}
  BY DEF draws, Range
<1>2. Range(rows) ' = Range(r)
  BY <1>1
<1>3. Verdicts \subseteq Nat /\ Range(r) \subseteq Verdicts
  BY <1>1, StreamAssumption DEF Verdicts
<1>4. CASE \E h \in Range(r) : h < v
  BY <1>2, <1>4 DEF Anchored, Held
<1>5. CASE v \in Range(r)
  BY <1>5 DEF Anchored, OnScreen
<1>6. CASE \A h \in Range(r) : ~(h < v) /\ h # v
  <2>1. \A i \in DOMAIN r : r[i] > v
    <3> SUFFICES ASSUME NEW i \in DOMAIN r PROVE r[i] > v
      OBVIOUS
    <3>1. r[i] \in Range(r)
      BY <1>1
    <3>2. r[i] \in Nat /\ v \in Nat /\ ~(r[i] < v) /\ r[i] # v
      BY <1>3, <1>6, <3>1
    <3>3. QED
      BY <3>2
  <2>2. v \in passed'
    BY <2>1 DEF draws
  <2>3. QED
    BY <2>2 DEF Anchored
<1>7. QED
  BY <1>4, <1>5, <1>6

\* What is held stays anchored by what is held, drawn or passed more.
LEMMA AnchorStays ==
  ASSUME NEW v, Anchored(v), Held \subseteq Held', OnScreen \subseteq OnScreen', passed \subseteq passed'
  PROVE  Anchored(v)'
BY DEF Anchored

\* New rows keep the anchors, for they are a full list or hold what was held,
\* and the first rows come from an answer, with all that is older.
LEMMA DrawKeepsAnchors ==
  ASSUME StreamTypeOK, StreamShape, AnchorInv, NEW r \in Seq(Verdicts), draws(r),
         Range(r) \subseteq seen', OnScreen \subseteq OnScreen',
         Len(r) <= MaxRows,
         Len(r) = MaxRows \/ (/\ Held \subseteq Held'
                              /\ Held = {} => \/ Held' = {}
                                              \/ \E k \in 0 .. kept : Held' = Range(Newest(k))
                                                                    /\ Range(r) = Range(Newest(k))),
         UNCHANGED <<missed, wire>>
  PROVE  AnchorInv'
<1>1. missed \subseteq Verdicts /\ Range(wire) \subseteq Verdicts
  BY DEF StreamShape, Range
<1>2. passed \subseteq passed'
  BY DEF draws
<1>3. CASE Len(r) = MaxRows
  <2>1. \A v \in Verdicts : Anchored(v)'
    BY <1>3, FullAnchors
  <2>2. QED
    BY <1>1, <2>1 DEF AnchorInv
<1>4. CASE Len(r) # MaxRows
  <2>1. /\ Held \subseteq Held'
        /\ Held = {} => \/ Held' = {}
                        \/ \E k \in 0 .. kept : Held' = Range(Newest(k)) /\ Range(r) = Range(Newest(k))
    BY <1>4
  <2>2. \A v : Anchored(v) => Anchored(v)'
    BY <1>2, <2>1, AnchorStays
  <2>3. \A v \in missed' : Anchored(v)'
    BY <2>2 DEF AnchorInv
  <2>4. ASSUME Held' # {}, NEW w \in Range(wire') PROVE Anchored(w)'
    <3>1. CASE Held # {}
      BY <2>2, <3>1 DEF AnchorInv
    <3>2. CASE Held = {}
      <4>1. PICK k \in 0 .. kept : Held' = Range(Newest(k)) /\ Range(r) = Range(Newest(k))
        BY <2>1, <2>4, <3>2
      <4>2. k \in 0 .. MaxVerdicts /\ k \in Nat /\ w \in Nat /\ MaxRows \in Nat \ {0} /\ w \in Verdicts
        BY <1>1, StreamAssumption DEF StreamTypeOK, Verdicts
      <4>3. Range(Newest(k)) = {v \in 1 .. k : v > k - MaxRows}
        BY <4>2, NewestFacts
      <4>4. PICK h \in 1 .. k : h > k - MaxRows
        BY <2>4, <4>1, <4>3
      <4>5. CASE w > k
        <5>1. h \in Held' /\ h < w
          BY <4>1, <4>2, <4>3, <4>4, <4>5
        <5>2. QED
          BY <5>1 DEF Anchored
      <4>6. CASE w <= k /\ w > k - MaxRows
        <5>1. w \in Range(r)
          BY <4>1, <4>2, <4>3, <4>6 DEF Verdicts
        <5>2. QED
          BY <5>1 DEF Anchored, OnScreen
      <4>7. CASE w <= k - MaxRows
        <5>1. Len(r) < MaxRows
          <6>1. Len(r) \in Nat
            OBVIOUS
          <6>2. QED
            BY <1>4, <4>2, <6>1
        <5>2. k < MaxRows
          BY <4>1, <4>2, <5>1, ShortRows
        <5>3. QED
          BY <4>2, <4>7, <5>2 DEF Verdicts
      <4>8. QED
        BY <4>2, <4>5, <4>6, <4>7
    <3>3. QED
      BY <3>1, <3>2
  <2>5. QED
    BY <2>3, <2>4 DEF AnchorInv
<1>5. QED
  BY <1>3, <1>4

-----------------------------------------------------------------------------
(* Types.                                                                  *)

\* What a fill draws.
LEMMA FillFacts ==
  ASSUME StreamTypeOK, NEW vs \in Seq(Verdicts), fillFrom(vs)
  PROVE  \E r \in Seq(Verdicts), gap \in SUBSET Verdicts :
           /\ draws(r) /\ Len(r) <= MaxRows
           /\ gap = {v \in Range(vs) : v \notin Held /\ (Held = {} \/ \E h \in Held : h <= v)}
           /\ topology' = topology \cup gap /\ seen' = seen \cup gap
           /\ paused => r = rows
           /\ Range(r) \subseteq Range(rows) \cup gap
           /\ Len(r) = MaxRows \/ paused \/ Range(r) = Range(rows) \cup gap
<1> DEFINE have == rows \o queue
           g == gapOf(vs, have)
           gap == Range(g)
           r == IF paused THEN rows ELSE mergeByTime(rows, g)
<1>1. rows \in Seq(Verdicts) /\ Len(rows) <= MaxRows
  BY DEF StreamTypeOK
<1>2. Range(have) = Held /\ (have = <<>> <=> Held = {})
  BY HeldIs
<1>3. draws(r) /\ topology' = topology \cup gap /\ seen' = seen \cup gap
  BY DEF fillFrom
<1> HIDE DEF have
<1>4. g \in Seq(Verdicts) /\ gap = Range(vs) \cap {v \in Verdicts :
                               /\ v \notin Range(have)
                               /\ have = <<>> \/ \E h \in Range(have) : h <= v}
  BY FilteredRange DEF gapOf
<1> HIDE DEF g
<1>5. gap \subseteq Verdicts
      /\ gap = {v \in Range(vs) : v \notin Held /\ (Held = {} \/ \E h \in Held : h <= v)}
  <2>1. Range(vs) \subseteq Verdicts
    BY DEF Range
  <2>2. QED
    BY <1>2, <1>4, <2>1
<1>6. LET m == mergeByTime(rows, g)
      IN /\ m \in Seq(Verdicts) /\ Len(m) <= MaxRows
         /\ Range(m) \subseteq Range(rows) \cup Range(g)
         /\ Len(m) = MaxRows \/ Range(m) = Range(rows) \cup Range(g)
  BY <1>1, <1>4, MergeFacts
<1>7. /\ r \in Seq(Verdicts) /\ Len(r) <= MaxRows /\ (paused => r = rows)
      /\ Range(r) \subseteq Range(rows) \cup gap
      /\ Len(r) = MaxRows \/ paused \/ Range(r) = Range(rows) \cup gap
  BY <1>1, <1>6
<1> HIDE DEF r, gap
<1>8. QED
  BY <1>3, <1>5, <1>7

\* What a request holds.
LEMMA RequestFacts ==
  ASSUME NEW r \in Requests(Seq(Verdicts))
  PROVE  /\ r.at \in {"idle", "sent", "failed", "answered"}
         /\ r.at = "answered" => r.data \in Seq(Verdicts)
BY DEF Requests, Idle, Sent, Failed

\* What is asked for and brought are lists of verdicts.
LEMMA AnswerTypes ==
  /\ {Idle, Sent, Failed} \subseteq Requests(Seq(Verdicts))
  /\ \A d \in Seq(Verdicts) : Answer(d) \in Requests(Seq(Verdicts))
  /\ Idle.at = "idle" /\ Sent.at = "sent" /\ Failed.at = "failed"
  /\ \A d : Answer(d).at = "answered" /\ Answer(d).data = d
BY DEF Requests, Idle, Sent, Failed, Answer

\* The first part of StreamTypeOK: all but the lists.
StateTypes ==
  /\ said \in 0 .. MaxVerdicts /\ kept \in 0 .. said
  /\ known \in BOOLEAN /\ wasUp \in BOOLEAN /\ paused \in BOOLEAN /\ first \in BOOLEAN
  /\ socket \in {"connecting", "open", "waiting"} /\ (known => connected)
ListTypes ==
  /\ queue \in Seq(Verdicts) /\ rows \in Seq(Verdicts) /\ Len(rows) <= MaxRows
  /\ topology \subseteq Verdicts /\ unseen \in Nat
CallTypes ==
  /\ load \in Requests(Seq(Verdicts)) /\ fills \in [1 .. MaxLost -> Requests(Seq(Verdicts))]

\* The types of the connection, the pause and the counters.
LEMMA StateTypesStep == StreamTypeOK /\ [StreamNext]_streamVars => StateTypes'
<1> SUFFICES ASSUME StateTypes, [StreamNext]_streamVars PROVE StateTypes'
  BY DEF StreamTypeOK, StateTypes
<1> USE DEF StateTypes, connected
<1>1. CASE ServerSays
  BY <1>1, StreamAssumption DEF ServerSays, rowVars, loadVars
<1>2. CASE ServerStores
  BY <1>2 DEF ServerStores, connVars, rowVars, loadVars
<1>3. CASE HubRegisters
  BY <1>3 DEF HubRegisters, serverVars, rowVars, loadVars
<1>4. CASE OnOpen
  BY <1>4 DEF OnOpen, serverVars, rowVars, loadVars
<1>5. CASE OnRefused
  BY <1>5 DEF OnRefused, serverVars, rowVars, loadVars
<1>6. CASE OnLost
  BY <1>6 DEF OnLost, serverVars, rowVars, loadVars
<1>7. CASE RetryConnect
  BY <1>7 DEF RetryConnect, serverVars, rowVars, loadVars
<1>8. CASE GraceOver
  BY <1>8 DEF GraceOver, serverVars, rowVars, loadVars
<1>9. CASE OnMessage
  BY <1>9 DEF OnMessage, accept, serverVars, loadVars
<1>10. CASE Flush
  BY <1>10 DEF Flush, serverVars, connVars, loadVars
<1>11. CASE ServerAnswers
  BY <1>11, Zenon DEF ServerAnswers, serverVars, rowVars
<1>12. CASE ServerFails
  BY <1>12, Zenon DEF ServerFails, serverVars, rowVars
<1>13. CASE RecentLoaded
  BY <1>13, Zenon DEF RecentLoaded, connVars, serverVars
<1>14. CASE RecentFailed
  BY <1>14, Zenon DEF RecentFailed, connVars, rowVars, serverVars
<1>15. CASE RetryLoad
  BY <1>15, Zenon DEF RetryLoad, connVars, rowVars, serverVars
<1>16. ASSUME NEW i \in DOMAIN fills, FillDone(i) PROVE StateTypes'
  BY <1>16, Zenon DEF FillDone, serverVars
<1>17. ASSUME NEW i \in DOMAIN fills, FillFailed(i) PROVE StateTypes'
  BY <1>17, Zenon DEF FillFailed, serverVars, rowVars, loadVars
<1>18. CASE Pause
  BY <1>18, Zenon DEF Pause, connVars, loadVars, serverVars
<1>19. CASE Resume
  BY <1>19, Zenon DEF Resume, connVars, loadVars, serverVars
<1>20. CASE AckAlerts
  BY <1>20, Zenon DEF AckAlerts, connVars, loadVars, serverVars
<1>21. CASE UNCHANGED streamVars
  BY <1>21 DEF streamVars, connVars, rowVars, loadVars, serverVars
<1>22. QED
  BY <1>1, <1>2, <1>3, <1>4, <1>5, <1>6, <1>7, <1>8, <1>9, <1>10, <1>11, <1>12, <1>13,
     <1>14, <1>15, <1>16, <1>17, <1>18, <1>19, <1>20, <1>21
     DEF StreamNext, Server, Socket, StreamLoads, Viewer

\* The types of the load and the fills under way.
LEMMA CallTypesStep == StreamTypeOK /\ [StreamNext]_streamVars => CallTypes'
<1> SUFFICES ASSUME StreamTypeOK, [StreamNext]_streamVars PROVE CallTypes'
  OBVIOUS
<1>1. CallTypes
  BY DEF StreamTypeOK, CallTypes
<1>2. Newest(kept) \in Seq(Verdicts)
  <2>1. kept \in 0 .. MaxVerdicts
    BY StreamAssumption DEF StreamTypeOK
  <2>2. QED
    BY <2>1, NewestFacts
<1> DEFINE R == Requests(Seq(Verdicts))
<1>3. Idle \in R /\ Sent \in R /\ Failed \in R /\ Answer(Newest(kept)) \in R
  BY <1>2, AnswerTypes
<1>4. load \in R /\ fills \in [1 .. MaxLost -> R]
  BY <1>1 DEF CallTypes
<1>5. CallTypes' = (load' \in R /\ fills' \in [1 .. MaxLost -> R])
  BY DEF CallTypes
<1> HIDE DEF R
<1>6. ASSUME NEW i, NEW x \in R, fills' = [fills EXCEPT ![i] = x] PROVE fills' \in [1 .. MaxLost -> R]
  BY <1>4, <1>6
<1>7. CASE ServerAnswers \/ ServerFails
  BY <1>3, <1>4, <1>5, <1>6, <1>7 DEF ServerAnswers, ServerFails
<1>8. CASE RecentLoaded \/ RecentFailed \/ RetryLoad
  BY <1>3, <1>4, <1>5, <1>8 DEF RecentLoaded, RecentFailed, RetryLoad, connVars
<1>9. CASE \E i \in DOMAIN fills : FillDone(i) \/ FillFailed(i)
  BY <1>3, <1>4, <1>5, <1>6, <1>9 DEF FillDone, FillFailed, loadVars
<1>10. CASE OnOpen
  BY <1>3, <1>4, <1>5, <1>6, <1>10 DEF OnOpen, loadVars
<1>11. CASE UNCHANGED <<load, fills>>
  BY <1>4, <1>5, <1>11
<1>12. CASE Viewer \/ UNCHANGED streamVars
  BY <1>11, <1>12 DEF Viewer, Pause, Resume, AckAlerts, streamVars, connVars, loadVars
<1>13. CASE ServerSays \/ ServerStores \/ HubRegisters
  BY <1>11, <1>13 DEF ServerSays, ServerStores, HubRegisters, connVars, loadVars
<1>14. CASE OnRefused \/ OnLost \/ RetryConnect \/ OnMessage \/ Flush \/ GraceOver
  BY <1>11, <1>14 DEF OnRefused, OnLost, RetryConnect, OnMessage, Flush, GraceOver, connVars, loadVars
<1>15. QED
  BY <1>7, <1>8, <1>9, <1>10, <1>12, <1>13, <1>14
     DEF StreamNext, Server, Socket, StreamLoads

\* The lists change only with messages, the drawing of the queue and answers.
LEMMA ListsStay ==
  [StreamNext]_streamVars =>
    \/ OnMessage \/ Flush \/ RecentLoaded \/ (\E i \in DOMAIN fills : FillDone(i))
    \/ UNCHANGED <<queue, rows, passed, topology, seen>> /\ unseen' \in {unseen, 0}
<1> USE DEF rowVars, connVars, loadVars, serverVars
<1>1. Server => UNCHANGED rowVars
  BY Zenon DEF Server, ServerSays, ServerStores, HubRegisters, ServerAnswers, ServerFails
<1>2. Socket => OnMessage \/ Flush \/ UNCHANGED rowVars
  BY Zenon DEF Socket, OnOpen, OnRefused, OnLost, RetryConnect, GraceOver
<1>3. StreamLoads => RecentLoaded \/ (\E i \in DOMAIN fills : FillDone(i)) \/ UNCHANGED rowVars
  BY Zenon DEF StreamLoads, RecentFailed, RetryLoad, FillFailed
<1>4. Viewer => UNCHANGED <<queue, rows, passed, topology, seen>> /\ unseen' \in {unseen, 0}
  BY DEF Viewer, Pause, Resume, AckAlerts
<1>5. UNCHANGED streamVars => UNCHANGED rowVars
  BY DEF streamVars
<1>6. UNCHANGED rowVars => UNCHANGED <<queue, rows, passed, topology, seen>> /\ unseen' \in {unseen, 0}
  OBVIOUS
<1>7. QED
  BY <1>1, <1>2, <1>3, <1>4, <1>5, <1>6 DEF StreamNext

\* The first load: what it got goes under the rows.
LEMMA LoadFacts ==
  ASSUME StreamTypeOK, RecentLoaded
  PROVE  /\ load.data \in Seq(Verdicts) /\ load.at = "answered" /\ UNCHANGED <<queue, unseen, paused>>
         /\ ~first => fillFrom(load.data)
         /\ first => \E r \in Seq(Verdicts) :
              /\ draws(r) /\ Len(r) <= MaxRows
              /\ topology' = topology \cup Range(load.data) /\ seen' = seen \cup Range(r)
              /\ Range(r) \subseteq Range(rows) \cup Range(load.data)
              /\ Len(r) = MaxRows \/ Range(r) = Range(rows) \cup Range(load.data)
<1>1. load.data \in Seq(Verdicts) /\ load.at = "answered"
  BY RequestFacts DEF RecentLoaded, StreamTypeOK
<1>2. rows \in Seq(Verdicts)
  BY DEF StreamTypeOK
<1> DEFINE all == rows \o load.data
           r == FirstRows(all)
<1>3. all \in Seq(Verdicts) /\ Range(all) = Range(rows) \cup Range(load.data)
  BY <1>1, <1>2, ConcatProperties, RangeConcatenation
<1>4. /\ r \in Seq(Verdicts) /\ Len(r) <= MaxRows /\ Range(r) \subseteq Range(all)
      /\ Len(r) = MaxRows \/ r = all
  <2> HIDE DEF all
  <2>1. QED
    BY <1>3, FirstRowsFacts
<1>5. first => /\ draws(r) /\ topology' = topology \cup Range(load.data)
               /\ seen' = seen \cup Range(r)
  BY DEF RecentLoaded, draws
<1>6. (~first => fillFrom(load.data)) /\ UNCHANGED <<queue, unseen, paused>>
  BY DEF RecentLoaded
<1> HIDE DEF r
<1>7. first => \E x \in Seq(Verdicts) :
              /\ draws(x) /\ Len(x) <= MaxRows
              /\ topology' = topology \cup Range(load.data) /\ seen' = seen \cup Range(x)
              /\ Range(x) \subseteq Range(rows) \cup Range(load.data)
              /\ Len(x) = MaxRows \/ Range(x) = Range(rows) \cup Range(load.data)
  BY <1>3, <1>4, <1>5
<1>8. QED
  BY <1>1, <1>6, <1>7

\* The queue is drawn before the rows.
LEMMA FlushFacts ==
  ASSUME StreamTypeOK, Flush
  PROVE  /\ queue' = <<>> /\ seen' = seen \cup Range(queue) /\ UNCHANGED <<topology, unseen>>
         /\ \E r \in Seq(Verdicts) :
              /\ draws(r) /\ Len(r) <= MaxRows /\ Range(r) \subseteq Range(rows) \cup Range(queue)
              /\ Len(r) = MaxRows \/ Range(r) = Range(rows) \cup Range(queue)
<1>1. queue \in Seq(Verdicts) /\ rows \in Seq(Verdicts)
  BY DEF StreamTypeOK
<1> DEFINE back == Reverse(queue)
           all == back \o rows
           r == FirstRows(all)
<1>2. back \in Seq(Verdicts) /\ Range(back) = Range(queue)
  BY <1>1, ReverseRange
<1>3. draws(r) /\ queue' = <<>> /\ seen' = seen \cup Range(queue) /\ UNCHANGED <<topology, unseen>>
  BY DEF Flush
<1> HIDE DEF back
<1>4. all \in Seq(Verdicts) /\ Range(all) = Range(rows) \cup Range(queue)
  BY <1>1, <1>2, ConcatProperties, RangeConcatenation
<1> HIDE DEF all
<1>5. /\ r \in Seq(Verdicts) /\ Len(r) <= MaxRows /\ Range(r) \subseteq Range(all)
      /\ Len(r) = MaxRows \/ r = all
  BY <1>4, FirstRowsFacts
<1> HIDE DEF r
<1>6. QED
  BY <1>3, <1>4, <1>5

\* The types of the buffer and the rows, with their limit.
LEMMA ListTypesStep ==
  StreamTypeOK /\ StreamShape /\ [StreamNext]_streamVars => ListTypes'
<1> SUFFICES ASSUME StreamTypeOK, StreamShape, [StreamNext]_streamVars PROVE ListTypes'
  OBVIOUS
<1>1. ListTypes
  BY DEF StreamTypeOK, ListTypes
<1> USE DEF ListTypes
<1>2. ASSUME NEW r \in Seq(Verdicts), draws(r), Len(r) <= MaxRows
      PROVE  rows' \in Seq(Verdicts) /\ Len(rows') <= MaxRows
  BY <1>2 DEF draws
<1>3. CASE OnMessage
  <2>1. wire \in Seq(Verdicts) /\ wire # <<>>
    BY <1>3 DEF OnMessage, StreamShape
  <2>2. Head(wire) \in Verdicts
    BY <2>1
  <2>3. accept(Head(wire))
    BY <1>3 DEF OnMessage
  <2>4. QED
    BY <1>1, <2>2, <2>3 DEF accept
<1>4. CASE Flush
  BY <1>1, <1>2, <1>4, FlushFacts
<1>5. CASE RecentLoaded
  <2>1. /\ load.data \in Seq(Verdicts) /\ UNCHANGED <<queue, unseen>>
        /\ Range(load.data) \subseteq Verdicts
    BY <1>5, LoadFacts DEF Range
  <2>2. CASE first
    BY <1>1, <1>2, <1>5, <2>1, <2>2, LoadFacts
  <2>3. CASE ~first
    <3>1. fillFrom(load.data)
      BY <1>5, <2>3, LoadFacts
    <3>2. QED
      BY <1>1, <1>2, <2>1, <3>1, FillFacts
  <2>4. QED
    BY <2>2, <2>3
<1>6. ASSUME NEW i \in DOMAIN fills, FillDone(i) PROVE ListTypes'
  <2>1. fills[i].data \in Seq(Verdicts)
    <3>1. fills[i] \in Requests(Seq(Verdicts)) /\ fills[i].at = "answered"
      BY <1>6 DEF StreamTypeOK, FillDone
    <3>2. QED
      BY <3>1, RequestFacts
  <2>2. fillFrom(fills[i].data) /\ UNCHANGED <<queue, unseen>>
    BY <1>6 DEF FillDone
  <2>3. QED
    BY <1>1, <1>2, <2>1, <2>2, FillFacts
<1>7. CASE UNCHANGED <<queue, rows, passed, topology, seen>> /\ unseen' \in {unseen, 0}
  BY <1>1, <1>7
<1>8. QED
  BY <1>3, <1>4, <1>5, <1>6, <1>7, ListsStay

\* Every action keeps the types.
LEMMA TypeStep ==
  StreamTypeOK /\ StreamShape /\ [StreamNext]_streamVars => StreamTypeOK'
BY StateTypesStep, CallTypesStep, ListTypesStep
   DEF StreamTypeOK, StateTypes, CallTypes, ListTypes

-----------------------------------------------------------------------------
(* What is held and was drawn.                                             *)

\* A message is added to the queue, or counts as drawn while paused.
LEMMA MessageFacts ==
  ASSUME StreamTypeOK, StreamShape, OnMessage
  PROVE  /\ wire # <<>> /\ Head(wire) \in Range(wire) /\ wire' = Tail(wire)
         /\ UNCHANGED <<rows, passed>> /\ seen \subseteq seen'
         /\ \/ paused /\ queue' = queue /\ Head(wire) \in seen'
            \/ ~paused /\ Range(queue') = Range(queue) \cup {Head(wire)}
<1>1. wire \in Seq(Verdicts) /\ wire # <<>> /\ wire' = Tail(wire) /\ accept(Head(wire))
  BY DEF OnMessage, StreamShape
<1>2. Head(wire) = wire[1] /\ 1 \in DOMAIN wire /\ Head(wire) \in Verdicts
  BY <1>1
<1>3. Head(wire) \in Range(wire)
  BY <1>2 DEF Range
<1>4. Range(Append(queue, Head(wire))) = Range(queue) \cup {Head(wire)}
  BY <1>2, AppendRange DEF StreamTypeOK
<1>5. QED
  BY <1>1, <1>3, <1>4 DEF accept

\* An answer that is taken is the newest verdicts at some time before.
LEMMA TakenIsNewest ==
  ASSUME StreamTypeOK, AnswersAreNewest,
         NEW r, r = load \/ (\E i \in DOMAIN fills : r = fills[i]), r.at = "answered"
  PROVE  \E k \in 0 .. kept : r.data = Newest(k) /\ k \in 0 .. MaxVerdicts
                            /\ Range(r.data) = {v \in 1 .. k : v > k - MaxRows}
<1>1. PICK k \in 0 .. kept : r.data = Newest(k)
  BY DEF AnswersAreNewest
<1>2. k \in 0 .. MaxVerdicts
  BY StreamAssumption DEF StreamTypeOK
<1>3. QED
  BY <1>1, <1>2, NewestFacts

\* A fill keeps what was drawn.
LEMMA FillKeeps ==
  ASSUME StreamTypeOK, StreamShape, NEW vs \in Seq(Verdicts), fillFrom(vs), queue' = queue
  PROVE  /\ Range(rows') \subseteq seen' /\ OnScreen \subseteq OnScreen' /\ passed \subseteq passed'
         /\ Held' \subseteq Held \cup Range(vs)
<1>1. PICK r \in Seq(Verdicts), gap \in SUBSET Verdicts :
        /\ draws(r)
        /\ gap = {v \in Range(vs) : v \notin Held /\ (Held = {} \/ \E h \in Held : h <= v)}
        /\ seen' = seen \cup gap /\ Range(r) \subseteq Range(rows) \cup gap
  BY FillFacts
<1>2. rows' = r /\ passed \subseteq passed' /\ gap \subseteq Range(vs)
  BY <1>1 DEF draws
<1>3. QED
  BY <1>1, <1>2 DEF StreamShape, OnScreen, Held

\* What was on the screen or left behind stays so.
LEMMA ScreenGrows ==
  ASSUME StreamTypeOK, StreamShape, AnswersAreNewest, [StreamNext]_streamVars
  PROVE  /\ Range(rows') \subseteq seen' /\ OnScreen \subseteq OnScreen' /\ passed \subseteq passed'
         /\ \A v \in Held' : v \in Held \cup Range(wire) \/ v \in 1 .. kept
<1>1. CASE OnMessage
  BY <1>1, MessageFacts DEF StreamShape, OnScreen, Held
<1>2. CASE Flush
  <2>1. PICK r \in Seq(Verdicts) : draws(r) /\ Range(r) \subseteq Range(rows) \cup Range(queue)
    BY <1>2, FlushFacts
  <2>2. rows' = r /\ passed \subseteq passed'
    BY <2>1 DEF draws
  <2>3. seen' = seen \cup Range(queue) /\ Range(queue') = {}
    BY <1>2, FlushFacts DEF Range
  <2>4. QED
    BY <2>1, <2>2, <2>3 DEF StreamShape, OnScreen, Held
<1>3. CASE RecentLoaded
  <2>1. /\ load.data \in Seq(Verdicts) /\ queue' = queue
        /\ \A v \in Range(load.data) : v \in 1 .. kept
    <3>1. load.data \in Seq(Verdicts) /\ queue' = queue /\ load.at = "answered"
      BY <1>3, LoadFacts
    <3>2. PICK k \in 0 .. kept : Range(load.data) = {v \in 1 .. k : v > k - MaxRows}
      BY <3>1, TakenIsNewest
    <3>3. \A v \in 1 .. k : v \in 1 .. kept
      BY StreamAssumption DEF StreamTypeOK
    <3>4. QED
      BY <3>1, <3>2, <3>3
  <2>2. CASE first
    <3>1. PICK r \in Seq(Verdicts) : /\ draws(r) /\ seen' = seen \cup Range(r)
                                   /\ Range(r) \subseteq Range(rows) \cup Range(load.data)
      BY <1>3, <2>2, LoadFacts
    <3>2. rows' = r /\ passed \subseteq passed'
      BY <3>1 DEF draws
    <3>3. QED
      BY <2>1, <3>1, <3>2 DEF StreamShape, OnScreen, Held
  <2>3. CASE ~first
    <3>1. fillFrom(load.data)
      BY <1>3, <2>3, LoadFacts
    <3>2. QED
      BY <2>1, <3>1, FillKeeps
  <2>4. QED
    BY <2>2, <2>3
<1>4. ASSUME NEW i \in DOMAIN fills, FillDone(i)
      PROVE  /\ Range(rows') \subseteq seen' /\ OnScreen \subseteq OnScreen' /\ passed \subseteq passed'
             /\ \A v \in Held' : v \in Held \cup Range(wire) \/ v \in 1 .. kept
  <2>1. fills[i].data \in Seq(Verdicts) /\ fills[i].at = "answered"
    <3>1. fills[i] \in Requests(Seq(Verdicts)) /\ fills[i].at = "answered"
      BY <1>4 DEF StreamTypeOK, FillDone
    <3>2. QED
      BY <3>1, RequestFacts
  <2>2. fillFrom(fills[i].data) /\ queue' = queue
    BY <1>4 DEF FillDone
  <2>3. PICK k \in 0 .. kept : Range(fills[i].data) = {v \in 1 .. k : v > k - MaxRows}
    BY <2>1, TakenIsNewest
  <2>4. \A v \in 1 .. k : v \in 1 .. kept
    BY StreamAssumption DEF StreamTypeOK
  <2>5. QED
    BY <2>1, <2>2, <2>3, <2>4, FillKeeps
<1>5. CASE UNCHANGED <<queue, rows, passed, topology, seen>>
  BY <1>5 DEF StreamShape, OnScreen, Held
<1>6. QED
  BY <1>1, <1>2, <1>3, <1>4, <1>5, ListsStay

\* The wire, and the histories of the server.
LEMMA WireStays ==
  [StreamNext]_streamVars =>
    /\ ServerSays \/ OnLost \/ OnMessage \/ wire' = wire
    /\ ServerSays \/ OnLost \/ missed' = missed
    /\ OnOpen \/ owed' = owed
<1> USE DEF rowVars, connVars, loadVars, serverVars
<1>1. ServerSays => owed' = owed
  BY DEF ServerSays
<1>2. ServerStores \/ HubRegisters \/ ServerAnswers \/ ServerFails => UNCHANGED <<wire, missed, owed>>
  BY DEF ServerStores, HubRegisters, ServerAnswers, ServerFails
<1>3. OnOpen => UNCHANGED <<wire, missed>>
  BY DEF OnOpen
<1>4. OnLost => owed' = owed
  BY DEF OnLost
<1>5. OnMessage => UNCHANGED <<missed, owed>>
  BY DEF OnMessage
<1>6. OnRefused \/ RetryConnect \/ Flush \/ GraceOver => UNCHANGED <<wire, missed, owed>>
  BY DEF OnRefused, RetryConnect, Flush, GraceOver
<1>7. StreamLoads => UNCHANGED <<wire, missed, owed>>
  BY Zenon DEF StreamLoads, RecentLoaded, RecentFailed, RetryLoad, FillDone, FillFailed
<1>8. Viewer \/ UNCHANGED streamVars => UNCHANGED <<wire, missed, owed>>
  BY DEF Viewer, Pause, Resume, AckAlerts, streamVars
<1>9. QED
  BY <1>1, <1>2, <1>3, <1>4, <1>5, <1>6, <1>7, <1>8 DEF StreamNext, Server, Socket

\* The log of the server only grows, and so does what is old.
LEMMA ServerGrows ==
  StreamTypeOK /\ [StreamNext]_streamVars =>
    /\ ServerSays \/ said' = said
    /\ said' >= said /\ kept' >= kept
    /\ ServerStores \/ kept' = kept
<1> SUFFICES ASSUME StreamTypeOK, [StreamNext]_streamVars
             PROVE  /\ (ServerSays /\ said' = said + 1 /\ kept' = kept) \/ said' = said
                    /\ (ServerStores /\ kept' = kept + 1) \/ kept' = kept
  BY StreamAssumption DEF StreamTypeOK
<1> USE DEF rowVars, connVars, loadVars, serverVars
<1>1. ServerSays => said' = said + 1 /\ kept' = kept
  BY DEF ServerSays
<1>2. ServerStores => kept' = kept + 1 /\ said' = said
  BY DEF ServerStores
<1>3. HubRegisters \/ ServerAnswers \/ ServerFails => UNCHANGED <<said, kept>>
  BY DEF HubRegisters, ServerAnswers, ServerFails
<1>4. Socket => UNCHANGED <<said, kept>>
  BY Zenon DEF Socket, OnOpen, OnRefused, OnLost, RetryConnect, OnMessage, Flush, GraceOver
<1>5. StreamLoads => UNCHANGED <<said, kept>>
  BY Zenon DEF StreamLoads, RecentLoaded, RecentFailed, RetryLoad, FillDone, FillFailed
<1>6. Viewer \/ UNCHANGED streamVars => UNCHANGED <<said, kept>>
  BY DEF Viewer, Pause, Resume, AckAlerts, streamVars
<1>7. QED
  BY <1>1, <1>2, <1>3, <1>4, <1>5, <1>6 DEF StreamNext, Server

-----------------------------------------------------------------------------
(* The steps of the invariant.                                             *)

\* Every action keeps the order of the messages and what is owed of them.
LEMMA ShapeStep ==
  StreamTypeOK /\ StreamShape /\ AnswersAreNewest /\ [StreamNext]_streamVars => StreamShape'
<1> SUFFICES ASSUME StreamTypeOK, StreamShape, AnswersAreNewest, [StreamNext]_streamVars
             PROVE  StreamShape'
  OBVIOUS
<1>1. /\ said \in Nat /\ kept \in Nat /\ kept <= said /\ said <= MaxVerdicts /\ MaxVerdicts \in Nat
  BY StreamAssumption DEF StreamTypeOK
<1>2. wire \in Seq(Verdicts) /\ DOMAIN wire = 1 .. Len(wire) /\ Len(wire) \in Nat
      /\ \A i \in DOMAIN wire : wire[i] \in Verdicts /\ wire[i] \in Nat /\ wire[i] <= said
  <2>1. wire \in Seq(Verdicts) /\ \A i \in DOMAIN wire : wire[i] <= said
    BY DEF StreamShape, Range
  <2>2. \A i \in DOMAIN wire : wire[i] \in Verdicts
    BY <2>1
  <2>3. QED
    BY <2>1, <2>2, <1>1 DEF Verdicts
<1>3. said' >= said /\ kept' >= kept /\ said' \in Nat /\ kept' \in Nat
  <2>1. StreamTypeOK'
    BY TypeStep
  <2>2. QED
    BY <2>1, ServerGrows, StreamAssumption DEF StreamTypeOK
<1> DEFINE Rising(w) == w \in Seq(Verdicts) /\ \A i, j \in DOMAIN w : i < j => w[i] < w[j]
<1>4. Rising(wire') /\ \A v \in Range(wire') : v <= said'
  <2>1. CASE wire' = wire
    <3>1. \A i \in DOMAIN wire : wire[i] <= said'
      BY <1>1, <1>2, <1>3
    <3>2. QED
      BY <2>1, <3>1 DEF StreamShape, Range
  <2>2. CASE ServerSays /\ wire' = Append(wire, said + 1)
    <3>1. said + 1 \in Verdicts /\ said' = said + 1
      BY <1>1, <2>2 DEF ServerSays, Verdicts
    <3>2. wire' \in Seq(Verdicts) /\ Len(wire') = Len(wire) + 1 /\ DOMAIN wire' = 1 .. Len(wire) + 1
          /\ (\A i \in 1 .. Len(wire) : wire'[i] = wire[i]) /\ wire'[Len(wire) + 1] = said + 1
      BY <1>2, <2>2, <3>1
    <3>3. ASSUME NEW i \in DOMAIN wire' PROVE wire'[i] <= said'
      <4>1. CASE i \in DOMAIN wire
        BY <1>1, <1>2, <3>1, <3>2, <4>1
      <4>2. CASE i = Len(wire) + 1
        BY <1>1, <3>1, <3>2, <4>2
      <4>3. QED
        BY <1>2, <3>2, <4>1, <4>2
    <3>4. ASSUME NEW i \in DOMAIN wire', NEW j \in DOMAIN wire', i < j PROVE wire'[i] < wire'[j]
      <4>1. i \in 1 .. Len(wire)
        BY <1>2, <3>2, <3>4
      <4>2. CASE j \in 1 .. Len(wire)
        BY <1>2, <3>2, <3>4, <4>1, <4>2 DEF StreamShape
      <4>3. CASE j = Len(wire) + 1
        <5>1. wire[i] \in Nat /\ wire[i] <= said
          BY <1>2, <4>1 DEF Verdicts
        <5>2. QED
          BY <1>1, <3>2, <4>1, <4>3, <5>1
      <4>4. QED
        BY <1>2, <3>2, <4>2, <4>3
    <3>5. QED
      BY <3>2, <3>3, <3>4 DEF Range
  <2>3. CASE OnLost
    <3>1. wire' = <<>>
      BY <2>3 DEF OnLost
    <3>2. QED
      BY <3>1 DEF Range
  <2>4. CASE OnMessage
    <3>1. wire # <<>> /\ wire' = Tail(wire)
      BY <2>4, MessageFacts
    <3>2. wire' \in Seq(Verdicts) /\ Len(wire') = Len(wire) - 1 /\ DOMAIN wire' = 1 .. Len(wire) - 1
          /\ \A i \in 1 .. Len(wire) - 1 : wire'[i] = wire[i + 1] /\ i + 1 \in DOMAIN wire
      BY <1>2, <3>1
    <3>3. \A i \in DOMAIN wire' : wire'[i] <= said
      BY <1>2, <3>2
    <3>4. \A v \in Range(wire') : v <= said'
      <4>1. \A i \in DOMAIN wire' : wire'[i] \in Nat
        BY <1>2, <3>2
      <4>2. QED
        BY <1>1, <1>3, <3>3, <4>1 DEF Range
    <3>5. ASSUME NEW i \in DOMAIN wire', NEW j \in DOMAIN wire', i < j PROVE wire'[i] < wire'[j]
      <4>1. i + 1 < j + 1 /\ i + 1 \in DOMAIN wire /\ j + 1 \in DOMAIN wire
        BY <1>2, <3>2, <3>5
      <4>2. wire[i + 1] < wire[j + 1]
        BY <4>1 DEF StreamShape
      <4>3. QED
        BY <3>2, <4>2
    <3>6. QED
      BY <3>2, <3>4, <3>5
  <2>5. ServerSays => wire' = wire \/ wire' = Append(wire, said + 1)
    BY DEF ServerSays, Broadcast
  <2>6. QED
    BY <2>1, <2>2, <2>3, <2>4, <2>5, WireStays
<1>5. Range(rows') \subseteq seen' /\ \A v \in Held' : v <= said'
  <2>1. \A v \in Held \cup Range(wire) : v <= said /\ v \in Nat
    BY <1>2, HeldIs DEF StreamShape, Range, Verdicts
  <2>2. \A v \in 1 .. kept : v <= said /\ v \in Nat
    BY <1>1
  <2>3. QED
    BY <1>1, <1>3, <2>1, <2>2, ScreenGrows
<1>6. missed' \subseteq Verdicts /\ owed' \subseteq missed' /\ \A v \in owed' : v <= kept'
  <2>1. CASE OnOpen
    <3>1. owed' = owed \cup (missed \cap 1 .. kept) /\ UNCHANGED <<kept, missed>>
      BY <2>1 DEF OnOpen
    <3>2. QED
      BY <1>1, <3>1 DEF StreamShape
  <2>2. CASE owed' = owed
    <3>1. missed \subseteq missed' /\ missed' \subseteq Verdicts
      <4>1. CASE ServerSays
        BY <1>1, <4>1 DEF ServerSays, StreamShape, Verdicts
      <4>2. CASE OnLost
        BY <1>2, <4>2 DEF OnLost, StreamShape, Range
      <4>3. QED
        BY <4>1, <4>2, WireStays DEF StreamShape
    <3>2. \A v \in owed : v \in Nat /\ v <= kept
      BY DEF StreamShape, Verdicts
    <3>3. QED
      BY <1>1, <1>3, <2>2, <3>1, <3>2 DEF StreamShape
  <2>3. QED
    BY <2>1, <2>2, WireStays
<1>7. QED
  BY <1>4, <1>5, <1>6 DEF StreamShape

\* Only a connection that breaks makes a gap be owed.
LEMMA GapStep ==
  ASSUME StreamTypeOK, SpentShape, [StreamNext]_streamVars, ~OnLost
  PROVE  /\ wasUp' \/ (\E i \in DOMAIN fills' : fills'[i].at # "idle")
              => wasUp \/ (\E i \in DOMAIN fills : fills[i].at # "idle")
         /\ ~connected' => wasUp' \/ missed' = {}
<1> DEFINE owing == wasUp \/ \E i \in DOMAIN fills : fills[i].at # "idle"
           P == (owing' => owing) /\ (~connected' => wasUp' \/ missed' = {})
<1> SUFFICES P
  OBVIOUS
<1>1. ~connected => wasUp \/ missed = {}
  BY DEF SpentShape
<1>2. wasUp \in BOOLEAN /\ fills \in [1 .. MaxLost -> Requests(Seq(Verdicts))] /\ DOMAIN fills = 1 .. MaxLost
  BY DEF StreamTypeOK
<1>3. CASE UNCHANGED <<wasUp, fills, socket, missed>>
  BY <1>1, <1>3 DEF connected
<1>4. CASE ServerSays
  <2>1. UNCHANGED <<wasUp, fills, socket>> /\ (missed' = missed \/ wasUp)
    BY <1>4 DEF ServerSays
  <2>2. QED
    BY <1>1, <2>1 DEF connected
<1>5. CASE OnOpen
  <2>1. socket' = "open" /\ wasUp' = FALSE /\ (wasUp \/ fills' = fills)
    BY <1>5 DEF OnOpen
  <2>2. QED
    BY <2>1 DEF connected
<1>6. CASE OnRefused \/ RetryConnect
  <2>1. UNCHANGED <<wasUp, fills, missed>> /\ ~connected
    BY <1>6 DEF OnRefused, RetryConnect, connected, serverVars
  <2>2. QED
    BY <1>1, <2>1
<1>7. ASSUME NEW i \in DOMAIN fills, fills[i].at # "idle", NEW x, fills' = [fills EXCEPT ![i] = x],
             UNCHANGED <<socket, missed>>, wasUp' = wasUp \/ wasUp' = TRUE
      PROVE  P
  BY <1>1, <1>7 DEF connected
<1>8. CASE ServerAnswers \/ ServerFails
  <2>1. UNCHANGED <<wasUp, socket, missed>>
    BY <1>8 DEF ServerAnswers, ServerFails, serverVars
  <2>2. \/ fills' = fills
        \/ \E i \in DOMAIN fills : \E x : fills[i].at = "sent" /\ fills' = [fills EXCEPT ![i] = x]
    BY <1>8 DEF ServerAnswers, ServerFails
  <2>3. QED
    BY <1>3, <1>7, <2>1, <2>2
<1>9. ASSUME NEW i \in DOMAIN fills, FillDone(i) \/ FillFailed(i) PROVE P
  <2>1. fills[i].at # "idle" /\ fills' = [fills EXCEPT ![i] = Idle]
        /\ UNCHANGED <<socket, missed>> /\ (wasUp' = wasUp \/ wasUp' = TRUE)
    BY <1>9 DEF FillDone, FillFailed, serverVars
  <2>2. QED
    BY <1>7, <2>1
<1>10. CASE ServerStores \/ HubRegisters
  BY <1>3, <1>10 DEF ServerStores, HubRegisters, connVars, serverVars
<1>11. CASE OnMessage \/ Flush \/ GraceOver
  BY <1>3, <1>11 DEF OnMessage, Flush, GraceOver, connVars, serverVars
<1>12. CASE RecentLoaded \/ RecentFailed \/ RetryLoad
  BY <1>3, <1>12 DEF RecentLoaded, RecentFailed, RetryLoad, connVars, serverVars
<1>13. CASE Viewer \/ UNCHANGED streamVars
  BY <1>3, <1>13 DEF Viewer, Pause, Resume, AckAlerts, streamVars, connVars, serverVars
<1>14. QED
  BY <1>4, <1>5, <1>6, <1>8, <1>9, <1>10, <1>11, <1>12, <1>13
     DEF StreamNext, Server, Socket, StreamLoads

\* Every action keeps the count of the lost connections.
LEMMA SpentStep ==
  StreamTypeOK /\ SpentShape /\ [StreamNext]_streamVars => SpentShape'
<1> SUFFICES ASSUME StreamTypeOK, SpentShape, [StreamNext]_streamVars PROVE SpentShape'
  OBVIOUS
<1>1. spent \in [DOMAIN Limit -> Nat] /\ spent.lose <= MaxLost /\ MaxLost \in Nat
      /\ DOMAIN Limit = {"fail", "lose", "refuse", "reload", "pause"}
  BY StreamAssumption DEF SpentShape, Limit
<1>2. ASSUME NEW what \in {"fail", "refuse", "reload", "pause"}, Spend(what)
      PROVE  spent' \in [DOMAIN Limit -> Nat] /\ spent'.lose = spent.lose
  BY <1>1, <1>2 DEF Spend
<1>3. /\ (\E what \in {"fail", "refuse", "reload", "pause"} : Spend(what)) \/ spent' = spent \/ OnLost
  BY Zenon DEF StreamNext, Server, Socket, StreamLoads, Viewer, ServerSays, ServerStores, HubRegisters,
     ServerAnswers, ServerFails, OnOpen, OnRefused, RetryConnect, OnMessage, Flush, GraceOver,
     RecentLoaded, RecentFailed, RetryLoad, FillDone, FillFailed, Pause, Resume, AckAlerts, streamVars
<1>4. CASE OnLost
  <2>1. CanSpend("lose") /\ Spend("lose") /\ wasUp' = TRUE
    BY <1>4 DEF OnLost
  <2>2. spent.lose < MaxLost
    BY <2>1 DEF CanSpend, Limit
  <2>3. spent' \in [DOMAIN Limit -> Nat] /\ spent'.lose = spent.lose + 1
    BY <1>1, <2>1 DEF Spend
  <2>4. spent'.lose <= MaxLost /\ spent'.lose >= 1
    BY <1>1, <2>2, <2>3
  <2>5. QED
    BY <2>1, <2>3, <2>4 DEF SpentShape
<1>5. CASE ~OnLost
  <2>1. spent' \in [DOMAIN Limit -> Nat] /\ spent'.lose = spent.lose
    BY <1>1, <1>2, <1>3, <1>5
  <2>2. /\ wasUp' \/ (\E i \in DOMAIN fills' : fills'[i].at # "idle")
             => wasUp \/ (\E i \in DOMAIN fills : fills[i].at # "idle")
        /\ ~connected' => wasUp' \/ missed' = {}
    BY <1>5, GapStep
  <2>4. QED
    BY <1>1, <2>1, <2>2 DEF SpentShape
<1>6. QED
  BY <1>4, <1>5

\* Every answer is the newest verdicts of some moment.
LEMMA AnswersStayNewest ==
  StreamTypeOK /\ AnswersAreNewest /\ [StreamNext]_streamVars => AnswersAreNewest'
<1> SUFFICES ASSUME StreamTypeOK, AnswersAreNewest, [StreamNext]_streamVars PROVE AnswersAreNewest'
  OBVIOUS
<1> DEFINE ok(r) == r.at = "answered" => \E k \in 0 .. kept : r.data = Newest(k)
           okNow(r) == r.at = "answered" => \E k \in 0 .. kept' : r.data = Newest(k)
<1>1. ok(load) /\ \A i \in DOMAIN fills : ok(fills[i])
  BY DEF AnswersAreNewest
<1>2. \A r : ok(r) => okNow(r)
  <2>1. kept \in Nat /\ kept' \in Nat /\ kept' >= kept
    <3>1. kept \in Nat
      BY StreamAssumption DEF StreamTypeOK
    <3>2. QED
      BY <3>1, ServerGrows DEF ServerStores
  <2>2. \A k \in 0 .. kept : k \in 0 .. kept'
    BY <2>1
  <2>3. QED
    BY <2>2
<1>3. ok(Answer(Newest(kept)))
  <2>1. kept \in 0 .. kept
    BY StreamAssumption DEF StreamTypeOK
  <2>2. QED
    BY <2>1 DEF Answer
<1>4. ok(Idle) /\ ok(Sent) /\ ok(Failed)
  BY AnswerTypes
<1>5. AnswersAreNewest' = (okNow(load') /\ \A i \in DOMAIN fills' : okNow(fills'[i]))
  BY DEF AnswersAreNewest
<1>6. fills \in [1 .. MaxLost -> Requests(Seq(Verdicts))]
  BY DEF StreamTypeOK
<1> HIDE DEF ok, okNow
<1>7. ASSUME ok(load'),
             fills' = fills \/ \E i \in 1 .. MaxLost : \E x : ok(x) /\ fills' = [fills EXCEPT ![i] = x]
      PROVE  AnswersAreNewest'
  BY <1>1, <1>2, <1>5, <1>6, <1>7
<1>8. CASE ServerAnswers \/ ServerFails
  <2>1. (ok(load') /\ fills' = fills)
        \/ (load' = load /\ \E i \in 1 .. MaxLost : \E x : ok(x) /\ fills' = [fills EXCEPT ![i] = x])
    BY <1>3, <1>4, <1>6, <1>8 DEF ServerAnswers, ServerFails
  <2>2. QED
    BY <1>1, <1>7, <2>1
<1>9. CASE RecentLoaded \/ RecentFailed \/ RetryLoad
  <2>1. ok(load') /\ fills' = fills
    BY <1>4, <1>9 DEF RecentLoaded, RecentFailed, RetryLoad, connVars
  <2>2. QED
    BY <1>7, <2>1
<1>10. CASE \E i \in DOMAIN fills : FillDone(i) \/ FillFailed(i)
  <2>1. load' = load /\ \E i \in 1 .. MaxLost : fills' = [fills EXCEPT ![i] = Idle]
    BY <1>6, <1>10 DEF FillDone, FillFailed, loadVars
  <2>2. QED
    BY <1>1, <1>4, <1>7, <2>1
<1>11. CASE OnOpen
  <2>1. load' = load /\ (fills' = fills \/ fills' = [fills EXCEPT ![spent.lose] = Sent])
    BY <1>11 DEF OnOpen, loadVars
  <2>2. spent.lose \in 1 .. MaxLost \/ [fills EXCEPT ![spent.lose] = Sent] = fills
    BY <1>6
  <2>3. QED
    BY <1>1, <1>4, <1>7, <2>1, <2>2
<1>12. CASE UNCHANGED <<load, fills>>
  BY <1>1, <1>7, <1>12
<1>13. CASE Viewer \/ UNCHANGED streamVars
  BY <1>12, <1>13 DEF Viewer, Pause, Resume, AckAlerts, streamVars, connVars, loadVars
<1>14. CASE ServerSays \/ ServerStores \/ HubRegisters
  BY <1>12, <1>14 DEF ServerSays, ServerStores, HubRegisters, connVars, loadVars
<1>15. CASE OnRefused \/ OnLost \/ RetryConnect \/ OnMessage \/ Flush \/ GraceOver
  BY <1>12, <1>15 DEF OnRefused, OnLost, RetryConnect, OnMessage, Flush, GraceOver, connVars, loadVars
<1>16. QED
  BY <1>8, <1>9, <1>10, <1>11, <1>13, <1>14, <1>15
     DEF StreamNext, Server, Socket, StreamLoads

\* What a fill draws keeps the anchors.
LEMMA FillKeepsAnchors ==
  ASSUME StreamTypeOK, StreamShape, AnswersAreNewest, AnchorInv,
         NEW c, c = load \/ (\E i \in DOMAIN fills : c = fills[i]), c.at = "answered",
         c.data \in Seq(Verdicts), fillFrom(c.data), queue' = queue, UNCHANGED <<missed, wire>>
  PROVE  AnchorInv'
<1>1. PICK r \in Seq(Verdicts), gap \in SUBSET Verdicts :
        /\ draws(r) /\ Len(r) <= MaxRows
        /\ gap = {v \in Range(c.data) : v \notin Held /\ (Held = {} \/ \E h \in Held : h <= v)}
        /\ seen' = seen \cup gap /\ (paused => r = rows)
        /\ Range(r) \subseteq Range(rows) \cup gap
        /\ Len(r) = MaxRows \/ paused \/ Range(r) = Range(rows) \cup gap
  BY FillFacts
<1>2. PICK k \in 0 .. kept : c.data = Newest(k)
  BY TakenIsNewest
<1>3. rows' = r /\ Held' = Range(r) \cup Range(queue)
  BY <1>1 DEF draws, Held
<1>4. Range(r) \subseteq seen' /\ OnScreen \subseteq OnScreen'
  BY <1>1, <1>3, FillKeeps
<1>5. CASE Len(r) = MaxRows
  BY <1>1, <1>4, <1>5, DrawKeepsAnchors
<1>6. CASE paused
  <2>1. Held' = Held
    BY <1>1, <1>3, <1>6 DEF Held
  <2>2. QED
    BY <1>1, <1>4, <2>1, DrawKeepsAnchors
<1>7. CASE Range(r) = Range(rows) \cup gap
  <2>1. Held \subseteq Held'
    BY <1>3, <1>7 DEF Held
  <2>2. Held = {} => Held' = Range(Newest(k)) /\ Range(r) = Range(Newest(k))
    BY <1>1, <1>2, <1>3, <1>7 DEF Held
  <2>3. QED
    BY <1>1, <1>4, <2>1, <2>2, DrawKeepsAnchors
<1>8. QED
  BY <1>1, <1>5, <1>6, <1>7

\* Every action keeps an anchor for each verdict that was missed.
LEMMA AnchorStep ==
  StreamTypeOK /\ StreamShape /\ AnswersAreNewest /\ AnchorInv /\ [StreamNext]_streamVars => AnchorInv'
<1> SUFFICES ASSUME StreamTypeOK, StreamShape, AnswersAreNewest, AnchorInv, [StreamNext]_streamVars
             PROVE  AnchorInv'
  OBVIOUS
<1>1. /\ wire \in Seq(Verdicts) /\ DOMAIN wire = 1 .. Len(wire) /\ Len(wire) \in Nat
      /\ Held \subseteq Verdicts /\ Verdicts \subseteq Nat /\ said \in Nat
      /\ (rows \o queue = <<>> <=> Held = {}) /\ \A h \in Held : h <= said
  BY HeldIs, StreamAssumption DEF StreamShape, StreamTypeOK, Verdicts
<1>2. ASSUME UNCHANGED <<queue, rows, passed, seen>>
      PROVE  Held' = Held /\ \A v : Anchored(v)' <=> Anchored(v)
  BY <1>2 DEF Held, Anchored, OnScreen
<1>3. CASE ServerSays
  <2>1. /\ UNCHANGED <<queue, rows, passed, seen>>
        /\ missed' = missed \/ (Held # {} /\ missed' = missed \cup {said + 1})
        /\ wire' = wire \/ wire' = Append(wire, said + 1)
    BY <1>1, <1>3 DEF ServerSays, Broadcast, rowVars
  <2>2. Held # {} => Anchored(said + 1)
    <3>1. \A h \in Held : h < said + 1
      BY <1>1
    <3>2. QED
      BY <3>1 DEF Anchored
  <2>3. Range(wire') \subseteq Range(wire) \cup {said + 1}
    <3>1. said + 1 \in Verdicts
      BY <1>1, <1>3, StreamAssumption DEF ServerSays, Verdicts
    <3>2. Range(Append(wire, said + 1)) = Range(wire) \cup {said + 1}
      BY <1>1, <3>1, AppendRange
    <3>3. QED
      BY <2>1, <3>2
  <2>4. QED
    BY <1>2, <2>1, <2>2, <2>3 DEF AnchorInv
<1>4. CASE OnLost
  <2>1. /\ UNCHANGED <<queue, rows, passed, seen>> /\ wire' = <<>>
        /\ missed' = missed \/ (Held # {} /\ missed' = missed \cup Range(wire))
    BY <1>1, <1>4 DEF OnLost, rowVars
  <2>2. Range(wire') = {}
    BY <2>1 DEF Range
  <2>3. QED
    BY <1>2, <2>1, <2>2 DEF AnchorInv
<1>5. CASE OnMessage
  <2>1. missed' = missed
    BY <1>5 DEF OnMessage, serverVars
  <2>2. wire # <<>> /\ wire' = Tail(wire) /\ UNCHANGED <<rows, passed>> /\ seen \subseteq seen'
    BY <1>5, MessageFacts
  <2>3. /\ Len(wire') = Len(wire) - 1 /\ DOMAIN wire' = 1 .. Len(wire) - 1
        /\ \A i \in 1 .. Len(wire) - 1 : wire'[i] = wire[i + 1] /\ i + 1 \in DOMAIN wire /\ 1 < i + 1
    BY <1>1, <2>2
  <2>4. Head(wire) = wire[1] /\ 1 \in DOMAIN wire
    BY <1>1, <2>2
  <2>5. Range(wire') \subseteq Range(wire) /\ \A v \in Range(wire') : Head(wire) < v
    <3>1. \A i \in DOMAIN wire' : \E j \in DOMAIN wire : wire'[i] = wire[j] /\ 1 < j
      BY <2>3
    <3>2. \A j \in DOMAIN wire : 1 < j => wire[1] < wire[j]
      BY <2>4 DEF StreamShape
    <3>3. QED
      BY <2>4, <3>1, <3>2 DEF Range
  <2>6. CASE paused /\ queue' = queue
    <3>1. \A v : Anchored(v) => Anchored(v)'
      BY <2>2, <2>6 DEF Anchored, Held, OnScreen
    <3>2. Held' = Held
      BY <2>2, <2>6 DEF Held
    <3>3. QED
      BY <2>1, <2>5, <3>1, <3>2 DEF AnchorInv
  <2>7. CASE ~paused /\ Range(queue') = Range(queue) \cup {Head(wire)}
    <3>1. \A v : Anchored(v) => Anchored(v)'
      BY <2>2, <2>7 DEF Anchored, Held, OnScreen
    <3>2. Head(wire) \in Held'
      BY <2>7 DEF Held
    <3>3. \A v \in Range(wire') : Anchored(v)'
      BY <2>5, <3>2 DEF Anchored
    <3>4. QED
      BY <2>1, <3>1, <3>3 DEF AnchorInv
  <2>8. QED
    BY <1>5, <2>6, <2>7, MessageFacts
<1>6. CASE Flush
  <2>1. UNCHANGED <<missed, wire>> /\ queue # <<>>
    BY <1>6 DEF Flush, connVars, serverVars
  <2>2. PICK r \in Seq(Verdicts) :
          /\ draws(r) /\ Len(r) <= MaxRows /\ Range(r) \subseteq Range(rows) \cup Range(queue)
          /\ Len(r) = MaxRows \/ Range(r) = Range(rows) \cup Range(queue)
    BY <1>6, FlushFacts
  <2>3. rows' = r /\ Range(queue') = {} /\ seen' = seen \cup Range(queue)
    BY <1>6, <2>2, FlushFacts DEF draws, Range
  <2>4. Range(r) \subseteq seen' /\ OnScreen \subseteq OnScreen'
    BY <2>2, <2>3 DEF StreamShape, OnScreen
  <2>5. Held # {}
    <3>1. queue \in Seq(Verdicts) /\ 1 \in DOMAIN queue
      BY <2>1 DEF StreamTypeOK
    <3>2. QED
      BY <3>1 DEF Held, Range
  <2>6. Len(r) = MaxRows \/ Held \subseteq Held'
    BY <2>2, <2>3 DEF Held
  <2>7. QED
    BY <2>1, <2>2, <2>4, <2>5, <2>6, DrawKeepsAnchors
<1>7. CASE RecentLoaded
  <2>1. UNCHANGED <<missed, wire>>
    BY <1>7 DEF RecentLoaded, connVars, serverVars
  <2>2. load.data \in Seq(Verdicts) /\ load.at = "answered" /\ queue' = queue
    BY <1>7, LoadFacts
  <2>3. CASE ~first
    <3>1. fillFrom(load.data)
      BY <1>7, <2>3, LoadFacts
    <3>2. QED
      BY <2>1, <2>2, <3>1, FillKeepsAnchors
  <2>4. CASE first
    <3>1. PICK r \in Seq(Verdicts) :
            /\ draws(r) /\ Len(r) <= MaxRows /\ seen' = seen \cup Range(r)
            /\ Range(r) \subseteq Range(rows) \cup Range(load.data)
            /\ Len(r) = MaxRows \/ Range(r) = Range(rows) \cup Range(load.data)
      BY <1>7, <2>4, LoadFacts
    <3>2. PICK k \in 0 .. kept : load.data = Newest(k)
      BY <2>2, TakenIsNewest
    <3>3. Held' = Range(r) \cup Range(queue)
      BY <2>2, <3>1 DEF draws, Held
    <3>4. Range(r) \subseteq seen' /\ OnScreen \subseteq OnScreen'
      BY <2>2, <3>1 DEF OnScreen
    <3>5. Len(r) = MaxRows \/ /\ Held \subseteq Held'
                              /\ Held = {} => Held' = Range(Newest(k)) /\ Range(r) = Range(Newest(k))
      BY <3>1, <3>2, <3>3 DEF Held
    <3>6. QED
      BY <2>1, <3>1, <3>4, <3>5, DrawKeepsAnchors
  <2>5. QED
    BY <2>3, <2>4
<1>8. ASSUME NEW i \in DOMAIN fills, FillDone(i) PROVE AnchorInv'
  <2>1. fills[i] \in Requests(Seq(Verdicts)) /\ fills[i].at = "answered"
    BY <1>8 DEF StreamTypeOK, FillDone
  <2>2. fills[i].data \in Seq(Verdicts)
    BY <2>1, RequestFacts
  <2>3. fillFrom(fills[i].data) /\ queue' = queue /\ UNCHANGED <<missed, wire>>
    BY <1>8 DEF FillDone, serverVars
  <2>4. QED
    BY <2>1, <2>2, <2>3, FillKeepsAnchors
<1>9. CASE UNCHANGED <<queue, rows, passed, seen, wire, missed>>
  BY <1>2, <1>9 DEF AnchorInv
<1>10. QED
  BY <1>3, <1>4, <1>5, <1>6, <1>7, <1>8, <1>9, ListsStay, WireStays

\* Every action keeps what is owed settled, waited for or brought.
LEMMA OwedStep == StreamInv /\ [StreamNext]_streamVars => OwedInv'
<1> SUFFICES ASSUME StreamInv, [StreamNext]_streamVars PROVE OwedInv'
  OBVIOUS
<1>1. StreamTypeOK /\ StreamShape /\ SpentShape /\ AnchorInv /\ AnswersAreNewest /\ OwedInv
  BY DEF StreamInv
<1>2. /\ fills \in [1 .. MaxLost -> Requests(Seq(Verdicts))] /\ DOMAIN fills = 1 .. MaxLost
      /\ kept \in Nat /\ kept <= said /\ said <= MaxVerdicts /\ said \in Nat /\ MaxVerdicts \in Nat
      /\ MaxRows \in Nat
  BY <1>1, StreamAssumption DEF StreamTypeOK
<1>3. ASSUME NEW v, Settled(v) PROVE Settled(v)'
  <2>1. CASE v \in OnScreen \cup passed
    BY <1>1, <2>1, ScreenGrows DEF Settled
  <2>2. CASE v \notin Recent
    <3>1. kept' \in Nat /\ kept' >= kept
      BY <1>1, <1>2, ServerGrows DEF ServerStores
    <3>2. ASSUME v \in Recent' PROVE v \in Recent
      <4>1. v \in Verdicts /\ v \in Nat /\ v > kept' - MaxRows
        BY <3>2, <1>2 DEF Recent, Verdicts
      <4>2. kept \in Nat /\ MaxRows \in Nat
        BY <1>2
      <4>3. v > kept - MaxRows
        <5>1. \A a, b, m, w \in Nat : b >= a /\ w > b - m => w > a - m
          OBVIOUS
        <5>2. QED
          BY <3>1, <4>1, <4>2, <5>1
      <4>4. QED
        BY <4>1, <4>3 DEF Recent
    <3>3. QED
      BY <2>2, <3>2 DEF Settled
  <2>3. QED
    BY <1>3, <2>1, <2>2 DEF Settled
<1>4. \A v \in owed : Settled(v) \/ wasUp \/ Brought(v)
  BY <1>1 DEF OwedInv
<1>5. ASSUME \A v \in owed' : Settled(v)' \/ wasUp' \/ Brought(v)' PROVE OwedInv'
  BY <1>5 DEF OwedInv
<1>6. owed \subseteq missed /\ (\A v \in owed : v <= kept) /\ missed \subseteq Verdicts
  BY <1>1 DEF StreamShape
<1>7. CASE wasUp' = TRUE
  BY <1>5, <1>7
<1>8. CASE owed' = owed /\ UNCHANGED <<fills, wasUp>>
  BY <1>3, <1>4, <1>5, <1>8 DEF Brought
<1>9. ASSUME NEW i \in DOMAIN fills, NEW x, fills' = [fills EXCEPT ![i] = x], UNCHANGED <<owed, wasUp>>,
             \A v \in owed : Brings(fills[i], v) => Settled(v)' \/ Settled(v) \/ Brings(x, v)
      PROVE  OwedInv'
  <2> SUFFICES ASSUME NEW v \in owed PROVE Settled(v)' \/ wasUp' \/ Brought(v)'
    BY <1>5, <1>9
  <2>1. DOMAIN fills' = DOMAIN fills /\ fills'[i] = x /\ \A j \in DOMAIN fills : j # i => fills'[j] = fills[j]
    BY <1>2, <1>9
  <2>2. CASE Settled(v)
    BY <1>3, <2>2
  <2>3. CASE wasUp
    BY <1>9, <2>3
  <2>4. ASSUME NEW j \in DOMAIN fills, Brings(fills[j], v)
        PROVE  Settled(v)' \/ Brought(v)'
    <3>1. CASE j = i
      <4>1. Brings(x, v) => Brought(v)'
        BY <2>1 DEF Brought
      <4>2. QED
        BY <1>3, <1>9, <2>4, <3>1, <4>1
    <3>2. CASE j # i
      BY <2>1, <2>4, <3>2 DEF Brought
    <3>3. QED
      BY <3>1, <3>2
  <2>5. QED
    BY <1>4, <2>2, <2>3, <2>4 DEF Brought
<1>10. CASE OnOpen
  <2>1. socket = "connecting" /\ wasUp' = FALSE /\ owed' = owed \cup (missed \cap 1 .. kept)
        /\ fills' = IF wasUp THEN [fills EXCEPT ![spent.lose] = Sent] ELSE fills
    BY <1>10 DEF OnOpen
  <2>2. CASE wasUp
    <3>1. spent.lose \in 1 .. MaxLost
      <4>1. spent.lose \in Nat /\ spent.lose <= MaxLost /\ spent.lose >= 1 /\ MaxLost \in Nat
        BY <1>1, <2>2, StreamAssumption DEF SpentShape, Limit
      <4>2. QED
        BY <4>1
    <3>2. spent.lose \in DOMAIN fills' /\ fills'[spent.lose] = Sent
      BY <1>2, <2>1, <2>2, <3>1
    <3>3. \A v : Brings(Sent, v)
      BY DEF Brings, Sent
    <3>4. \A v : Brought(v)'
      BY <3>2, <3>3 DEF Brought
    <3>5. QED
      BY <1>5, <3>4
  <2>3. CASE ~wasUp
    <3>1. missed = {}
      BY <1>1, <2>1, <2>3 DEF SpentShape, connected
    <3>2. owed' = {}
      BY <1>6, <2>1, <3>1
    <3>3. QED
      BY <1>5, <3>2
  <2>4. QED
    BY <2>2, <2>3
<1>11. CASE ServerAnswers
  <2>1. UNCHANGED <<owed, wasUp>>
    BY <1>11 DEF ServerAnswers, serverVars
  <2>2. CASE fills' = fills
    BY <1>8, <2>1, <2>2
  <2>3. ASSUME NEW i \in DOMAIN fills, fills' = [fills EXCEPT ![i] = Answer(Newest(kept))]
        PROVE  OwedInv'
    <3>1. ASSUME NEW v \in owed PROVE Settled(v) \/ Brings(Answer(Newest(kept)), v)
      <4>1. v \in Nat /\ v >= 1 /\ v <= kept /\ v <= MaxVerdicts
        BY <1>2, <1>6 DEF Verdicts
      <4>2. Range(Newest(kept)) = {w \in 1 .. kept : w > kept - MaxRows}
        BY <1>2, NewestFacts
      <4>3. v \in Recent => v \in Range(Newest(kept))
        BY <1>2, <4>1, <4>2 DEF Recent
      <4>4. QED
        BY <4>3, AnswerTypes DEF Brings, Settled
    <3>2. QED
      BY <1>9, <2>1, <2>3, <3>1
  <2>4. QED
    BY <1>11, <2>2, <2>3 DEF ServerAnswers
<1>12. CASE ServerFails
  <2>1. UNCHANGED <<owed, wasUp>>
    BY <1>12 DEF ServerFails, serverVars
  <2>2. CASE fills' = fills
    BY <1>8, <2>1, <2>2
  <2>3. ASSUME NEW i \in DOMAIN fills, fills' = [fills EXCEPT ![i] = Failed]
        PROVE  OwedInv'
    <3>1. \A v : Brings(Failed, v)
      BY DEF Brings, Failed
    <3>2. QED
      BY <1>9, <2>1, <2>3, <3>1
  <2>4. QED
    BY <1>12, <2>2, <2>3 DEF ServerFails
<1>13. ASSUME NEW i \in DOMAIN fills, FillDone(i) PROVE OwedInv'
  <2>1. fills[i] \in Requests(Seq(Verdicts)) /\ fills[i].at = "answered"
    BY <1>2, <1>13 DEF FillDone
  <2>2. fills[i].data \in Seq(Verdicts)
    BY <2>1, RequestFacts
  <2>3. fillFrom(fills[i].data) /\ fills' = [fills EXCEPT ![i] = Idle] /\ UNCHANGED <<owed, wasUp>>
    BY <1>13 DEF FillDone, serverVars
  <2>4. PICK r \in Seq(Verdicts), gap \in SUBSET Verdicts :
          /\ gap = {v \in Range(fills[i].data) : v \notin Held /\ (Held = {} \/ \E h \in Held : h <= v)}
          /\ seen' = seen \cup gap
    BY <1>1, <2>2, <2>3, FillFacts
  <2>5. ASSUME NEW v \in owed, Brings(fills[i], v) PROVE Settled(v) \/ Settled(v)'
    <3>1. v \in Range(fills[i].data)
      BY <2>1, <2>5 DEF Brings
    <3>2. Anchored(v)
      BY <1>1, <1>6 DEF AnchorInv
    <3>3. Held \subseteq OnScreen
      BY <1>1 DEF StreamShape, Held, OnScreen
    <3>4. v \in gap => v \in OnScreen'
      BY <2>4 DEF OnScreen
    <3>5. v \in gap \/ v \in OnScreen \cup passed
      <4>1. Held \subseteq Nat /\ v \in Nat
        BY <1>1, <1>6, HeldIs DEF Verdicts
      <4>2. CASE \E h \in Held : h < v
        <5>1. \E h \in Held : h <= v
          BY <4>1, <4>2
        <5>2. QED
          BY <2>4, <3>1, <3>3, <5>1
      <4>3. QED
        BY <3>2, <4>2 DEF Anchored
    <3>6. QED
      BY <3>4, <3>5 DEF Settled
  <2>6. QED
    BY <1>9, <2>3, <2>5
<1>14. CASE \E i \in DOMAIN fills : FillFailed(i)
  BY <1>7, <1>14 DEF FillFailed
<1>15. CASE OnLost
  BY <1>7, <1>15 DEF OnLost
<1>16. CASE ServerSays \/ ServerStores \/ HubRegisters
  BY <1>8, <1>16 DEF ServerSays, ServerStores, HubRegisters, connVars, serverVars
<1>17. CASE OnRefused \/ RetryConnect \/ OnMessage \/ Flush \/ GraceOver
  BY <1>8, <1>17 DEF OnRefused, RetryConnect, OnMessage, Flush, GraceOver, connVars, serverVars
<1>18. CASE RecentLoaded \/ RecentFailed \/ RetryLoad
  BY <1>8, <1>18 DEF RecentLoaded, RecentFailed, RetryLoad, connVars, serverVars
<1>19. CASE Viewer \/ UNCHANGED streamVars
  BY <1>8, <1>19 DEF Viewer, Pause, Resume, AckAlerts, streamVars, connVars, serverVars
<1>20. QED
  BY <1>10, <1>11, <1>12, <1>13, <1>14, <1>15, <1>16, <1>17, <1>18, <1>19
     DEF StreamNext, Server, Socket, StreamLoads

-----------------------------------------------------------------------------
(* The theorems.                                                           *)

\* All of it holds of the page as it is opened.
LEMMA StreamStarts == StreamInit => StreamInv
<1> SUFFICES ASSUME StreamInit PROVE StreamInv
  OBVIOUS
<1> USE StreamAssumption DEF StreamInit
<1>1. StreamTypeOK
  <2>1. load \in Requests(Seq(Verdicts)) /\ fills \in [1 .. MaxLost -> Requests(Seq(Verdicts))]
    BY AnswerTypes
  <2>2. queue \in Seq(Verdicts) /\ rows \in Seq(Verdicts) /\ Len(rows) = 0
    OBVIOUS
  <2>3. said \in 0 .. MaxVerdicts /\ kept \in 0 .. said /\ Len(rows) <= MaxRows
    BY <2>2
  <2>4. topology \subseteq Verdicts /\ unseen \in Nat /\ known = FALSE
    OBVIOUS
  <2>5. QED
    BY <2>1, <2>2, <2>3, <2>4 DEF StreamTypeOK
<1>2. Held = {} /\ Range(wire) = {}
  BY DEF Held, Range
<1>3. StreamShape
  BY <1>2 DEF StreamShape
<1>4. SpentShape
  <2>1. spent \in [DOMAIN Limit -> Nat] /\ spent.lose = 0
    BY DEF Limit
  <2>2. \A i \in DOMAIN fills : fills[i].at = "idle"
    BY DEF Idle
  <2>3. QED
    BY <2>1, <2>2 DEF SpentShape
<1>5. AnchorInv
  BY <1>2 DEF AnchorInv
<1>6. AnswersAreNewest
  BY DEF AnswersAreNewest, Idle, Sent
<1>7. OwedInv
  BY DEF OwedInv
<1>8. QED
  BY <1>1, <1>3, <1>4, <1>5, <1>6, <1>7 DEF StreamInv

\* All of it is kept by every action.
LEMMA StreamSteps == StreamInv /\ [StreamNext]_streamVars => StreamInv'
<1> SUFFICES ASSUME StreamInv, [StreamNext]_streamVars PROVE StreamInv'
  OBVIOUS
<1>1. StreamTypeOK /\ StreamShape /\ SpentShape /\ AnchorInv /\ AnswersAreNewest
  BY DEF StreamInv
<1>2. QED
  BY <1>1, TypeStep, ShapeStep, SpentStep, AnchorStep, AnswersStayNewest, OwedStep DEF StreamInv

\* So it always holds.
LEMMA StreamInvariant == StreamSpec => []StreamInv
BY StreamStarts, StreamSteps, PTL DEF StreamSpec

\* The types of the feed; no list of rows is longer than MAX_ROWS.
THEOREM StreamTypes == StreamSpec => []StreamTypeOK
<1>1. StreamInv => StreamTypeOK
  BY DEF StreamInv
<1>2. QED
  BY <1>1, StreamInvariant, PTL

\* A fill that is idle has brought what it was to bring.
LEMMA FilledWhenIdle == StreamInv => GapIsFilled
<1> SUFFICES ASSUME StreamInv, ~wasUp, \A i \in DOMAIN fills : fills[i].at = "idle",
                    NEW v \in owed, v \in Recent
             PROVE  v \in OnScreen \cup passed
  BY DEF GapIsFilled
<1>1. ~\E i \in DOMAIN fills : Brings(fills[i], v)
  BY DEF Brings
<1>2. QED
  BY <1>1 DEF StreamInv, OwedInv, Settled, Brought

\* What a broken connection left out is on the screen once the connection is
\* back and the fill was taken, or a full list had left it behind (onopen,
\* onclose and fillFrom of useEventStream), however long the lists may be.
THEOREM GapFilled == StreamSpec => []GapIsFilled
BY FilledWhenIdle, StreamInvariant, PTL
=============================================================================
