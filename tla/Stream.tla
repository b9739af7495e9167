------------------------------- MODULE Stream -------------------------------
(***************************************************************************)
(* The console's live feed: useEventStream over /ws/events and             *)
(* /api/events/recent, with the two lists it keeps (the rows of the event  *)
(* page and the counts of the topology).                                   *)
(*                                                                         *)
(* Verdicts are numbered in the order the server sends them; the number is *)
(* its timestamp and its key (verdictKey).  The server sends a verdict to  *)
(* the sockets it knows (said) before its persist loop has stored it       *)
(* (kept); /api/events/recent answers from the store.  A socket is known   *)
(* to the hub only some time after the browser saw it open, and the hub    *)
(* drops what does not fit into a socket's queue.                          *)
(*                                                                         *)
(* Back-off times are not modelled: a timer fires at any time after it was *)
(* set.                                                                    *)
(***************************************************************************)
EXTENDS Naturals, Sequences, SequencesExt, Lists, Requests

CONSTANTS
  Alerts,        \* the verdicts that matched a rule
  MaxRows,       \* MAX_ROWS, the rows kept and asked for
  MaxVerdicts,   \* verdicts the server sends
  MaxLost,       \* bound: connections that break after they were open
  MaxRefused,    \* bound: attempts that close before they open
  MaxFailures,   \* bound: requests that fail
  MaxReloads,    \* bound: presses of "retry"
  MaxPauses,     \* bound: presses of "pause"
  MaxSpent       \* bound: all of these together

ASSUME StreamAssumption ==
  /\ MaxRows \in Nat \ {0} /\ MaxVerdicts \in Nat
  /\ Alerts \subseteq 1 .. MaxVerdicts
  /\ MaxLost \in Nat /\ MaxRefused \in Nat /\ MaxFailures \in Nat
  /\ MaxReloads \in Nat /\ MaxPauses \in Nat /\ MaxSpent \in Nat

VARIABLES
  said, kept,     \* server: verdicts sent, verdicts stored
  known,          \* server: the hub has this browser's socket
  wire,           \* messages on their way to the browser
  socket,         \* "connecting", "open", "waiting" for its retry timer
  wasUp,          \* a gap is owed to the next opening
  everConnected, graceOver, paused,
  queue,          \* accepted verdicts not drawn yet, in order of arrival
  rows,           \* verdicts drawn, newest first
  topology,       \* the verdicts counted in the topology
  unseen,         \* unseenAlerts
  load,           \* the request of the current load effect
  first,          \* the current load effect is the first one
  recentError, recentLoading,
  fills,          \* the request of each opening that owed a gap
  spent,          \* history: failures, losses, refusals, reloads, pauses
  passed,         \* history: verdicts older than all the rows of a full list
  seen,           \* history: verdicts drawn at some time, or not because of "pause"
  missed,         \* history: verdicts sent while the connection was broken
  owed            \* history: those of them stored when it was back

connVars == <<known, wire, socket, wasUp, everConnected, graceOver, fills>>
rowVars == <<queue, rows, passed, topology, unseen, seen, paused>>
loadVars == <<load, first, recentError, recentLoading>>
serverVars == <<said, kept, missed, owed>>
streamVars == <<connVars, rowVars, loadVars, serverVars, spent>>

Verdicts == 1 .. MaxVerdicts

connected == socket = "open"
down == ~connected /\ (everConnected \/ graceOver)
connBanner == down /\ ~recentError

-----------------------------------------------------------------------------
(* The lists.                                                              *)

Newest(n) == [i \in 1 .. (IF n < MaxRows THEN n ELSE MaxRows) |-> n + 1 - i]

FirstRows(s) == SubSeq(s, 1, IF Len(s) < MaxRows THEN Len(s) ELSE MaxRows)

\* What of recent is not held and not older than all that is held.
gapOf(recent, have) ==
  Filtered(recent, {v \in Verdicts : /\ v \notin Range(have)
                                     /\ have = <<>> \/ \E h \in Range(have) : h <= v})

\* Both lists, newest first, without what the first already holds.
mergeByTime(a, b) ==
  FirstRows(Descending(a \o Filtered(b, Verdicts \ Range(a))))

\* The rows become r.
draws(r) ==
  /\ rows' = r
  /\ passed' = passed \cup
                {v \in Verdicts : Len(rows') = MaxRows /\ \A i \in DOMAIN rows' : rows'[i] > v}

\* fillFrom: what is missing is counted, and drawn unless paused.
fillFrom(vs) ==
  LET gap == gapOf(vs, rows \o queue)
  IN /\ topology' = topology \cup Range(gap)
     /\ draws(IF paused THEN rows ELSE mergeByTime(rows, gap))
     /\ seen' = seen \cup Range(gap)

Spend(what) == spent' = [spent EXCEPT ![what] = @ + 1]
Limit == [fail |-> MaxFailures, lose |-> MaxLost, refuse |-> MaxRefused,
          reload |-> MaxReloads, pause |-> MaxPauses]
AllSpent == spent.fail + spent.lose + spent.refuse + spent.reload + spent.pause
CanSpend(what) == spent[what] < Limit[what] /\ AllSpent < MaxSpent

-----------------------------------------------------------------------------
StreamInit ==
  /\ said = 0 /\ kept = 0 /\ known = FALSE
  /\ wire = <<>> /\ socket = "connecting" /\ wasUp = FALSE
  /\ everConnected = FALSE /\ graceOver = FALSE /\ paused = FALSE
  /\ queue = <<>> /\ rows = <<>> /\ passed = {} /\ topology = {}
  /\ unseen = 0
  /\ load = Sent /\ first = TRUE
  /\ recentError = FALSE /\ recentLoading = TRUE
  /\ fills = [i \in 1 .. MaxLost |-> Idle]
  /\ spent = [w \in DOMAIN Limit |-> 0]
  /\ seen = {}
  /\ missed = {} /\ owed = {}

\* Hub.Broadcast: to the socket the hub knows, unless its queue is full.
Broadcast(m) == wire' = wire \/ (known /\ wire' = Append(wire, m))

ServerSays ==
  /\ said < MaxVerdicts
  /\ said' = said + 1
  /\ Broadcast(said + 1)
  /\ missed' = IF wasUp /\ ~connected /\ rows \o queue # <<>>
               THEN missed \cup {said + 1} ELSE missed
  /\ UNCHANGED <<kept, owed, known, socket, wasUp, everConnected, graceOver,
                 fills, rowVars, loadVars, spent>>

ServerStores ==
  /\ kept < said
  /\ kept' = kept + 1
  /\ UNCHANGED <<said, missed, owed, connVars, rowVars, loadVars,
                 spent>>

\* The hub registers the socket after the upgrade was answered.
HubRegisters ==
  /\ connected /\ ~known
  /\ known' = TRUE
  /\ UNCHANGED <<wire, socket, wasUp, everConnected, graceOver, fills, serverVars,
                 rowVars, loadVars, spent>>

-----------------------------------------------------------------------------
(* The socket.                                                             *)

OnOpen ==
  /\ socket = "connecting"
  /\ socket' = "open" /\ everConnected' = TRUE
  /\ wasUp' = FALSE
  /\ fills' = IF wasUp THEN [fills EXCEPT ![spent.lose] = Sent] ELSE fills
  /\ owed' = owed \cup (missed \cap 1 .. kept)
  /\ UNCHANGED <<known, wire, graceOver, said, kept, missed, rowVars, loadVars,
                 spent>>

\* Mutant: a refused attempt only asks who is signed in.
MutOnRefused ==
  /\ socket = "connecting" /\ CanSpend("refuse") /\ Spend("refuse")
  /\ socket' = "closed"
  /\ UNCHANGED <<known, wire, wasUp, everConnected, graceOver, fills, serverVars,
                 rowVars, loadVars>>

\* Closed before it opened: recheckSession asks who is signed in.
OnRefused ==
  /\ socket = "connecting" /\ CanSpend("refuse") /\ Spend("refuse")
  /\ socket' = "waiting"
  /\ UNCHANGED <<known, wire, wasUp, everConnected, graceOver, fills, serverVars,
                 rowVars, loadVars>>

\* Closed after it was open: what was on the wire is lost.
OnLost ==
  /\ socket = "open" /\ CanSpend("lose") /\ Spend("lose")
  /\ socket' = "waiting" /\ wasUp' = TRUE
  /\ known' = FALSE /\ wire' = <<>>
  /\ missed' = IF rows \o queue = <<>> THEN missed
               ELSE missed \cup Range(wire)
  /\ UNCHANGED <<said, kept, owed, everConnected, graceOver, fills,
                 rowVars, loadVars>>

RetryConnect ==
  /\ socket = "waiting"
  /\ socket' = "connecting"
  /\ UNCHANGED <<known, wire, wasUp, everConnected, graceOver, fills, serverVars,
                 rowVars, loadVars, spent>>

\* Seen only while the connection was never open.
GraceOver ==
  /\ ~graceOver /\ ~everConnected /\ graceOver' = TRUE
  /\ UNCHANGED <<known, wire, socket, wasUp, everConnected, fills, serverVars, rowVars,
                 loadVars, spent>>

\* accept: counted in any case, unseen if it matched, drawn unless paused.
accept(v) ==
  /\ topology' = topology \cup {v}
  /\ unseen' = IF v \in Alerts THEN unseen + 1 ELSE unseen
  /\ queue' = IF paused THEN queue ELSE Append(queue, v)
  /\ seen' = IF paused THEN seen \cup {v} ELSE seen
  /\ UNCHANGED <<rows, passed, paused>>

OnMessage ==
  /\ connected /\ wire # <<>>
  /\ wire' = Tail(wire)
  /\ accept(Head(wire))
  /\ UNCHANGED <<known, socket, wasUp, everConnected, graceOver, fills, serverVars,
                 loadVars, spent>>

Flush ==
  /\ queue # <<>>
  /\ draws(FirstRows(Reverse(queue) \o rows))
  /\ seen' = seen \cup Range(queue)
  /\ queue' = <<>>
  /\ UNCHANGED <<topology, unseen, paused, connVars, loadVars, serverVars,
                 spent>>

-----------------------------------------------------------------------------
(* Requests: sent, answered by the server at some later time, taken.       *)

ServerAnswers ==
  /\ \/ load.at = "sent" /\ load' = Answer(Newest(kept)) /\ UNCHANGED fills
     \/ \E i \in DOMAIN fills :
          /\ fills[i].at = "sent"
          /\ fills' = [fills EXCEPT ![i] = Answer(Newest(kept))]
          /\ UNCHANGED load
  /\ UNCHANGED <<known, wire, socket, wasUp, everConnected, graceOver, first, recentError,
                 recentLoading, serverVars, rowVars, spent>>

ServerFails ==
  /\ CanSpend("fail") /\ Spend("fail")
  /\ \/ load.at = "sent" /\ load' = Failed /\ UNCHANGED fills
     \/ \E i \in DOMAIN fills :
          /\ fills[i].at = "sent" /\ fills' = [fills EXCEPT ![i] = Failed]
          /\ UNCHANGED load
  /\ UNCHANGED <<known, wire, socket, wasUp, everConnected, graceOver, first, recentError,
                 recentLoading, serverVars, rowVars>>

\* The first load puts what it got under the rows, a retried one fills.
RecentLoaded ==
  /\ load.at = "answered" /\ load' = Idle
  /\ recentError' = FALSE /\ recentLoading' = FALSE
  /\ IF first
     THEN /\ topology' = topology \cup Range(load.data)
          /\ draws(FirstRows(rows \o load.data))
          /\ seen' = seen \cup Range(rows')
     ELSE fillFrom(load.data)
  /\ UNCHANGED <<queue, unseen, paused, first, connVars, serverVars, spent>>

RecentFailed ==
  /\ load.at = "failed" /\ load' = Idle
  /\ recentError' = TRUE /\ recentLoading' = FALSE
  /\ UNCHANGED <<first, connVars, rowVars, serverVars, spent>>

\* A new effect cancels the requests of the one before.
RetryLoad ==
  /\ recentError
  /\ CanSpend("reload") /\ Spend("reload")
  /\ load' = Sent /\ first' = FALSE
  /\ UNCHANGED <<recentError, recentLoading, connVars, rowVars, serverVars>>

FillDone(i) ==
  /\ fills[i].at = "answered" /\ fills' = [fills EXCEPT ![i] = Idle]
  /\ recentError' = FALSE
  /\ fillFrom(fills[i].data)
  /\ UNCHANGED <<queue, unseen, paused, known, wire, socket, wasUp, everConnected,
                 graceOver, load, first, recentLoading, serverVars,
                 spent>>

\* Mutant: a fill that failed is forgotten.
MutFillFailed(i) ==
  /\ fills[i].at = "failed" /\ fills' = [fills EXCEPT ![i] = Idle]
  /\ UNCHANGED <<known, wire, socket, wasUp, everConnected, graceOver, rowVars, loadVars,
                 serverVars, spent>>

\* The gap is owed to the next opening again.
FillFailed(i) ==
  /\ fills[i].at = "failed" /\ fills' = [fills EXCEPT ![i] = Idle]
  /\ wasUp' = TRUE
  /\ UNCHANGED <<known, wire, socket, everConnected, graceOver, rowVars, loadVars,
                 serverVars, spent>>

-----------------------------------------------------------------------------
Pause ==
  /\ ~paused /\ CanSpend("pause") /\ Spend("pause")
  /\ paused' = TRUE
  /\ UNCHANGED <<queue, rows, passed, topology, unseen, seen, connVars, loadVars,
                 serverVars>>

Resume ==
  /\ paused /\ paused' = FALSE
  /\ UNCHANGED <<queue, rows, passed, topology, unseen, seen, connVars, loadVars,
                 serverVars, spent>>

AckAlerts ==
  /\ unseen > 0 /\ unseen' = 0
  /\ UNCHANGED <<queue, rows, passed, topology, seen, paused, connVars, loadVars,
                 serverVars, spent>>

Server == ServerSays \/ ServerStores \/ HubRegisters \/ ServerAnswers \/ ServerFails
Socket == OnOpen \/ OnRefused \/ OnLost \/ RetryConnect \/ OnMessage \/ Flush \/ GraceOver
StreamLoads == \/ RecentLoaded \/ RecentFailed \/ RetryLoad
         \/ \E i \in DOMAIN fills : FillDone(i) \/ FillFailed(i)
Viewer == Pause \/ Resume \/ AckAlerts

StreamNext == Server \/ Socket \/ StreamLoads \/ Viewer

\* Timers fire, the server answers or fails, and the socket delivers.
StreamFairness ==
  /\ WF_streamVars(OnOpen) /\ WF_streamVars(RetryConnect)
  /\ WF_streamVars(OnMessage) /\ WF_streamVars(Flush)
  /\ WF_streamVars(ServerAnswers) /\ WF_streamVars(ServerStores)
  /\ WF_streamVars(\E i \in DOMAIN fills : FillDone(i) \/ FillFailed(i))

StreamSpec == StreamInit /\ [][StreamNext]_streamVars /\ StreamFairness
-----------------------------------------------------------------------------
(***************************************************************************)
(* Properties.                                                             *)
(***************************************************************************)

\* Types, with the limit on the rows kept in memory.
StreamTypeOK ==
  /\ said \in 0 .. MaxVerdicts /\ kept \in 0 .. said
  /\ known \in BOOLEAN /\ wasUp \in BOOLEAN /\ paused \in BOOLEAN /\ first \in BOOLEAN
  /\ socket \in {"connecting", "open", "waiting"}
  /\ (known => connected)
  /\ queue \in Seq(Verdicts) /\ rows \in Seq(Verdicts) /\ Len(rows) <= MaxRows
  /\ topology \subseteq Verdicts /\ unseen \in Nat
  /\ load \in Requests(Seq(Verdicts))
  /\ fills \in [1 .. MaxLost -> Requests(Seq(Verdicts))]

OnScreen == seen \cup Range(queue)
Recent == {v \in Verdicts : v > kept - MaxRows}

\* What the server sent while a broken connection was down, or lost with it,
\* and had stored when it was back, is on the screen once the connection is back
\* and its fill was taken, unless a full list had left it behind, whatever came
\* in meanwhile (onopen, onclose and fillFrom of useEventStream).
GapIsFilled ==
  connected /\ ~wasUp /\ (\A i \in DOMAIN fills : fills[i].at = "idle")
    => owed \cap Recent \subseteq OnScreen \cup passed

\* A gap is not left open: what was stored while the connection was broken gets
\* onto the screen, for the retry timer, the opening, refused attempts and the
\* fill follow each other, unless it is too old to be asked for or to be shown by
\* then, or its fill failed on a connection that stays up.
GapGetsFilled ==
  \A v \in Verdicts :
    v \in missed /\ v <= kept /\ ~connected ~>
      v \in OnScreen \cup passed \/ v \notin Recent \/ (connected /\ wasUp)
=============================================================================
