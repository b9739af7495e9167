------------------------------ MODULE Requests ------------------------------
(***************************************************************************)
(* A request of the console as its caller sees it (request() of            *)
(* lib/api.ts): sent, answered by the server at some later time with what  *)
(* the server held then, or failed, and taken by the caller later still.   *)
(* A request whose effect was cleaned up (let live = false) is dropped:    *)
(* its answer changes nothing.                                             *)
(***************************************************************************)
CONSTANT Nothing      \* null or undefined

Idle == [at |-> "idle", data |-> Nothing]
Sent == [at |-> "sent", data |-> Nothing]
Failed == [at |-> "failed", data |-> Nothing]
Answer(d) == [at |-> "answered", data |-> d]

Requests(D) == {Idle, Sent, Failed} \cup [at : {"answered"}, data : D]

(***************************************************************************)
(* useLoad: reload() asks anew; only the call of the last effect is live,  *)
(* an answer replaces the data, a failure keeps it.                        *)
(***************************************************************************)
OneCall(r, live) == [request |-> r, live |-> live]
NewLoad == [data |-> Nothing, failed |-> FALSE, calls |-> {OneCall(Sent, TRUE)}]
Dead(calls) == {OneCall(c.request, FALSE) : c \in calls}
Reload(l) == [l EXCEPT !.calls = Dead(l.calls) \cup {OneCall(Sent, TRUE)}]

\* The server answers call c of load l with d, or does not.
Replied(l, c, d) == [l EXCEPT !.calls = (@ \ {c}) \cup {OneCall(Answer(d), c.live)}]
Broke(l, c) == [l EXCEPT !.calls = (@ \ {c}) \cup {OneCall(Failed, c.live)}]

\* Mutant: the answer of a call that is not live any more counts too.
MutTookDead(l, c) ==
  [data |-> IF c.request.at = "answered" THEN c.request.data ELSE l.data,
   failed |-> c.request = Failed, calls |-> l.calls \ {c}]

\* An answer is taken while its call is live.
Took(l, c) ==
  [data |-> IF c.live /\ c.request.at = "answered" THEN c.request.data ELSE l.data,
   failed |-> IF c.live THEN c.request = Failed ELSE l.failed,
   calls |-> l.calls \ {c}]

Loading(l) == \E c \in l.calls : c.live
Loads(D) == [data : D \cup {Nothing}, failed : BOOLEAN,
             calls : SUBSET [request : Requests(D), live : BOOLEAN]]
=============================================================================
