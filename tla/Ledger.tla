------------------------------- MODULE Ledger -------------------------------
(***************************************************************************)
(* What the pipeline promises about every event it reads, without saying   *)
(* how: the event is judged at most once and the judgement never changes;  *)
(* a judged event may be set aside only before it is judged and only once  *)
(* the server is stopping; a row of the audit log is written only for a    *)
(* judgement that matched a rule; and an isolation is reported only with   *)
(* the audit row of a kill that Docker confirmed.                          *)
(***************************************************************************)
CONSTANTS
  Ids,        \* event numbers
  Matched,    \* verdicts that matched a rule
  Quiet       \* verdicts that matched none

VARIABLES
  status,     \* per event: new, taken, waiting, abandoned or its verdict
  audit,      \* events with a row in the audit log
  isolation,  \* events reported as an isolation
  stopping    \* the server is on its way down

lvars == <<status, audit, isolation, stopping>>

Judged == Matched \cup Quiet

LInit ==
  /\ status = [i \in Ids |-> "new"]
  /\ audit = {} /\ isolation = {}
  /\ stopping = FALSE

Move(i, s) == status' = [status EXCEPT ![i] = s] /\ UNCHANGED <<audit, isolation, stopping>>

\* An event is read, and either taken up or found to need no judgement.
Take(i) == status[i] = "new" /\ (Move(i, "taken") \/ \E v \in Quiet : Move(i, v))

\* A taken event may wait once.
Wait(i) == status[i] = "taken" /\ Move(i, "waiting")

Judge(i) == status[i] \in {"taken", "waiting"} /\ \E v \in Judged : Move(i, v)

Abandon(i) == status[i] = "waiting" /\ stopping /\ Move(i, "abandoned")

\* The audit row of a match, with the isolation report if it is a real kill.
Record(i) ==
  /\ status[i] \in Matched /\ i \notin audit
  /\ audit' = audit \cup {i}
  /\ isolation' = IF status[i] = "killed" THEN isolation \cup {i} ELSE isolation
  /\ UNCHANGED <<status, stopping>>

Stop == stopping' = TRUE /\ UNCHANGED <<status, audit, isolation>>

LNext ==
  \/ \E i \in Ids : Take(i) \/ Wait(i) \/ Judge(i) \/ Abandon(i) \/ Record(i)
  \/ Stop

LSpec == LInit /\ [][LNext]_lvars

=============================================================================
