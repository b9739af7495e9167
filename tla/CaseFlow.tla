------------------------------ MODULE CaseFlow ------------------------------
(***************************************************************************)
(* What the review service promises of cases and proposals in its store,   *)
(* without saying how: a case is judged once, and its judgement comes with *)
(* one new proposal; the proposal is settled once, and settling it closes  *)
(* the case.  Nothing goes back, and nothing happens to one side only.     *)
(***************************************************************************)
EXTENDS Integers

CONSTANTS CaseIds, ProposalIds

VARIABLES
  status,      \* per case: none, open, decided or closed
  proposal,  \* per case: the number of its proposal, or 0
  outcome,   \* per proposal: none, draft, applied or discarded
  about      \* per proposal: the number of its case, or 0

lvars == <<status, proposal, outcome, about>>

LInit ==
  /\ status = [i \in CaseIds |-> "none"] /\ proposal = [i \in CaseIds |-> 0]
  /\ outcome = [p \in ProposalIds |-> "none"] /\ about = [p \in ProposalIds |-> 0]

\* Cases become known, several at a time.
Open ==
  /\ \E S \in SUBSET {i \in CaseIds : status[i] = "none"} :
       status' = [i \in CaseIds |-> IF i \in S THEN "open" ELSE status[i]]
  /\ UNCHANGED <<proposal, outcome, about>>

\* A case that was never stored may be judged as it becomes known.
Judge(i, p) ==
  /\ status[i] \in {"none", "open"} /\ outcome[p] = "none"
  /\ status' = [status EXCEPT ![i] = "decided"] /\ proposal' = [proposal EXCEPT ![i] = p]
  /\ outcome' = [outcome EXCEPT ![p] = "draft"] /\ about' = [about EXCEPT ![p] = i]

Settle(p) ==
  /\ outcome[p] = "draft" /\ status[about[p]] = "decided" /\ proposal[about[p]] = p
  /\ \E o \in {"applied", "discarded"} : outcome' = [outcome EXCEPT ![p] = o]
  /\ status' = [status EXCEPT ![about[p]] = "closed"]
  /\ UNCHANGED <<proposal, about>>

LNext ==
  \/ Open
  \/ \E i \in CaseIds, p \in ProposalIds : Judge(i, p)
  \/ \E p \in ProposalIds : Settle(p)

LSpec == LInit /\ [][LNext]_lvars

=============================================================================
