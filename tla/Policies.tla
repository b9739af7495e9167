------------------------------ MODULE Policies ------------------------------
(***************************************************************************)
(* The policies page around the editor: its lists, a proposal with its     *)
(* preview and its decision (ProposalDetail), the block list, and the      *)
(* replacement of all rules by a YAML text (BulkYaml).                     *)
(*                                                                         *)
(* One list, of the proposals and the values blocked, stands for the five  *)
(* the page loads and reloads together; a proposal that is applied blocks  *)
(* its own value.                                                          *)
(* Another administrator decides too.                                      *)
(***************************************************************************)
EXTENDS Naturals, Requests

CONSTANTS
  Proposals,
  Drafts,       \* those the server holds as drafts at first
  MaxActs       \* bound: selections, decisions, unblocks, failures, changes by others

ASSUME PoliciesAssumption == Drafts \subseteq Proposals /\ MaxActs \in Nat

VARIABLES
  proposalState, \* server
  blocked,       \* server: the values blocked
  ruleSet,       \* server: the version of the rule set
  lists,         \* useLoad of the lists
  picked,        \* the proposal of the page, "yaml", or Nothing
  detail,        \* the mounted ProposalDetail
  acts,          \* decisions and unblocks under way
  bulk,          \* the mounted BulkYaml
  told,          \* history: proposals whose decision was confirmed to this page
  freed,         \* history: values whose unblocking was confirmed
  policyActs     \* history: for the bound

policyServer == <<proposalState, blocked, ruleSet>>
policyHistory == <<told, freed>>
policiesVars == <<policyServer, lists, picked, detail, acts, bulk, policyHistory, policyActs>>

ActedOnce == policyActs < MaxActs /\ policyActs' = policyActs + 1

NoDetail == [shown |-> FALSE, auto |-> FALSE, ask |-> Nothing, request |-> Idle]
NoBulk == [text |-> Nothing, ask |-> FALSE, request |-> Idle]

isDraft(p) == lists.data # Nothing /\ lists.data.proposals[p] = "draft"
draftsShown == {p \in Proposals : isDraft(p)}
\* The proposal the page shows with its buttons.
OnPage(p) == picked = p /\ lists.data # Nothing
actBusy == \E a \in acts : a.mine

-----------------------------------------------------------------------------
PoliciesInit ==
  /\ proposalState = [p \in Proposals |-> IF p \in Drafts THEN "draft" ELSE "none"]
  /\ blocked = {} /\ ruleSet = 0
  /\ lists = NewLoad
  /\ picked = Nothing /\ detail = NoDetail /\ acts = {} /\ bulk = NoBulk
  /\ told = {} /\ freed = {}
  /\ policyActs = 0

-----------------------------------------------------------------------------
(* The server and the other administrators.                                *)

Decided(p, how) ==
  /\ proposalState[p] = "draft"
  /\ proposalState' = [proposalState EXCEPT ![p] = how]
  /\ blocked' = IF how = "applied" THEN blocked \cup {p} ELSE blocked

OtherDecides(p) ==
  /\ ActedOnce /\ \E how \in {"applied", "discarded"} : Decided(p, how)
  /\ UNCHANGED <<ruleSet, lists, picked, detail, acts, bulk, policyHistory>>

ListsReplied(c) ==
  /\ c.request = Sent
  /\ \/ /\ lists' = Replied(lists, c, [proposals |-> proposalState, blocked |-> blocked])
        /\ UNCHANGED policyActs
     \/ ActedOnce /\ lists' = Broke(lists, c)
  /\ UNCHANGED <<policyServer, picked, detail, acts, bulk, policyHistory>>

ListsTaken(c) ==
  /\ c.request # Sent /\ lists' = Took(lists, c)
  /\ UNCHANGED <<policyServer, picked, detail, acts, bulk, policyHistory, policyActs>>

\* 409 for a proposal that is no draft any more.
ActDone(a) ==
  /\ a.at = "sent"
  /\ \/ /\ a.do \in {"applied", "discarded"} /\ Decided(a.of, a.do)
        /\ acts' = (acts \ {a}) \cup {[a EXCEPT !.at = "done"]}
        /\ UNCHANGED policyActs
     \/ /\ a.do = "unblock" /\ blocked' = blocked \ {a.of}
        /\ acts' = (acts \ {a}) \cup {[a EXCEPT !.at = "done"]}
        /\ UNCHANGED <<proposalState, policyActs>>
     \/ /\ a.do # "unblock" => proposalState[a.of] # "draft" \/ policyActs < MaxActs
        /\ acts' = (acts \ {a}) \cup {[a EXCEPT !.at = "failed"]}
        /\ policyActs' = IF policyActs < MaxActs THEN policyActs + 1 ELSE policyActs
        /\ UNCHANGED <<proposalState, blocked>>
  /\ UNCHANGED <<ruleSet, lists, picked, detail, bulk, policyHistory>>

-----------------------------------------------------------------------------
(* PoliciesPage and ProposalDetail, which is mounted anew for each id.     *)

Pick(x) ==
  /\ picked' = x
  /\ detail' = NoDetail /\ bulk' = NoBulk
  /\ acts' = {[a EXCEPT !.mine = FALSE] : a \in acts}

PickByUser(x) ==
  /\ x # picked /\ (x \in Proposals => x \in draftsShown)
  /\ ActedOnce /\ Pick(x)
  /\ UNCHANGED <<policyServer, lists, policyHistory>>

\* Nothing selected, and the proposals settled: the first draft.
AutoPick ==
  /\ picked = Nothing /\ draftsShown # {}
  /\ Pick(CHOOSE p \in draftsShown : TRUE)
  /\ UNCHANGED <<policyServer, lists, policyHistory, policyActs>>

\* The preview: once by itself for a draft, and by its button.
runPreview ==
  /\ \E p \in Proposals : OnPage(p) /\ isDraft(p)
  /\ detail.request = Idle /\ ~actBusy
  /\ \/ ~detail.auto /\ UNCHANGED policyActs
     \/ detail.auto /\ ActedOnce
  /\ detail' = [detail EXCEPT !.auto = TRUE, !.request = Sent]
  /\ UNCHANGED <<policyServer, lists, picked, acts, bulk, policyHistory>>

\* A preview that fails keeps the one before.
PreviewSettles ==
  /\ detail.request = Sent
  /\ \/ /\ detail' = [detail EXCEPT !.request = Idle, !.shown = TRUE]
        /\ UNCHANGED policyActs
     \/ /\ ActedOnce /\ detail' = [detail EXCEPT !.request = Idle]
  /\ UNCHANGED <<policyServer, lists, picked, acts, bulk, told, freed>>

\* The buttons of a draft; the dialog stays open over a list that was reloaded.
AskAct(how) ==
  /\ \E p \in Proposals : OnPage(p) /\ isDraft(p)
  /\ detail.request = Idle /\ ~actBusy /\ detail.ask = Nothing
  /\ how = "applied" => detail.shown
  /\ detail' = [detail EXCEPT !.ask = how]
  /\ UNCHANGED <<policyServer, lists, picked, acts, bulk, policyHistory, policyActs>>

CancelAct ==
  /\ detail.ask # Nothing /\ detail' = [detail EXCEPT !.ask = Nothing]
  /\ UNCHANGED <<policyServer, lists, picked, acts, bulk, policyHistory, policyActs>>

ConfirmAct ==
  /\ detail.ask # Nothing /\ detail' = [detail EXCEPT !.ask = Nothing]
  /\ acts' = acts \cup {[do |-> detail.ask, of |-> picked, mine |-> TRUE, at |-> "sent"]}
  /\ UNCHANGED <<policyServer, lists, picked, bulk, policyHistory, policyActs>>

\* BlocklistPanel: "unblock" of an entry of the list shown.
Unblock(v) ==
  /\ lists.data # Nothing /\ v \in lists.data.blocked
  /\ ActedOnce
  /\ acts' = acts \cup {[do |-> "unblock", of |-> v, mine |-> FALSE, at |-> "sent"]}
  /\ UNCHANGED <<policyServer, lists, picked, detail, bulk, policyHistory>>

\* refreshAll, also where the detail that asked is gone.
ActTaken(a) ==
  /\ a.at # "sent" /\ acts' = acts \ {a}
  /\ IF a.at = "done"
     THEN /\ lists' = Reload(lists)
          /\ told' = IF a.do # "unblock" THEN told \cup {a.of} ELSE told
          /\ freed' = IF a.do = "unblock" THEN freed \cup {a.of} ELSE freed
     ELSE UNCHANGED <<lists, told, freed>>
  /\ UNCHANGED <<policyServer, picked, detail, bulk, policyActs>>

-----------------------------------------------------------------------------
(* BulkYaml: the text is loaded once and replaces all rules.               *)

BulkLoads ==
  /\ picked = "yaml" /\ bulk.text = Nothing
  /\ bulk' = [bulk EXCEPT !.text = ruleSet]
  /\ UNCHANGED <<policyServer, lists, picked, detail, acts, policyHistory, policyActs>>

BulkAsks ==
  /\ bulk.text # Nothing /\ ~bulk.ask /\ bulk.request = Idle
  /\ bulk' = [bulk EXCEPT !.ask = TRUE]
  /\ UNCHANGED <<policyServer, lists, picked, detail, acts, policyHistory, policyActs>>

\* Cancelled, or sent, carried out and its answer taken.
BulkConfirms ==
  /\ bulk.ask
  /\ \/ bulk' = [bulk EXCEPT !.ask = FALSE] /\ UNCHANGED <<policyServer, lists, policyActs>>
     \/ /\ ruleSet < MaxActs /\ ruleSet' = ruleSet + 1
        /\ bulk' = [bulk EXCEPT !.ask = FALSE] /\ lists' = Reload(lists)
        /\ UNCHANGED <<proposalState, blocked, policyActs>>
  /\ UNCHANGED <<picked, detail, acts, told, freed>>

-----------------------------------------------------------------------------
PoliciesNext ==
  \/ \E p \in Proposals : OtherDecides(p) \/ PickByUser(p) \/ Unblock(p)
  \/ \E c \in lists.calls : ListsReplied(c) \/ ListsTaken(c)
  \/ \E a \in acts : ActDone(a) \/ ActTaken(a)
  \/ \E how \in {"applied", "discarded"} : AskAct(how)
  \/ PickByUser("yaml") \/ AutoPick \/ runPreview \/ PreviewSettles
  \/ CancelAct \/ ConfirmAct \/ BulkLoads \/ BulkAsks \/ BulkConfirms

PoliciesSpec == PoliciesInit /\ [][PoliciesNext]_policiesVars
-----------------------------------------------------------------------------
\* Every variable keeps its kind of value.
PoliciesTypeOK ==
  /\ LET states == [Proposals -> {"none", "draft", "applied", "discarded"}]
     IN lists \in Loads([proposals : states, blocked : SUBSET Proposals])
  /\ picked \in Proposals \cup {"yaml", Nothing}

\* Once the lists have settled, they show what this page was told was done:
\* no answer to an older request brings a decided proposal back as a draft,
\* or an unblocked value back to the block list.
ToldIsShown ==
  ~Loading(lists) /\ ~lists.failed /\ lists.data # Nothing =>
    told \cap draftsShown = {} /\ freed \cap lists.data.blocked = {}
=============================================================================
