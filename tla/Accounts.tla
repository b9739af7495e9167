------------------------------ MODULE Accounts ------------------------------
(***************************************************************************)
(* The settings page: the accounts of its administrators (AccountsTab,     *)
(* AddUser), the renewal of the license (LicenseTab) and the test of the   *)
(* notifications (ServerTab).                                              *)
(*                                                                         *)
(* Me is signed in here; the other administrators work from pages of their *)
(* own, which may show a list as old as they like.  UpdateUser of the      *)
(* server is one step: it holds its lock from the check to the write.      *)
(***************************************************************************)
EXTENDS Naturals, FiniteSets, Requests

CONSTANTS
  AccountIds,
  Me,
  Others,          \* those signed in elsewhere
  MaxAccountActs   \* bound: what the users ask for

ASSUME AccountsAssumption ==
  /\ Me \in AccountIds /\ Others \subseteq AccountIds \ {Me} /\ MaxAccountActs \in Nat

Patches == {"admin", "viewer", "disable", "enable"}
Commands == Patches \cup {"resetPassword", "resetOtp", "create"}
SettingsTabs == {"server", "accounts", "license"}
AccountViews == [role : {"admin", "viewer"}, disabled : BOOLEAN, exists : BOOLEAN]

VARIABLES
  accounts,      \* server
  settingsTab,   \* the tab on the screen
  users,         \* useLoad of the page
  accountDialog, \* the confirmation of AccountsTab, or Nothing
  commands,      \* what was sent to the server; live: by the tab on the screen
  temp,          \* the dialog with a one-time password: whose, or Nothing
  adding,        \* AddUser
  renewal,       \* LicenseTab: closed, input, confirm; busy
  notifyTest,    \* ServerTab: "idle", "sending", "waiting" for the counters
  accountActs    \* history: for the bound

accountsVars == <<accounts, settingsTab, users, accountDialog, commands, temp, adding, renewal, notifyTest,
                  accountActs>>
AccountAct == accountActs < MaxAccountActs /\ accountActs' = accountActs + 1

ActiveAdmin(u) == u.exists /\ u.role = "admin" /\ ~u.disabled
adminsOf(us) == {id \in AccountIds : ActiveAdmin(us[id])}

\* What the table of accounts us draws buttons for in the row of id: the last
\* administrator and oneself cannot be taken down.
actionsOf(us, id, self) ==
  LET u == us[id]
      last == adminsOf(us) = {id}
  IN IF ~u.exists THEN {}
     ELSE (IF last THEN {} ELSE {IF u.role = "admin" THEN "viewer" ELSE "admin"})
          \cup (IF last \/ id = self THEN {} ELSE {IF u.disabled THEN "enable" ELSE "disable"})
          \cup {"resetPassword", "resetOtp"}

Patched(u, what) ==
  CASE what \in {"admin", "viewer"} -> [u EXCEPT !.role = what]
    [] what \in {"disable", "enable"} -> [u EXCEPT !.disabled = what = "disable"]
    [] OTHER -> u

-----------------------------------------------------------------------------
AccountsInit ==
  /\ accounts = [id \in AccountIds |->
       [role |-> IF id = Me \/ id \in Others THEN "admin" ELSE "viewer",
        disabled |-> FALSE, exists |-> id = Me \/ id \in Others]]
  /\ settingsTab = "accounts" /\ users = NewLoad /\ accountDialog = Nothing /\ commands = {} /\ temp = Nothing
  /\ adding = Nothing /\ renewal = [at |-> "closed", busy |-> FALSE] /\ notifyTest = "idle"
  /\ accountActs = 0

-----------------------------------------------------------------------------
(* The server (auth/service.go).                                           *)

\* Mutant: the server trusts the buttons of the page.
MutRefusesPatch(by, id, what) ==
  LET was == accounts[id]
  IN ~was.exists \/ (id = by /\ Patched(was, what).disabled)

\* UpdateUser refuses to disable oneself, and to leave no active administrator.
RefusesPatch(by, id, what) ==
  LET was == accounts[id]
      is == Patched(was, what)
  IN \/ ~was.exists
     \/ id = by /\ is.disabled /\ ~was.disabled
     \/ ActiveAdmin(was) /\ ~ActiveAdmin(is) /\ adminsOf(accounts) \ {id} = {}

\* A request counts while its sender may write.
MayWrite(by) == ActiveAdmin(accounts[by])

CommandCarriedOut(c) ==
  /\ c.at = "sent"
  /\ IF MayWrite(c.by) /\ (c.do \in Patches => ~RefusesPatch(c.by, c.of, c.do))
        /\ (c.do = "create" <=> ~accounts[c.of].exists)
     THEN /\ accounts' = [accounts EXCEPT ![c.of] =
               IF c.do = "create"
               THEN [role |-> c.role, disabled |-> FALSE, exists |-> TRUE]
               ELSE Patched(@, c.do)]
          /\ commands' = (commands \ {c}) \cup {[c EXCEPT !.at = "done"]}
     ELSE /\ commands' = (commands \ {c}) \cup {[c EXCEPT !.at = "refused"]}
          /\ UNCHANGED accounts
  /\ UNCHANGED <<settingsTab, users, accountDialog, temp, adding, renewal, notifyTest,
                 accountActs>>

UsersReplied(c) ==
  /\ c.request = Sent
  /\ users' = IF MayWrite(Me) THEN Replied(users, c, accounts) ELSE Broke(users, c)
  /\ UNCHANGED <<accounts, settingsTab, accountDialog, commands, temp, adding, renewal, notifyTest,
                 accountActs>>

\* An administrator elsewhere confirms what some older list had buttons for.
OtherCommands(by, id) ==
  /\ AccountAct /\ MayWrite(by)
  /\ \E do \in {"viewer", "disable"} :
       /\ do = "disable" => id # by
       /\ commands' = commands \cup
            {[by |-> by, do |-> do, of |-> id, role |-> "viewer", live |-> FALSE, at |-> "sent"]}
  /\ UNCHANGED <<accounts, settingsTab, users, accountDialog, temp, adding, renewal, notifyTest>>

-----------------------------------------------------------------------------
(* AccountsTab.                                                            *)

UsersTaken(c) ==
  /\ c.request # Sent /\ users' = Took(users, c)
  /\ UNCHANGED <<accounts, settingsTab, accountDialog, commands, temp, adding, renewal, notifyTest,
                 accountActs>>

\* A button of a row; the dialog keeps what the row said when it was pressed.
AskCommand(id) ==
  /\ users.data # Nothing /\ accountDialog = Nothing /\ temp = Nothing /\ adding = Nothing
  /\ \E do \in actionsOf(users.data, id, Me) : accountDialog' = [do |-> do, of |-> id]
  /\ UNCHANGED <<accounts, settingsTab, users, commands, temp, adding, renewal, notifyTest, accountActs>>

\* Confirmed or cancelled; nothing holds back a second one under way.
AnswerDialog ==
  /\ accountDialog # Nothing /\ accountDialog' = Nothing
  /\ \/ /\ AccountAct
        /\ commands' = commands \cup {[by |-> Me, do |-> accountDialog.do, of |-> accountDialog.of,
                                       role |-> "viewer", live |-> TRUE, at |-> "sent"]}
     \/ UNCHANGED <<commands, accountActs>>
  /\ UNCHANGED <<accounts, settingsTab, users, temp, adding, renewal, notifyTest>>

\* Done: the list is asked for anew, and a password shown, in place of the one
\* before.  A refusal of AddUser leaves its dialog open.
CommandTaken(c) ==
  /\ c.at # "sent" /\ commands' = commands \ {c}
  /\ IF ~c.live THEN UNCHANGED <<users, temp, adding>>
     ELSE /\ users' = IF c.at = "done" THEN Reload(users) ELSE users
          /\ temp' = IF c.at = "done" /\ c.do \in {"resetPassword", "create"} THEN c.of ELSE temp
          /\ adding' = IF c.do # "create" \/ adding = Nothing THEN adding
                       ELSE IF c.at = "done" THEN Nothing ELSE [adding EXCEPT !.busy = FALSE]
  /\ UNCHANGED <<accounts, settingsTab, accountDialog, renewal, notifyTest, accountActs>>

CloseTemp ==
  /\ temp # Nothing /\ temp' = Nothing
  /\ UNCHANGED <<accounts, settingsTab, users, accountDialog, commands, adding, renewal, notifyTest,
                 accountActs>>

OpenAdd ==
  /\ settingsTab = "accounts" /\ adding = Nothing /\ accountDialog = Nothing /\ temp = Nothing
  /\ \E role \in {"viewer", "admin"} : adding' = [role |-> role, busy |-> FALSE]
  /\ UNCHANGED <<accounts, settingsTab, users, accountDialog, commands, temp, renewal, notifyTest, accountActs>>

\* create of AddUser, or its dialog is closed, also while the request runs.
AnswerAdd(id) ==
  /\ adding # Nothing
  /\ \/ /\ ~adding.busy /\ AccountAct
        /\ adding' = [adding EXCEPT !.busy = TRUE]
        /\ commands' = commands \cup {[by |-> Me, do |-> "create", of |-> id, role |-> adding.role,
                                       live |-> TRUE, at |-> "sent"]}
     \/ adding' = Nothing /\ UNCHANGED <<commands, accountActs>>
  /\ UNCHANGED <<accounts, settingsTab, users, accountDialog, temp, renewal, notifyTest>>

-----------------------------------------------------------------------------
(* LicenseTab: the key is typed, confirmed, sent; a refusal leaves the     *)
(* dialog.  While the request runs the dialog may be closed and opened.    *)

OpenRenewal ==
  /\ settingsTab = "license" /\ renewal.at = "closed"
  /\ renewal' = [renewal EXCEPT !.at = "input"]
  /\ UNCHANGED <<accounts, settingsTab, users, accountDialog, commands, temp, adding, notifyTest, accountActs>>

AnswerRenewal ==
  /\ \/ renewal.at = "input" /\ renewal' = [renewal EXCEPT !.at = "closed"]
     \/ renewal.at = "input" /\ ~renewal.busy /\ renewal' = [renewal EXCEPT !.at = "confirm"]
     \/ renewal.at = "confirm" /\ renewal' = [renewal EXCEPT !.at = "input"]
     \/ renewal.at = "confirm" /\ renewal' = [at |-> "input", busy |-> TRUE]
  /\ UNCHANGED <<accounts, settingsTab, users, accountDialog, commands, temp, adding, notifyTest, accountActs>>

RenewalTaken ==
  /\ renewal.busy
  /\ \E at \in {"closed", renewal.at} : renewal' = [at |-> at, busy |-> FALSE]
  /\ UNCHANGED <<accounts, settingsTab, users, accountDialog, commands, temp, adding, notifyTest, accountActs>>

\* The test is sent, and its counters are read a little later.
TestNotify ==
  /\ settingsTab = "server"
  /\ notifyTest' = CASE notifyTest = "idle" -> "sending"
                     [] notifyTest = "sending" -> "waiting"
                     [] OTHER -> "idle"
  /\ UNCHANGED <<accounts, settingsTab, users, accountDialog, commands, temp, adding, renewal, accountActs>>

TestNotifyFails ==
  /\ notifyTest = "sending" /\ notifyTest' = "idle"
  /\ UNCHANGED <<accounts, settingsTab, users, accountDialog, commands, temp, adding, renewal, accountActs>>

-----------------------------------------------------------------------------
\* Another tab: the one before is taken down with its dialogs, and what it
\* waited for is answered to nobody.
SelectTab(t) ==
  /\ t # settingsTab /\ settingsTab' = t
  /\ users' = IF t = "accounts" THEN NewLoad ELSE [NewLoad EXCEPT !.calls = {}]
  /\ commands' = {[c EXCEPT !.live = FALSE] : c \in commands}
  /\ accountDialog' = Nothing /\ temp' = Nothing /\ adding' = Nothing
  /\ renewal' = [at |-> "closed", busy |-> FALSE] /\ notifyTest' = "idle"
  /\ UNCHANGED <<accounts, accountActs>>

AccountsNext ==
  \/ \E t \in SettingsTabs : SelectTab(t)
  \/ \E c \in commands : CommandCarriedOut(c) \/ CommandTaken(c)
  \/ \E c \in users.calls : UsersReplied(c) \/ UsersTaken(c)
  \/ \E by \in Others, id \in AccountIds : OtherCommands(by, id)
  \/ \E id \in AccountIds : AskCommand(id) \/ AnswerAdd(id)
  \/ AnswerDialog \/ CloseTemp \/ OpenAdd
  \/ OpenRenewal \/ AnswerRenewal \/ RenewalTaken \/ TestNotify \/ TestNotifyFails

AccountsSpec == AccountsInit /\ [][AccountsNext]_accountsVars
-----------------------------------------------------------------------------
\* Every variable keeps its kind of value.
AccountsTypeOK ==
  /\ accounts \in [AccountIds -> AccountViews]
  /\ users \in Loads([AccountIds -> AccountViews])
  /\ accountDialog = Nothing \/ accountDialog \in [do : Commands, of : AccountIds]
  /\ \A c \in commands : c.do \in Commands /\ c.at \in {"sent", "done", "refused"}
  /\ temp \in AccountIds \cup {Nothing} /\ settingsTab \in SettingsTabs

\* An administrator always remains, though each of several takes another down
\* from a list that shows the other still in place.
SomeAdminStays == adminsOf(accounts) # {}
=============================================================================
