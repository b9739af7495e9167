---------------------------- MODULE PartsProofs -----------------------------
(***************************************************************************)
(* The console as a whole (MCConsole): each part keeps its types, for any  *)
(* number of requests under way, and the console plays each of its parts,  *)
(* so what is proved of one of them is true of the whole.                  *)
(*                                                                         *)
(* A type invariant is seldom inductive: what a call under way will bring  *)
(* has to be typed too, before it is taken.  What is added to the types is *)
(* named <part>Typed; Policies and Accounts have it in the invariants of   *)
(* ConsoleProofs.  The editor needs most (PolicyEditTyped): a rule is      *)
(* typed by where it is used, as what the form writes may be no policy,    *)
(* while what is saved is one.                                             *)
(***************************************************************************)
EXTENDS MCConsole, ConsoleProofs, PagesProofs, StreamProofs

-----------------------------------------------------------------------------
(* What useLoad makes of a load, whatever it loads.                        *)

\* The data of an answer is what was asked for.
LEMMA AnswerData ==
  ASSUME NEW D, NEW r \in Requests(D)
  PROVE  r.at = "answered" => r.data \in D
BY DEF Requests, Idle, Sent, Failed

LEMMA RequestOf ==
  ASSUME NEW D, NEW d \in D
  PROVE  Answer(d) \in Requests(D) /\ Failed \in Requests(D) /\ Sent \in Requests(D)
         /\ Idle \in Requests(D)
BY DEF Requests, Answer

LEMMA NewLoadTyped ==
  ASSUME NEW D
  PROVE  NewLoad \in Loads(D) /\ [NewLoad EXCEPT !.calls = {}] \in Loads(D)
<1>1. OneCall(Sent, TRUE) \in [request : Requests(D), live : BOOLEAN]
  BY DEF OneCall, Requests
<1>2. QED
  BY <1>1 DEF NewLoad, Loads

LEMMA ReloadTyped ==
  ASSUME NEW D, NEW l \in Loads(D)
  PROVE  Reload(l) \in Loads(D)
<1>1. OneCall(Sent, TRUE) \in [request : Requests(D), live : BOOLEAN]
  BY DEF OneCall, Requests
<1>2. Dead(l.calls) \subseteq [request : Requests(D), live : BOOLEAN]
  <2> SUFFICES ASSUME NEW c \in l.calls
               PROVE  OneCall(c.request, FALSE) \in [request : Requests(D), live : BOOLEAN]
    BY DEF Dead
  <2>1. c.request \in Requests(D)
    BY DEF Loads
  <2>2. QED
    BY <2>1 DEF OneCall
<1>3. Dead(l.calls) \cup {OneCall(Sent, TRUE)} \in SUBSET [request : Requests(D), live : BOOLEAN]
  BY <1>1, <1>2
<1>4. QED
  BY <1>3 DEF Reload, Loads

\* A call becomes another, answered or broken.
LEMMA CallBecomesTyped ==
  ASSUME NEW D, NEW l \in Loads(D), NEW c \in l.calls, NEW r \in Requests(D)
  PROVE  [l EXCEPT !.calls = (@ \ {c}) \cup {OneCall(r, c.live)}] \in Loads(D)
<1>1. c.live \in BOOLEAN /\ l.calls \subseteq [request : Requests(D), live : BOOLEAN]
  BY DEF Loads
<1>2. OneCall(r, c.live) \in [request : Requests(D), live : BOOLEAN]
  BY <1>1 DEF OneCall
<1>3. (l.calls \ {c}) \cup {OneCall(r, c.live)} \in SUBSET [request : Requests(D), live : BOOLEAN]
  BY <1>1, <1>2
<1>4. QED
  BY <1>3 DEF Loads

LEMMA RepliedTyped ==
  ASSUME NEW D, NEW l \in Loads(D), NEW c \in l.calls
  PROVE  Broke(l, c) \in Loads(D) /\ \A d \in D : Replied(l, c, d) \in Loads(D)
<1>1. Broke(l, c) \in Loads(D)
  <2>1. Failed \in Requests(D)
    BY DEF Requests
  <2>2. QED
    BY <2>1, CallBecomesTyped DEF Broke
<1>2. ASSUME NEW d \in D PROVE Replied(l, c, d) \in Loads(D)
  <2>1. Answer(d) \in Requests(D)
    BY RequestOf
  <2>2. QED
    BY <2>1, CallBecomesTyped DEF Replied
<1>3. QED
  BY <1>1, <1>2

LEMMA TookTyped ==
  ASSUME NEW D, NEW l \in Loads(D), NEW c \in l.calls
  PROVE  Took(l, c) \in Loads(D)
<1>1. c.request \in Requests(D) /\ c.live \in BOOLEAN
  BY DEF Loads
<1>2. c.request.at = "answered" => c.request.data \in D
  BY <1>1, AnswerData
<1>3. (c.request = Failed) \in BOOLEAN
  OBVIOUS
<1>4. QED
  BY <1>1, <1>2, <1>3 DEF Took, Loads

-----------------------------------------------------------------------------
(* The policies page and the settings page. *)

\* The lists of the policies page, what is picked in them, and the acts under
\* way keep their types, however reloads and acts overlap (PoliciesPage.tsx,
\* ProposalDetail.tsx, BlocklistPanels.tsx).
THEOREM PoliciesTypes == PoliciesSpec => []PoliciesTypeOK
<1>1. PoliciesInv => PoliciesTypeOK
  BY DEF PoliciesInv, PoliciesTyped, PoliciesTypeOK, Views, PolicyStates
<1>2. QED
  BY <1>1, PoliciesInvInit, PoliciesInvNext, PTL DEF PoliciesSpec

UsersTyped ==
  /\ users \in Loads([AccountIds -> AccountViews])
  /\ temp \in AccountIds \cup {Nothing} /\ settingsTab \in SettingsTabs

LEMMA UsersTypedNext ==
  AccountsInv /\ UsersTyped /\ [AccountsNext]_accountsVars => UsersTyped'
<1> SUFFICES ASSUME AccountsInv, UsersTyped, [AccountsNext]_accountsVars PROVE UsersTyped'
  OBVIOUS
<1> USE DEF UsersTyped
<1>1. CASE UNCHANGED accountsVars
  BY <1>1 DEF accountsVars
<1>2. ASSUME NEW t \in SettingsTabs, SelectTab(t) PROVE UsersTyped'
  BY <1>2, NewLoadTyped DEF SelectTab
<1>3. ASSUME NEW c \in commands, CommandCarriedOut(c) PROVE UsersTyped'
  BY <1>3 DEF CommandCarriedOut
<1>4. ASSUME NEW c \in commands, CommandTaken(c) PROVE UsersTyped'
  <2>1. c.of \in AccountIds
    BY DEF AccountsInv, FormsTyped, Sendings
  <2>2. Reload(users) \in Loads([AccountIds -> AccountViews])
    BY ReloadTyped
  <2>3. QED
    BY <1>4, <2>1, <2>2 DEF CommandTaken
<1>5. ASSUME NEW c \in users.calls, UsersReplied(c) PROVE UsersTyped'
  BY <1>5, RepliedTyped DEF UsersReplied, AccountsInv, AccountsTyped
<1>6. ASSUME NEW c \in users.calls, UsersTaken(c) PROVE UsersTyped'
  BY <1>6, TookTyped DEF UsersTaken
<1>7. ASSUME NEW by \in Others, NEW id \in AccountIds, OtherCommands(by, id) PROVE UsersTyped'
  BY <1>7 DEF OtherCommands
<1>8. ASSUME NEW id \in AccountIds, AskCommand(id) \/ AnswerAdd(id) PROVE UsersTyped'
  BY <1>8 DEF AskCommand, AnswerAdd
<1>9. ASSUME AnswerDialog \/ CloseTemp \/ OpenAdd \/ OpenRenewal \/ AnswerRenewal \/ RenewalTaken
             \/ TestNotify \/ TestNotifyFails
      PROVE  UsersTyped'
  BY <1>9 DEF AnswerDialog, CloseTemp, OpenAdd, OpenRenewal, AnswerRenewal, RenewalTaken,
              TestNotify, TestNotifyFails
<1>10. QED
  BY <1>1, <1>2, <1>3, <1>4, <1>5, <1>6, <1>7, <1>8, <1>9 DEF AccountsNext

\* The accounts of the server and the page that lists and changes them keep
\* their types: every command under way is a well-formed one (SettingsPage.tsx).
THEOREM AccountsTypes == AccountsSpec => []AccountsTypeOK
<1>1. AccountsInit => UsersTyped
  BY NewLoadTyped DEF AccountsInit, UsersTyped, SettingsTabs
<1>2. AccountsInv /\ UsersTyped => AccountsTypeOK
  BY DEF AccountsInv, FormsTyped, AccountsTyped, UsersTyped, AccountsTypeOK, Sendings
<1>3. QED
  BY <1>1, <1>2, AccountsInvInit, AccountsInvNext, UsersTypedNext, PTL DEF AccountsSpec

-----------------------------------------------------------------------------
(* The installs page. *)

InstallsTyped ==
  /\ installed \in Seq(InstallRecord) /\ Len(installed) <= MaxInstall
  /\ installSheet \in Loads(InstallRecord)
  /\ installId \in 0 .. Len(installed)

LEMMA InstallMovesTyped ==
  ASSUME InstallsTyped, NEW i \in DOMAIN installed, InstallMoves(i)
  PROVE  InstallsTyped'
<1> DEFINE s == installed[i]
<1>1. i \in 1 .. Len(installed) /\ s \in InstallRecord
  BY DEF InstallsTyped
<1>2. \A r \in InstallRecord : /\ [installed EXCEPT ![i] = r] \in Seq(InstallRecord)
                               /\ Len([installed EXCEPT ![i] = r]) = Len(installed)
  BY <1>1, ExceptSeq DEF InstallsTyped
<1>3. \A end \in UsedEnds : [s EXCEPT !.status = end, !.case = (end # "passed")] \in InstallRecord
  <2>1. \A end : (end # "passed") \in BOOLEAN
    OBVIOUS
  <2>2. QED
    BY <1>1, <2>1, InstallsAssumption DEF InstallRecord, InstallStatus
<1>4. \A scan \in UsedScans : [s EXCEPT !.scan = scan] \in InstallRecord
  BY <1>1, InstallsAssumption DEF InstallRecord, ScanStatus
<1>5. PICK r \in InstallRecord : installed' = [installed EXCEPT ![i] = r]
  BY <1>3, <1>4 DEF InstallMoves
<1>6. installed' \in Seq(InstallRecord) /\ Len(installed') = Len(installed)
  BY <1>2, <1>5
<1>7. QED
  BY <1>6 DEF InstallsTyped, InstallMoves

LEMMA InstallsTypedNext ==
  InstallsTyped /\ [InstallsNext]_installsVars => InstallsTyped'
<1> SUFFICES ASSUME InstallsTyped, [InstallsNext]_installsVars PROVE InstallsTyped'
  OBVIOUS
<1> USE DEF InstallsTyped
<1>0. Len(installed) \in Nat
  BY LenProperties
<1>1. CASE UNCHANGED installsVars
  BY <1>1 DEF installsVars
<1>2. CASE InstallStarts
  <2>1. [status |-> "running", scan |-> "none", case |-> FALSE] \in InstallRecord
    BY DEF InstallRecord, InstallStatus, ScanStatus
  <2>2. installed' \in Seq(InstallRecord) /\ Len(installed') = Len(installed) + 1
    BY <1>2, <2>1 DEF InstallStarts
  <2>3. QED
    BY <1>0, <1>2, <2>2, InstallsAssumption DEF InstallStarts
<1>3. ASSUME NEW i \in DOMAIN installed, InstallMoves(i) PROVE InstallsTyped'
  BY <1>3, InstallMovesTyped
<1>4. ASSUME NEW i \in InstallIds, CaseIsDecided(i) PROVE InstallsTyped'
  BY <1>4 DEF CaseIsDecided
<1>5. ASSUME NEW i \in InstallIds, OpenInstall(i) PROVE InstallsTyped'
  BY <1>0, <1>5, NewLoadTyped DEF OpenInstall
<1>6. ASSUME NEW c \in installList.calls, InstallListReplied(c) \/ InstallListTaken(c)
      PROVE  InstallsTyped'
  BY <1>6 DEF InstallListReplied, InstallListTaken
<1>7. ASSUME NEW c \in installSheet.calls, InstallReplied(c) PROVE InstallsTyped'
  <2>1. installed[installId] \in InstallRecord
    BY <1>0, <1>7 DEF InstallReplied
  <2>2. installSheet' \in Loads(InstallRecord)
    BY <1>7, <2>1, RepliedTyped DEF InstallReplied
  <2>3. QED
    BY <1>7, <2>2 DEF InstallReplied
<1>8. ASSUME NEW c \in installSheet.calls, InstallTaken(c) PROVE InstallsTyped'
  BY <1>8, TookTyped DEF InstallTaken
<1>9. ASSUME NEW f, SetInstallFilter(f) PROVE InstallsTyped'
  BY <1>9 DEF SetInstallFilter
<1>10. CASE InstallListPoll
  BY <1>10 DEF InstallListPoll
<1>11. CASE CloseInstall
  BY <1>0, <1>11, NewLoadTyped DEF CloseInstall
<1>12. CASE SheetTick
  BY <1>12, ReloadTyped DEF SheetTick
<1>13. QED
  BY <1>1, <1>2, <1>3, <1>4, <1>5, <1>6, <1>7, <1>8, <1>9, <1>10, <1>11, <1>12 DEF InstallsNext

LEMMA InstallsTypedInit == InstallsInit => InstallsTyped
BY NewLoadTyped, InstallsAssumption DEF InstallsInit, InstallsTyped

LEMMA InstallsTypesFollow == InstallsTyped => InstallsTypeOK
<1>1. \A s : mismatchNote(s) \in {"runtime", "static", ""}
  BY DEF mismatchNote
<1>2. installsShown \in {"error", "skeleton", "firstUse", "noMatch", "table"}
  BY DEF installsShown
<1>3. QED
  BY <1>1, <1>2 DEF InstallsTyped, InstallsTypeOK

\* The installs page keeps its types: its list, its filter and the sheet of the
\* install whose report is polled, which is one of the list (InstallsPage.tsx).
THEOREM InstallsTypes == InstallsSpec => []InstallsTypeOK
BY InstallsTypedInit, InstallsTypedNext, InstallsTypesFollow, PTL DEF InstallsSpec

\* What a session was before it became b, or b itself: an ended session keeps
\* its status and its case, and a scan that was attached stays attached.
Behind(a, b) ==
  /\ a.status # "running" => b.status = a.status /\ b.case = a.case
  /\ \/ a.scan \in {"none", b.scan}
     \/ a.scan = "running" /\ b.scan # "none"

\* What the open sheet shows is what the server had at some time, and so is the
\* answer of its one live call, which is as new as what is shown.
SheetBehindServer ==
  installId # 0 =>
    /\ installSheet.data # Nothing => Behind(installSheet.data, installed[installId])
    /\ \A c \in installSheet.calls : c.live /\ c.request.at = "answered" =>
         /\ Behind(c.request.data, installed[installId])
         /\ installSheet.data # Nothing => Behind(installSheet.data, c.request.data)

OneLiveCall(l) == \A c, d \in l.calls : c.live /\ d.live => c = d

SheetInv == SheetBehindServer /\ OneLiveCall(installSheet)

LEMMA BehindIsAnOrder ==
  ASSUME NEW a, NEW b, NEW c
  PROVE  Behind(a, a) /\ (Behind(a, b) /\ Behind(b, c) => Behind(a, c))
BY DEF Behind

\* A load has one live call, whatever becomes of its calls.
LEMMA LiveCalls ==
  ASSUME NEW D, NEW l \in Loads(D), OneLiveCall(l)
  PROVE  /\ OneLiveCall(NewLoad) /\ OneLiveCall(Reload(l))
         /\ \A c \in l.calls : /\ OneLiveCall(Took(l, c)) /\ OneLiveCall(Broke(l, c))
                               /\ \A d : OneLiveCall(Replied(l, c, d))
                               /\ c.live => \A k \in l.calls \ {c} : ~k.live
<1> USE DEF OneLiveCall
<1>1. OneLiveCall(NewLoad)
  BY DEF NewLoad
<1>2. OneLiveCall(Reload(l))
  <2>1. Reload(l).calls = Dead(l.calls) \cup {OneCall(Sent, TRUE)}
    BY DEF Reload, Loads
  <2>2. \A k \in Dead(l.calls) : ~k.live
    BY DEF Dead, OneCall
  <2>3. QED
    BY <2>1, <2>2
<1>3. ASSUME NEW c \in l.calls
      PROVE  /\ OneLiveCall(Took(l, c)) /\ OneLiveCall(Broke(l, c))
             /\ \A d : OneLiveCall(Replied(l, c, d))
             /\ c.live => \A k \in l.calls \ {c} : ~k.live
  <2>1. c.live => \A k \in l.calls \ {c} : ~k.live
    OBVIOUS
  <2>2. \A r : \A k, m \in (l.calls \ {c}) \cup {OneCall(r, c.live)} : k.live /\ m.live => k = m
    BY <2>1 DEF OneCall
  <2>3. /\ Took(l, c).calls = l.calls \ {c}
        /\ Broke(l, c).calls = (l.calls \ {c}) \cup {OneCall(Failed, c.live)}
        /\ \A d : Replied(l, c, d).calls = (l.calls \ {c}) \cup {OneCall(Answer(d), c.live)}
    BY DEF Took, Broke, Replied, Loads
  <2>4. QED
    BY <2>1, <2>2, <2>3
<1>4. QED
  BY <1>1, <1>2, <1>3

\* A sheet that opens, or asks again, has no answer that could be old.
LEMMA SheetAsks ==
  ASSUME InstallsTyped, SheetInv, NEW l, l = NewLoad \/ l = Reload(installSheet)
  PROVE  /\ \A c \in l.calls : ~(c.live /\ c.request.at = "answered")
         /\ l.data \in {Nothing, installSheet.data}
<1>1. CASE l = NewLoad
  BY <1>1 DEF NewLoad, OneCall, Sent
<1>2. CASE l = Reload(installSheet)
  <2>1. /\ l.calls = Dead(installSheet.calls) \cup {OneCall(Sent, TRUE)}
        /\ l.data = installSheet.data
    BY <1>2 DEF Reload, InstallsTyped, Loads
  <2>2. \A c \in Dead(installSheet.calls) : ~c.live
    BY DEF Dead, OneCall
  <2>3. QED
    BY <2>1, <2>2 DEF OneCall, Sent
<1>3. QED
  BY <1>1, <1>2

\* The server only moves a session forward.
LEMMA InstallsOnlyMoveOn ==
  ASSUME InstallsTyped, [InstallsNext]_installsVars
  PROVE  \A i \in DOMAIN installed : Behind(installed[i], installed'[i])
<1> SUFFICES ASSUME NEW i \in DOMAIN installed PROVE Behind(installed[i], installed'[i])
  OBVIOUS
<1>0. installed \in Seq(InstallRecord) /\ i \in 1 .. Len(installed)
  BY DEF InstallsTyped
<1>1. CASE InstallStarts
  BY <1>0, <1>1, BehindIsAnOrder DEF InstallStarts
<1>2. ASSUME NEW k \in DOMAIN installed, InstallMoves(k)
      PROVE  Behind(installed[i], installed'[i])
  <2>1. DOMAIN installed' = DOMAIN installed /\ (i # k => installed'[i] = installed[i])
    BY <1>0, <1>2 DEF InstallMoves
  <2>2. CASE i = k
    <3>1. installed[k] \in InstallRecord
      BY <1>0, <2>2
    <3>2. \/ /\ installed[k].status = "running"
             /\ \E end \in UsedEnds :
                  installed'[k] = [installed[k] EXCEPT !.status = end, !.case = end # "passed"]
          \/ /\ installed[k].scan = "none"
             /\ \E scan \in {"running", "skipped"} : installed'[k] = [installed[k] EXCEPT !.scan = scan]
          \/ /\ installed[k].scan = "running"
             /\ \E scan \in {"clean", "malicious"} : installed'[k] = [installed[k] EXCEPT !.scan = scan]
      BY <1>2 DEF InstallMoves
    <3>3. QED
      BY <2>1, <2>2, <3>1, <3>2 DEF Behind, InstallRecord
  <2>3. QED
    BY <2>1, <2>2, BehindIsAnOrder
<1>3. CASE ~InstallStarts /\ ~\E k \in DOMAIN installed : InstallMoves(k)
  <2>1. installed' = installed
    BY <1>3 DEF InstallsNext, InstallListPoll, CloseInstall, SheetTick, CaseIsDecided, OpenInstall,
                InstallListReplied, InstallListTaken, InstallReplied, InstallTaken, SetInstallFilter,
                installsVars
  <2>2. QED
    BY <2>1, BehindIsAnOrder
<1>4. QED
  BY <1>1, <1>2, <1>3

\* What a step makes of the sheet that stays open.
SheetStep ==
  \/ installSheet' = installSheet
  \/ installSheet' = Reload(installSheet)
  \/ \E c \in installSheet.calls :
       \/ installSheet' = Replied(installSheet, c, installed[installId]) /\ installed' = installed
       \/ installSheet' = Broke(installSheet, c)
       \/ installSheet' = Took(installSheet, c)

LEMMA SheetSteps ==
  ASSUME [InstallsNext]_installsVars
  PROVE  \/ installId' # installId /\ installSheet' = NewLoad
         \/ installId' = installId /\ SheetStep
<1>1. ASSUME CloseInstall \/ \E i \in InstallIds : OpenInstall(i)
      PROVE  installId' # installId /\ installSheet' = NewLoad
  BY <1>1 DEF CloseInstall, OpenInstall
<1>2. CASE SheetTick
  BY <1>2 DEF SheetTick, SheetStep
<1>3. ASSUME NEW c \in installSheet.calls, InstallReplied(c) \/ InstallTaken(c)
      PROVE  installId' = installId /\ SheetStep
  BY <1>3 DEF InstallReplied, InstallTaken, SheetStep
<1>4. CASE \/ InstallStarts \/ InstallListPoll \/ UNCHANGED installsVars
           \/ \E i \in DOMAIN installed : InstallMoves(i)
           \/ \E i \in InstallIds : CaseIsDecided(i)
           \/ \E c \in installList.calls : InstallListReplied(c) \/ InstallListTaken(c)
           \/ \E f \in {"pending", "all", "warned"} : SetInstallFilter(f)
  BY <1>4 DEF InstallStarts, InstallListPoll, InstallMoves, CaseIsDecided, InstallListReplied,
              InstallListTaken, SetInstallFilter, installsVars, SheetStep
<1>5. QED
  BY <1>1, <1>2, <1>3, <1>4 DEF InstallsNext

\* The sheet that stays open is as new as it was, and no newer than the server.
LEMMA SheetStepKeepsInv ==
  ASSUME InstallsTyped, InstallsTyped', SheetInv, [InstallsNext]_installsVars,
         installId # 0, installId' = installId, SheetStep
  PROVE  /\ SheetInv'
         /\ installSheet.data # Nothing =>
              installSheet'.data # Nothing /\ Behind(installSheet.data, installSheet'.data)
<1> DEFINE old == installed[installId]
<1> DEFINE new == installed'[installId]
<1> DEFINE l == installSheet
<1>0. installId \in DOMAIN installed
  BY DEF InstallsTyped
<1>1. Behind(old, new)
  BY <1>0, InstallsOnlyMoveOn
<1>2. /\ l \in Loads(InstallRecord) /\ l' \in Loads(InstallRecord)
      /\ \A c \in l.calls : c.request.at = "answered" => c.request.data # Nothing
  <2>1. \A c \in l.calls : c.request \in Requests(InstallRecord)
    BY DEF InstallsTyped, Loads
  <2>2. QED
    BY <2>1, AnswerData, NoInstallIsNothing DEF InstallsTyped
<1> HIDE DEF old, new
<1>3. /\ l.data # Nothing => Behind(l.data, new)
      /\ \A c \in l.calls : c.live /\ c.request.at = "answered" =>
           /\ Behind(c.request.data, new)
           /\ l.data # Nothing => Behind(l.data, c.request.data)
  BY <1>1, BehindIsAnOrder DEF SheetInv, SheetBehindServer, old
<1>4. CASE l' = l
  BY <1>3, <1>4, BehindIsAnOrder DEF SheetInv, SheetBehindServer, OneLiveCall, new
<1>5. CASE l' = Reload(l)
  <2>1. l'.data = l.data /\ \A c \in l'.calls : ~(c.live /\ c.request.at = "answered")
    BY <1>2, <1>5, SheetAsks DEF Reload, Loads
  <2>2. OneLiveCall(l')
    BY <1>2, <1>5, LiveCalls DEF SheetInv
  <2>3. QED
    BY <1>3, <2>1, <2>2, BehindIsAnOrder DEF SheetInv, SheetBehindServer, new, OneLiveCall
<1>6. ASSUME NEW c \in l.calls, NEW r, l' = [l EXCEPT !.calls = (@ \ {c}) \cup {OneCall(r, c.live)}],
             c.live /\ r.at = "answered" => r.data = new, OneLiveCall(l')
      PROVE  SheetInv' /\ l'.data = l.data
  <2>1. l'.data = l.data /\ l'.calls = (l.calls \ {c}) \cup {OneCall(r, c.live)}
    BY <1>2, <1>6 DEF Loads
  <2>2. \A k \in l'.calls : k.live /\ k.request.at = "answered" =>
          /\ Behind(k.request.data, new)
          /\ l'.data # Nothing => Behind(l'.data, k.request.data)
    <3> SUFFICES ASSUME NEW k \in l'.calls, k.live, k.request.at = "answered"
                 PROVE  /\ Behind(k.request.data, new)
                        /\ l.data # Nothing => Behind(l.data, k.request.data)
      BY <2>1
    <3>1. CASE k \in l.calls
      BY <1>3, <3>1
    <3>2. CASE k = OneCall(r, c.live)
      <4>1. k.request = r /\ c.live
        BY <3>2 DEF OneCall
      <4>2. QED
        BY <1>3, <1>6, <4>1, BehindIsAnOrder
    <3>3. QED
      BY <2>1, <3>1, <3>2
  <2>3. QED
    BY <1>3, <1>6, <2>1, <2>2 DEF SheetInv, SheetBehindServer, OneLiveCall, new
<1>7. ASSUME NEW c \in l.calls, l' = Replied(l, c, old), installed' = installed
      PROVE  SheetInv' /\ l'.data = l.data
  <2>1. OneLiveCall(l')
    BY <1>2, <1>7, LiveCalls DEF SheetInv
  <2>2. Answer(old).data = new
    BY <1>7 DEF Answer, old, new
  <2>3. l' = [l EXCEPT !.calls = (@ \ {c}) \cup {OneCall(Answer(old), c.live)}]
    BY <1>7 DEF Replied
  <2>4. QED
    BY <1>6, <2>1, <2>2, <2>3
<1>8. ASSUME NEW c \in l.calls, l' = Broke(l, c) PROVE SheetInv' /\ l'.data = l.data
  <2>1. OneLiveCall(l')
    BY <1>2, <1>8, LiveCalls DEF SheetInv
  <2>2. Failed.at # "answered"
    BY DEF Failed
  <2>3. l' = [l EXCEPT !.calls = (@ \ {c}) \cup {OneCall(Failed, c.live)}]
    BY <1>8 DEF Broke
  <2>4. QED
    BY <1>6, <2>1, <2>2, <2>3
<1>9. ASSUME NEW c \in l.calls, l' = Took(l, c)
      PROVE  /\ SheetInv'
             /\ l.data # Nothing => l'.data # Nothing /\ Behind(l.data, l'.data)
  <2>1. /\ l'.data = IF c.live /\ c.request.at = "answered" THEN c.request.data ELSE l.data
        /\ l'.calls = l.calls \ {c}
    BY <1>9 DEF Took
  <2>2. OneLiveCall(l') /\ (c.live => \A k \in l'.calls : ~k.live)
    BY <1>2, <1>9, <2>1, LiveCalls DEF SheetInv
  <2>3. CASE c.live /\ c.request.at = "answered"
    <3>1. l'.data = c.request.data /\ Behind(l'.data, new) /\ c.request.data # Nothing
      BY <1>2, <1>3, <2>1, <2>3
    <3>2. QED
      BY <1>3, <2>2, <2>3, <3>1 DEF SheetInv, SheetBehindServer, OneLiveCall, new
  <2>4. CASE ~(c.live /\ c.request.at = "answered")
    BY <1>3, <2>1, <2>2, <2>4, BehindIsAnOrder DEF SheetInv, SheetBehindServer, OneLiveCall, new
  <2>5. QED
    BY <2>3, <2>4
<1>10. QED
  BY <1>4, <1>5, <1>7, <1>8, <1>9, BehindIsAnOrder DEF SheetStep, old

LEMMA SheetInvNext ==
  ASSUME InstallsTyped, InstallsTyped', SheetInv, [InstallsNext]_installsVars
  PROVE  SheetInv'
<1>1. CASE installSheet' = NewLoad
  <2>1. installSheet'.data = Nothing /\ \A c \in installSheet'.calls : c = OneCall(Sent, TRUE)
    BY <1>1 DEF NewLoad
  <2>2. \A c \in installSheet'.calls : c.request.at # "answered"
    BY <2>1 DEF OneCall, Sent
  <2>3. QED
    BY <2>1, <2>2 DEF SheetInv, SheetBehindServer, OneLiveCall
<1>2. CASE installId' = installId /\ SheetStep /\ installId # 0
  BY <1>2, SheetStepKeepsInv
<1>3. CASE installId' = installId /\ SheetStep /\ installId = 0
  <2>1. OneLiveCall(installSheet')
    BY <1>3, LiveCalls DEF SheetStep, SheetInv, InstallsTyped, OneLiveCall
  <2>2. QED
    BY <1>3, <2>1 DEF SheetInv, SheetBehindServer, OneLiveCall
<1>4. QED
  BY <1>1, <1>2, <1>3, SheetSteps

\* What is shown of a session only moves on while its sheet is open.
SheetOnlyMovesOn ==
  [][installId # 0 /\ installId' = installId /\ installSheet.data # Nothing =>
       installSheet'.data # Nothing /\ Behind(installSheet.data, installSheet'.data)]_installsVars

\* The sheet never shows more of a session than the server has, and never goes
\* back to an older state of it, however slow its polls are answered: the safe
\* half of InstallSheetSettles (InstallSheet.tsx, useLoad of lib/useLoad.ts).
THEOREM InstallSheetMovesOn == InstallsSpec => []SheetBehindServer /\ SheetOnlyMovesOn
<1>1. InstallsInit => SheetInv
  <2>1. OneLiveCall(NewLoad)
    BY DEF OneLiveCall, NewLoad
  <2>2. QED
    BY <2>1 DEF InstallsInit, SheetInv, SheetBehindServer
<1>2. InstallsTyped /\ InstallsTyped' /\ SheetInv /\ [InstallsNext]_installsVars => SheetInv'
  BY SheetInvNext
<1>3. InstallsTyped /\ InstallsTyped' /\ SheetInv /\ [InstallsNext]_installsVars =>
        [installId # 0 /\ installId' = installId /\ installSheet.data # Nothing =>
           installSheet'.data # Nothing /\ Behind(installSheet.data, installSheet'.data)]_installsVars
  BY SheetSteps, SheetStepKeepsInv
<1>4. SheetInv => SheetBehindServer
  BY DEF SheetInv
<1>5. QED
  BY <1>1, <1>2, <1>3, <1>4, InstallsTypedInit, InstallsTypedNext, PTL
     DEF InstallsSpec, SheetOnlyMovesOn


-----------------------------------------------------------------------------
(* The supply chain page. *)

\* The rows of a list are scans, no more than there are.
LEMMA RowsBounded ==
  ASSUME NEW data, NEW f
  PROVE  Rows(data, f) \in Seq(ScanIds) /\ Len(Rows(data, f)) <= MaxScan
<1> DEFINE all == [i \in 1 .. MaxScan |-> MaxScan + 1 - i]
           listed == {s \in ScanIds : data[s] # "none" /\ (f = "" \/ data[s] = f)}
<1>1. all \in Seq(ScanIds) /\ Len(all) = MaxScan
  BY ScansAssumption DEF ScanIds
<1> HIDE DEF all, listed
<1>2. Filtered(all, listed) \in Seq(ScanIds)
  BY <1>1, FilteredRange
<1>3. Len(Filtered(all, listed)) <= Len(all)
  BY <1>1, FilteredLen
<1>4. Rows(data, f) = Filtered(all, listed)
  BY DEF Rows, all, listed
<1>5. QED
  BY <1>1, <1>2, <1>3, <1>4

\* The page of a row is at most its place.
LEMMA PageOfBounded ==
  ASSUME NEW rs \in Seq(ScanIds), NEW r, NEW n \in Nat, Len(rs) <= n, NEW p \in 1 .. n + 1
  PROVE  PageOf(rs, r, p) \in 1 .. n + 1
<1> DEFINE at == {i \in DOMAIN rs : rs[i] = r}
           i == CHOOSE j \in at : TRUE
<1>1. CASE at = {}
  BY <1>1 DEF PageOf
<1>2. CASE at # {}
  <2>1. i \in at
    BY <1>2
  <2>2. i \in 1 .. Len(rs) /\ Len(rs) \in Nat
    BY <2>1, LenProperties
  <2>3. PageOf(rs, r, p) = (i - 1) \div PerPage + 1
    BY <1>2 DEF PageOf
  <2> HIDE DEF i
  <2>4. i - 1 \in Nat /\ i - 1 < n
    BY <2>2
  <2>5. \A a \in Nat, b \in Nat \ {0} : a \div b \in Nat /\ a \div b <= a
    OBVIOUS
  <2>6. (i - 1) \div PerPage \in Nat /\ (i - 1) \div PerPage <= i - 1
    BY <2>4, <2>5, TableKitAssumption
  <2>7. QED
    BY <2>3, <2>4, <2>6
<1>3. QED
  BY <1>1, <1>2

SheetVerdicts == {"running", "clean", "malicious"}

LEMMA ReopenTyped ==
  /\ NewLoad \in Loads(SheetVerdicts) /\ Reload(NewLoad) \in Loads(SheetVerdicts)
  /\ NewLoad \in Loads(ScanTables)
BY NewLoadTyped, ReloadTyped

LEMMA ListTakenTyped ==
  ASSUME ScansTypeOK, NEW c \in scanList.calls, ListTaken(c)
  PROVE  ScansTypeOK'
<1>1. scanList' \in Loads(ScanTables)
  BY TookTyped DEF ListTaken, ScansTypeOK
<1>2. sheet' \in Loads({"running", "clean", "malicious"})
  <2>1. sheet' = sheet \/ sheet' = Reload(sheet)
    BY DEF ListTaken, SheetHears, sheetPart
  <2>2. QED
    BY <2>1, ReloadTyped DEF ScansTypeOK
<1>3. kitPage' \in 1 .. MaxScan + 1
  <2>1. \A data, f : PageOf(Rows(data, f), selId, kitPage) \in 1 .. MaxScan + 1
    BY RowsBounded, PageOfBounded, ScansAssumption DEF ScansTypeOK
  <2>2. kitPage' = kitPage \/ kitPage' = PageOf(Rows(scanList'.data, scanFilter), selId, kitPage)
    BY DEF ListTaken
  <2>3. QED
    BY <2>1, <2>2 DEF ScansTypeOK
<1>4. QED
  BY <1>1, <1>2, <1>3 DEF ListTaken, ScansTypeOK

LEMMA ScanEndsTyped ==
  ASSUME ScansTypeOK, NEW s \in ScanIds, ScanEnds(s) \/ ScansChange(s)
  PROVE  ScansTypeOK'
<1>1. \A v \in {"none", "running", "clean", "malicious"} : [scans EXCEPT ![s] = v] \in ScanTables
  BY DEF ScansTypeOK, ScanTables
<1>2. scans' \in ScanTables
  BY <1>1 DEF ScanEnds, ScansChange
<1>3. QED
  BY <1>2 DEF ScanEnds, ScansChange, ScansTypeOK, listPart, sheetPart

LEMMA SheetRepliedTyped ==
  ASSUME ScansTypeOK, NEW c \in sheet.calls, SheetReplied(c)
  PROVE  ScansTypeOK'
<1>1. scans[selId] # "none" => scans[selId] \in {"running", "clean", "malicious"}
  BY ScansAssumption DEF ScansTypeOK, ScanTables, ScanIds, SheetReplied
<1>2. sheet' \in Loads({"running", "clean", "malicious"})
  BY <1>1, RepliedTyped DEF SheetReplied, ScansTypeOK
<1>3. QED
  BY <1>2 DEF SheetReplied, ScansTypeOK, listPart

LEMMA ScansTypedNext ==
  ScansTypeOK /\ [ScansNext]_scansVars => ScansTypeOK'
<1> SUFFICES ASSUME ScansTypeOK, [ScansNext]_scansVars PROVE ScansTypeOK'
  OBVIOUS
<1>1. CASE UNCHANGED scansVars
  BY <1>1 DEF scansVars, listPart, sheetPart, ScansTypeOK
<1>2. ASSUME NEW s \in ScanIds, ScanEnds(s) \/ ScansChange(s) PROVE ScansTypeOK'
  BY <1>2, ScanEndsTyped
<1>3. ASSUME NEW s \in ScanIds, SelectScan(s) PROVE ScansTypeOK'
  BY <1>3, ReopenTyped, ScansAssumption
     DEF SelectScan, OpenSheet, ScansTypeOK, ScanIds, SheetVerdicts
<1>4. ASSUME NEW s \in ScanIds, SetPage(s) PROVE ScansTypeOK'
  BY <1>4, ScansAssumption DEF SetPage, ScansTypeOK, sheetPart, ScanIds
<1>5. ASSUME NEW c \in scanList.calls, ListReplied(c) PROVE ScansTypeOK'
  BY <1>5, RepliedTyped DEF ListReplied, ScansTypeOK, sheetPart
<1>6. ASSUME NEW c \in scanList.calls, ListTaken(c) PROVE ScansTypeOK'
  BY <1>6, ListTakenTyped
<1>7. ASSUME NEW c \in sheet.calls, SheetReplied(c) PROVE ScansTypeOK'
  BY <1>7, SheetRepliedTyped
<1>8. ASSUME NEW c \in sheet.calls, SheetTaken(c) PROVE ScansTypeOK'
  BY <1>8, TookTyped DEF SheetTaken, ScansTypeOK, listPart
<1>9. ASSUME NEW f, SetFilter(f) PROVE ScansTypeOK'
  BY <1>9, ScansAssumption DEF SetFilter, ScansTypeOK, sheetPart
<1>10. CASE ScanPoll
  BY <1>10, ReloadTyped DEF ScanPoll, ScansTypeOK, sheetPart
<1>11. CASE CloseSheet
  BY <1>11, ReopenTyped, ScansAssumption DEF CloseSheet, Close, ScansTypeOK, SheetVerdicts
<1>12. CASE Start
  BY <1>12, RequestOf DEF Start, ScansTypeOK, listPart, sheetPart, Requests
<1>13. CASE StartAnswered
  <2>1. \A s \in ScanIds : [scans EXCEPT ![s] = "running"] \in ScanTables
    BY DEF ScansTypeOK, ScanTables
  <2>2. scans' \in ScanTables
    BY <1>13, <2>1 DEF StartAnswered, ScansTypeOK
  <2>4. \A s \in ScanIds : Answer(s) \in Requests(ScanIds)
    BY RequestOf
  <2>5. startReq' \in Requests(ScanIds)
    <3>1. startReq' = Failed \/ \E s \in ScanIds : startReq' = Answer(s)
      BY <1>13 DEF StartAnswered
    <3>2. QED
      BY <2>4, <3>1 DEF Requests
  <2>3. QED
    BY <1>13, <2>2, <2>5 DEF StartAnswered, ScansTypeOK, listPart, sheetPart
<1>14. CASE StartTaken
  <2>1. scanList' \in Loads(ScanTables) /\ sheet' \in Loads({"running", "clean", "malicious"})
        /\ selId' \in 0 .. MaxScan
    BY <1>14, ReopenTyped, ReloadTyped, ScansAssumption
       DEF StartTaken, Close, ScansTypeOK, sheetPart, SheetVerdicts
  <2>2. startReq' \in Requests(ScanIds)
    BY <1>14 DEF StartTaken, Requests
  <2>3. QED
    BY <1>14, <2>1, <2>2 DEF StartTaken, ScansTypeOK
<1>15. CASE PkgBlocklistTaken \/ PickPackage \/ AskBlock
  BY <1>15 DEF PkgBlocklistTaken, PickPackage, AskBlock, ScansTypeOK, listPart, sheetPart
<1>16. CASE BlockConfirmed
  <2>1. sheet' \in Loads({"running", "clean", "malicious"}) /\ scanList' \in Loads(ScanTables)
    BY <1>16, ReopenTyped DEF BlockConfirmed, Close, SheetVerdicts, ScansTypeOK
  <2>2. UNCHANGED <<scans, startReq>> /\ selId' = 0 /\ kitPage' = 1
    BY <1>16 DEF BlockConfirmed, Close
  <2>3. QED
    BY <2>1, <2>2, ScansAssumption DEF ScansTypeOK
<1>17. QED
  BY <1>1, <1>2, <1>3, <1>4, <1>5, <1>6, <1>7, <1>8, <1>9, <1>10, <1>11, <1>12, <1>13, <1>14,
     <1>15, <1>16 DEF ScansNext

LEMMA ScansTypedInit == ScansInit => ScansTypeOK
<1> SUFFICES ASSUME ScansInit PROVE ScansTypeOK
  OBVIOUS
<1>1. scans \in ScanTables
  BY DEF ScansInit, FirstScans, ScanTables
<1>2. sheet \in Loads({"running", "clean", "malicious"})
  BY ReopenTyped DEF ScansInit, SheetVerdicts
<1>3. startReq \in Requests(ScanIds)
  BY DEF ScansInit, Requests
<1>4. scanList \in Loads(ScanTables)
  BY ReopenTyped DEF ScansInit
<1>5. selId \in 0 .. MaxScan /\ kitPage \in 1 .. MaxScan + 1
  <2>1. (selId = 0 \/ selId = 1) /\ kitPage = 1
    BY DEF ScansInit
  <2>2. QED
    BY <2>1, ScansAssumption
<1>6. QED
  BY <1>1, <1>2, <1>3, <1>4, <1>5 DEF ScansTypeOK

\* The supply chain page keeps its types: the scan selected is one there may be,
\* its sheet holds a state of a scan, and the page number stays between 1 and the
\* number of scans and one.  It may lie past the last page of a list that shrank:
\* nothing moves it back (ScansPage.tsx).
THEOREM ScansTypes == ScansSpec => []ScansTypeOK
BY ScansTypedInit, ScansTypedNext, PTL DEF ScansSpec

-----------------------------------------------------------------------------
(* The wizard. *)

\* A wizard has its fields, and remembers sessions there may be.
Wizards(w) ==
  w \in [scenario : {Nothing, "single", "multi", "install"}, step : 1 .. 3, single : {w.single},
         multi : {w.multi}, install : {w.install}, armedAt : {w.armedAt},
         since : 0 .. MaxSessionsRun \cup {Nothing}, target : {w.target}]

SessionLists == Seq(SessionRecord)

WizardTyped ==
  /\ watchedNow \subseteq Names /\ probe \in Probes
  /\ sessions \in SessionLists /\ Len(sessions) <= MaxSessionsRun
  /\ integration \in IntegrationRecord \cup {Nothing}
  /\ Wizards(wizard)
  /\ storedWizard # Nothing => Wizards(storedWizard)
  /\ installs \in Loads(SessionLists) \cup {Nothing}
  /\ installs # Nothing <=> integration # Nothing /\ Applying(wizard)

LEMMA FreshWizardTyped ==
  ASSUME NEW sc \in {Nothing, "single", "multi", "install"}
  PROVE  Wizards(FreshWizard(sc))
BY DEF FreshWizard, Wizards

\* What is mounted is a load exactly where there is something to show it on.
LEMMA MountedForTyped ==
  ASSUME NEW w
  PROVE  /\ MountedFor(w) \in Loads(SessionLists) \cup {Nothing}
         /\ MountedFor(w) # Nothing <=> Applying(w)
BY NewLoadTyped, NothingAssumption DEF MountedFor, SessionLists

LEMMA SetTyped ==
  ASSUME WizardTyped, NEW w, Wizards(w), set(w)
  PROVE  WizardTyped'
<1> USE DEF WizardTyped
<1>1. /\ installs' \in Loads(SessionLists) \cup {Nothing}
      /\ installs' # Nothing <=> Applying(w)
  <2>1. CASE installs' = MountedFor(w)
    BY <2>1, MountedForTyped
  <2>2. CASE installs' # MountedFor(w)
    <3>1. /\ installs # Nothing /\ Applying(w)
          /\ installs' = Reload(installs) \/ installs' = installs
      BY <2>2 DEF set, Mounted
    <3>2. installs' \in Loads(SessionLists)
      BY <3>1, ReloadTyped
    <3>3. QED
      BY <3>1, <3>2, NothingAssumption DEF SessionLists
  <2>3. QED
    BY <2>1, <2>2
<1>2. Applying(wizard)' <=> Applying(w)
  BY DEF set, Applying
<1>3. integration' # Nothing /\ UNCHANGED <<wizardServer, integration>> /\ wizard' = w
      /\ (storedWizard' = w \/ storedWizard' = storedWizard)
  BY DEF set
<1>4. QED
  BY <1>1, <1>2, <1>3 DEF wizardServer, Wizards

LEMMA InputsTyped ==
  ASSUME WizardTyped, NEW w \in Inputs
  PROVE  Wizards(w)
BY DEF WizardTyped, Wizards, Inputs

LEMMA WizardServerTyped ==
  ASSUME WizardTyped,
         \/ \E n \in Names : ContainersChange(n) \/ Violates(n)
         \/ \E p \in Packages : InstallRuns(p)
         \/ \E i \in DOMAIN sessions : InstallEnds(i)
         \/ ProbeEnds \/ StartProbe \/ ProbeAnswered
  PROVE  WizardTyped'
<1>1. UNCHANGED <<wizard, integration, storedWizard, installs>>
  BY DEF ContainersChange, Violates, InstallRuns, InstallEnds, ProbeEnds, StartProbe, ProbeAnswered,
         wizardServer
<1>2. watchedNow' \subseteq Names /\ probe' \in Probes
  BY DEF ContainersChange, Violates, InstallRuns, InstallEnds, ProbeEnds, StartProbe, ProbeAnswered,
         wizardServer, WizardTyped, Probes
<1>3. sessions' \in SessionLists /\ Len(sessions') <= MaxSessionsRun
  <2>1. CASE UNCHANGED sessions
    BY <2>1 DEF WizardTyped
  <2>2. ASSUME NEW p \in Packages, InstallRuns(p) PROVE sessions' \in SessionLists /\ Len(sessions') <= MaxSessionsRun
    <3>1. [pkg |-> p, status |-> "running"] \in SessionRecord
      BY DEF SessionRecord
    <3>2. QED
      BY <2>2, <3>1, WizardAssumption DEF InstallRuns, WizardTyped, SessionLists
  <2>3. ASSUME NEW i \in DOMAIN sessions, InstallEnds(i) PROVE sessions' \in SessionLists /\ Len(sessions') <= MaxSessionsRun
    <3>1. i \in 1 .. Len(sessions) /\ sessions[i] \in SessionRecord
      BY DEF WizardTyped, SessionLists
    <3>2. PICK st \in {"passed", "violated"} : sessions' = [sessions EXCEPT ![i].status = st]
      BY <2>3 DEF InstallEnds
    <3>3. sessions' = [sessions EXCEPT ![i] = [sessions[i] EXCEPT !.status = st]]
      BY <3>2
    <3>4. [sessions[i] EXCEPT !.status = st] \in SessionRecord
      BY <3>1 DEF SessionRecord
    <3>5. sessions' \in SessionLists /\ Len(sessions') = Len(sessions)
      BY <3>1, <3>3, <3>4, ExceptSeq DEF WizardTyped, SessionLists
    <3>6. QED
      BY <3>5 DEF WizardTyped
  <2>4. \/ UNCHANGED sessions
        \/ \E p \in Packages : InstallRuns(p)
        \/ \E i \in DOMAIN sessions : InstallEnds(i)
    BY DEF ContainersChange, Violates, ProbeEnds, StartProbe, ProbeAnswered, wizardServer
  <2>5. QED
    BY <2>1, <2>2, <2>3, <2>4
<1>4. Applying(wizard)' <=> Applying(wizard)
  BY <1>1 DEF Applying
<1>5. QED
  BY <1>1, <1>2, <1>3, <1>4 DEF WizardTyped, Wizards

LEMMA WizardUserTyped ==
  ASSUME WizardTyped,
         \/ \E n \in Names : PickTarget(n)
         \/ \E sc \in {"single", "multi", "install"} : PickScenario(sc)
         \/ \E w \in Inputs : Fill(w)
         \/ \E n \in 1 .. 3 : GoToStep(n)
         \/ StartOver \/ CopyTest \/ CopyInstall \/ SessionFound
  PROVE  WizardTyped'
<1>1. ASSUME NEW sc \in {"single", "multi", "install"}
      PROVE  Wizards([wizard EXCEPT !.scenario = sc, !.step = 1, !.armedAt = Nothing,
                                    !.since = Nothing, !.target = Nothing])
  <2> DEFINE w0 == [wizard EXCEPT !.scenario = sc]
             w1 == [w0 EXCEPT !.step = 1]
             w2 == [w1 EXCEPT !.armedAt = Nothing, !.since = Nothing]
  <2>0. Wizards(w0)
    BY DEF WizardTyped, Wizards
  <2> HIDE DEF w0
  <2>1. Wizards(w1)
    BY <2>0 DEF Wizards
  <2> HIDE DEF w1
  <2>2. Wizards(w2)
    BY <2>1 DEF Wizards
  <2> HIDE DEF w2
  <2>3. Wizards([w2 EXCEPT !.target = Nothing])
    BY <2>2 DEF Wizards
  <2>4. QED
    BY <2>3 DEF w0, w1, w2
<1>2. \A n \in 1 .. 3 : Wizards([wizard EXCEPT !.step = n])
  BY DEF WizardTyped, Wizards
<1>3. Wizards(FreshWizard(wizard.scenario))
  BY FreshWizardTyped DEF WizardTyped, Wizards
<1>4. \A n : Wizards([wizard EXCEPT !.armedAt = n])
  BY DEF WizardTyped, Wizards
<1>5. ASSUME NEW n PROVE Wizards([wizard EXCEPT !.target = n, !.armedAt = Nothing])
  BY DEF WizardTyped, Wizards
<1>6. \A n \in {Len(sessions), Len(sessions) - 1} \cap Nat : Wizards([wizard EXCEPT !.since = n])
  <2>1. \A n \in {Len(sessions), Len(sessions) - 1} \cap Nat : n \in 0 .. MaxSessionsRun
    BY WizardAssumption DEF WizardTyped, SessionLists
  <2>2. QED
    BY <2>1 DEF WizardTyped, Wizards
<1>7. \E w : Wizards(w) /\ set(w)
  <2>1. ASSUME NEW n \in Names, PickTarget(n) PROVE <1>7
    BY <1>5, <2>1 DEF PickTarget
  <2>2. ASSUME NEW sc \in {"single", "multi", "install"}, PickScenario(sc) PROVE <1>7
    BY <1>1, <2>2 DEF PickScenario
  <2>3. ASSUME NEW w \in Inputs, Fill(w) PROVE <1>7
    BY <2>3, InputsTyped DEF Fill
  <2>4. ASSUME NEW n \in 1 .. 3, GoToStep(n) PROVE <1>7
    BY <1>2, <2>4 DEF GoToStep
  <2>5. CASE StartOver
    BY <1>3, <2>5 DEF StartOver
  <2>6. CASE CopyTest
    BY <1>4, <2>6 DEF CopyTest
  <2>7. CASE CopyInstall
    BY <1>6, <2>7 DEF CopyInstall
  <2>8. CASE SessionFound
    BY <1>2, <2>8 DEF SessionFound
  <2>9. QED
    BY <2>1, <2>2, <2>3, <2>4, <2>5, <2>6, <2>7, <2>8
<1>8. QED
  BY <1>7, SetTyped

LEMMA WizardTypedNext ==
  WizardTyped /\ [WizardNext]_wizardVars => WizardTyped'
<1> SUFFICES ASSUME WizardTyped, [WizardNext]_wizardVars PROVE WizardTyped'
  OBVIOUS
<1>1. CASE UNCHANGED wizardVars
  BY <1>1 DEF wizardVars, wizardServer, WizardTyped, Wizards, Applying
<1>2. CASE \/ \E n \in Names : ContainersChange(n) \/ Violates(n)
           \/ \E p \in Packages : InstallRuns(p)
           \/ \E i \in DOMAIN sessions : InstallEnds(i)
           \/ ProbeEnds \/ StartProbe \/ ProbeAnswered
  BY <1>2, WizardServerTyped
<1>3. CASE \/ \E n \in Names : PickTarget(n)
           \/ \E sc \in {"single", "multi", "install"} : PickScenario(sc)
           \/ \E w \in Inputs : Fill(w)
           \/ \E n \in 1 .. 3 : GoToStep(n)
           \/ StartOver \/ CopyTest \/ CopyInstall \/ SessionFound
  BY <1>3, WizardUserTyped
<1>4. ASSUME \/ \E c \in InstallsCalls : InstallsReplied(c) \/ InstallsTaken(c)
             \/ InstallPoll
      PROVE  WizardTyped'
  <2>1. installs # Nothing
    BY <1>4 DEF InstallsCalls, InstallPoll
  <2>2. installs \in Loads(SessionLists)
    BY <2>1 DEF WizardTyped
  <2>3. installs' \in Loads(SessionLists)
    BY <1>4, <2>1, <2>2, ReloadTyped, RepliedTyped, TookTyped
       DEF InstallsCalls, InstallPoll, InstallsReplied, InstallsTaken, WizardTyped
  <2>4. installs' # Nothing
    BY <2>3, NothingAssumption DEF SessionLists
  <2>5. UNCHANGED <<wizardServer, integration, wizard, storedWizard>>
    BY <1>4 DEF InstallPoll, InstallsReplied, InstallsTaken
  <2>6. QED
    BY <2>1, <2>3, <2>4, <2>5 DEF WizardTyped, Wizards, Applying, wizardServer
<1>5. CASE IntegrationPoll
  <2>1. integration' \in IntegrationRecord
    BY <1>5 DEF IntegrationPoll, IntegrationRecord, WizardTyped
  <2>2. integration' # Nothing
    BY <2>1, NothingAssumption
  <2>3. /\ installs' \in Loads(SessionLists) \cup {Nothing}
        /\ installs' # Nothing <=> Applying(wizard)
    BY <1>5, MountedForTyped DEF IntegrationPoll, WizardTyped
  <2>4. QED
    BY <1>5, <2>1, <2>2, <2>3 DEF IntegrationPoll, WizardTyped, Wizards, Applying, wizardServer
<1>6. CASE ReloadPage
  <2>1. Wizards(wizard')
    BY <1>6, FreshWizardTyped DEF ReloadPage, WizardTyped
  <2>2. QED
    BY <1>6, <2>1 DEF ReloadPage, WizardTyped, Wizards, wizardServer
<1>7. QED
  BY <1>1, <1>2, <1>3, <1>4, <1>5, <1>6 DEF WizardNext

LEMMA WizardTypedInit == WizardInit => WizardTyped
<1> SUFFICES ASSUME WizardInit PROVE WizardTyped
  OBVIOUS
<1>1. Wizards(wizard) /\ (storedWizard # Nothing => storedWizard = wizard)
  <2>1. ASSUME NEW sc \in {Nothing, "single", "multi", "install"}
        PROVE  /\ Wizards(FreshWizard(sc)) /\ Wizards([FreshWizard(sc) EXCEPT !.install = BadInput])
               /\ Wizards([FreshWizard(sc) EXCEPT !.step = 3])
    <3> DEFINE w == FreshWizard(sc)
    <3>1. Wizards(w)
      BY FreshWizardTyped
    <3> HIDE DEF w
    <3>2. \A i : Wizards([w EXCEPT !.install = i])
      BY <3>1 DEF Wizards
    <3>3. Wizards([w EXCEPT !.step = 3])
      BY <3>1 DEF Wizards
    <3>4. QED
      BY <3>1, <3>2, <3>3 DEF w
  <2>2. QED
    BY <2>1 DEF WizardInit
<1>2. QED
  BY <1>1, WizardAssumption DEF WizardInit, WizardTyped, Probes, SessionLists

LEMMA WizardTypesFollow == WizardTyped => WizardTypeOK
<1>1. allDetected(wizard) \in BOOLEAN
  BY DEF allDetected
<1>2. testVerdict(wizard) \in BOOLEAN
  BY DEF testVerdict
<1>3. QED
  BY <1>1, <1>2 DEF WizardTyped, WizardTypeOK, Wizards, Probes

\* The integration page and its wizard keep their types, over page loads that
\* take the wizard from the storage: it waits for sessions since one there was,
\* and the list of installs is loaded exactly while the integration is known and
\* its step shows the installs (IntegrationPage.tsx).
THEOREM WizardTypes == WizardSpec => []WizardTypeOK
BY WizardTypedInit, WizardTypedNext, WizardTypesFollow, PTL DEF WizardSpec


-----------------------------------------------------------------------------
(* The cases. *)

DecideAnswers == {Idle, Sent, Failed, Refused, Answer("decided")}
DecideRecords == [request : DecideAnswers, case : CaseIds \cup {Nothing}, held : BOOLEAN]

\* A decision that is under way or answered is about a case.
DecidesTyped ==
  /\ decides \in [1 .. MaxDecides -> DecideRecords]
  /\ \A i \in 1 .. MaxDecides : decides[i].request # Idle => decides[i].case \in CaseIds

CasesTyped == CasesTypeOK /\ pushed \in Seq(Messages) /\ DecidesTyped

LEMMA CasesTypedInit == CasesInit => CasesTyped
<1> SUFFICES ASSUME CasesInit PROVE CasesTyped
  OBVIOUS
<1>1. NoDecide \in DecideRecords /\ NoDecide.request = Idle
  BY DEF NoDecide, Decide, DecideRecords, DecideAnswers
<1>2. DecidesTyped
  BY <1>1 DEF CasesInit, DecidesTyped
<1>3. stored \in Tables /\ casesGet \in Requests(Tables)
  BY DEF CasesInit, Tables, CaseStates, Requests
<1>4. cases = Nothing /\ readPending = Nothing /\ box = Nothing /\ pushed \in Seq(Messages)
  BY DEF CasesInit
<1>5. casesDue \in BOOLEAN
  BY DEF CasesInit
<1>6. QED
  BY <1>2, <1>3, <1>4, <1>5 DEF CasesTyped, CasesTypeOK

LEMMA PushTyped ==
  ASSUME CasesTyped, NEW c \in CaseIds, NEW st \in CaseStates, Push(c, st)
  PROVE  pushed' \in Seq(Messages)
<1>1. [case |-> c, state |-> st] \in Messages
  BY DEF Messages
<1>2. Append(pushed, [case |-> c, state |-> st]) \in Seq(Messages)
  BY <1>1, AppendProperties DEF CasesTyped
<1>3. QED
  BY <1>2 DEF Push, CasesTyped

LEMMA UpsertTyped ==
  ASSUME CasesTyped, NEW c \in CaseIds, NEW st \in CaseStates, upsert(c, st)
  PROVE  cases' \in Tables
<1>1. NoCases \in Tables
  BY DEF NoCases, Tables, CaseStates
<1>2. QED
  BY <1>1 DEF upsert, CasesTyped, CasesTypeOK, Tables

\* A decision becomes another record.
LEMMA DecidePut ==
  ASSUME DecidesTyped, NEW i \in 1 .. MaxDecides, NEW d \in DecideRecords,
         d.request # Idle => d.case \in CaseIds,
         decides' = [decides EXCEPT ![i] = d]
  PROVE  DecidesTyped'
BY DEF DecidesTyped

LEMMA ServerDecidesTyped ==
  ASSUME CasesTyped, NEW i \in 1 .. MaxDecides, ServerDecides(i)
  PROVE  CasesTyped'
<1> DEFINE d == decides[i]
<1>1. d \in DecideRecords /\ d.case \in CaseIds
  <2>1. d.request = Sent
    BY DEF ServerDecides
  <2>2. QED
    BY <2>1 DEF CasesTyped, DecidesTyped, Sent, Idle
<1>2. \E r \in DecideAnswers : decides' = [decides EXCEPT ![i].request = r]
  BY DEF ServerDecides, DecideAnswers
<1>3. PICK r \in DecideAnswers : decides' = [decides EXCEPT ![i].request = r]
  BY <1>2
<1>4. [d EXCEPT !.request = r] \in DecideRecords /\ [d EXCEPT !.request = r].case \in CaseIds
  BY <1>1 DEF DecideRecords
<1>5. decides' = [decides EXCEPT ![i] = [d EXCEPT !.request = r]]
  BY <1>3
<1>6. DecidesTyped'
  BY <1>4, <1>5, DecidePut DEF CasesTyped
<1>7. stored' \in Tables
  BY <1>1 DEF ServerDecides, CasesTyped, CasesTypeOK, Tables, CaseStates
<1>8. pushed' \in Seq(Messages)
  <2>1. Push(d.case, "decided") \/ UNCHANGED pushed
    BY DEF ServerDecides
  <2>2. QED
    BY <1>1, <2>1, PushTyped DEF CasesTyped, CaseStates
<1>9. QED
  BY <1>6, <1>7, <1>8 DEF ServerDecides, CasesTyped, CasesTypeOK, listOfCases, bellVars

LEMMA DecideTakenTyped ==
  ASSUME CasesTyped, NEW i \in 1 .. MaxDecides, DecideTaken(i)
  PROVE  CasesTyped'
<1> DEFINE d == decides[i]
<1>1. d \in DecideRecords /\ d.case \in CaseIds
  <2>1. d.request # Idle
    BY DEF DecideTaken, Idle
  <2>2. QED
    BY <2>1 DEF CasesTyped, DecidesTyped
<1>2. Decide(Idle, d.case, FALSE) \in DecideRecords /\ Decide(Idle, d.case, FALSE).request = Idle
  BY <1>1 DEF Decide, DecideRecords, DecideAnswers
<1>3. DecidesTyped'
  BY <1>2, DecidePut DEF DecideTaken, CasesTyped
<1>4. d.request.at = "answered" => d.request.data = "decided"
  BY <1>1 DEF DecideRecords, DecideAnswers, Idle, Sent, Failed, Refused, Answer
<1>5. cases' \in Tables \cup {Nothing}
  <2>1. CASE d.request.at = "answered" /\ upsert(d.case, d.request.data)
    BY <1>1, <1>4, <2>1, UpsertTyped DEF CaseStates
  <2>2. CASE UNCHANGED cases
    BY <2>2 DEF CasesTyped, CasesTypeOK
  <2>3. QED
    BY <2>1, <2>2 DEF DecideTaken
<1>6. casesGet' \in Requests(Tables) /\ casesDue' \in BOOLEAN
  BY DEF DecideTaken, CasesTyped, CasesTypeOK
<1>7. QED
  BY <1>3, <1>5, <1>6 DEF DecideTaken, CasesTyped, CasesTypeOK, feedVars, bellVars

LEMMA CasesTypedNext == CasesTyped /\ [CasesNext]_casesVars => CasesTyped'
<1> SUFFICES ASSUME CasesTyped, [CasesNext]_casesVars PROVE CasesTyped'
  OBVIOUS
<1> USE DEF CasesTyped, CasesTypeOK
<1>0. DOMAIN decides = 1 .. MaxDecides
  BY DEF DecidesTyped
<1>1. CASE UNCHANGED casesVars
  BY <1>1 DEF casesVars, feedVars, listOfCases, boxVars, bellVars, DecidesTyped
<1>2. ASSUME NEW c \in CaseIds, NEW st \in CaseStates, CaseChanges(c, st) PROVE CasesTyped'
  <2>1. stored' \in Tables
    BY <1>2 DEF CaseChanges, Tables
  <2>2. pushed' \in Seq(Messages)
    BY <1>2, PushTyped DEF CaseChanges
  <2>3. QED
    BY <1>2, <2>1, <2>2 DEF CaseChanges, listOfCases, boxVars, bellVars, DecidesTyped
<1>3. CASE CaseServerAnswers
  <2>1. casesGet' \in Requests(Tables)
    BY <1>3, RequestOf DEF CaseServerAnswers
  <2>2. QED
    BY <1>3, <2>1 DEF CaseServerAnswers, feedVars, boxVars, bellVars, DecidesTyped
<1>4. CASE CaseServerFails
  BY <1>4 DEF CaseServerFails, Requests, feedVars, boxVars, bellVars, DecidesTyped
<1>5. CASE FeedOpens \/ FeedBreaks
  <2>1. casesDue' = TRUE /\ (pushed' = pushed \/ pushed' = <<>>)
        /\ UNCHANGED <<stored, cases, casesGet, boxVars, bellVars>>
    BY <1>5 DEF FeedOpens, FeedBreaks
  <2>3. DecidesTyped'
    BY <2>1 DEF DecidesTyped, boxVars
  <2>5. pushed' \in Seq(Messages)
    <3>1. <<>> \in Seq(Messages)
      OBVIOUS
    <3>2. pushed' = pushed \/ pushed' = <<>>
      BY <2>1
    <3>3. QED
      BY <3>1, <3>2
  <2>4. QED
    BY <2>1, <2>3, <2>5 DEF boxVars, bellVars
<1>6. CASE CasesTaken
  <2>1. casesGet.at = "answered" => casesGet.data \in Tables
    BY AnswerData
  <2>2. casesGet' \in Requests(Tables)
    BY <1>6 DEF CasesTaken, Requests
  <2>3. QED
    BY <1>6, <2>1, <2>2 DEF CasesTaken, feedVars, bellVars, DecidesTyped
<1>7. CASE PushTaken
  <2>1. Head(pushed) \in Messages /\ pushed' \in Seq(Messages)
    BY <1>7, HeadTailProperties DEF PushTaken
  <2>2. cases' \in Tables
    BY <1>7, <2>1, UpsertTyped DEF PushTaken, Messages
  <2>3. QED
    BY <1>7, <2>1, <2>2 DEF PushTaken, bellVars, DecidesTyped
<1>8. CASE PageReload
  <2>1. NoDecide \in DecideRecords /\ NoDecide.request = Idle
    BY DEF NoDecide, Decide, DecideRecords, DecideAnswers
  <2>2. DecidesTyped'
    BY <1>0, <1>8, <2>1 DEF PageReload, DecidesTyped
  <2>3. /\ casesGet' \in Requests(Tables) /\ pushed' \in Seq(Messages)
        /\ cases' = Nothing /\ box' = Nothing /\ UNCHANGED <<stored, readPending>>
    BY <1>8 DEF PageReload, Requests
  <2>4. casesDue' \in BOOLEAN
    BY <1>8 DEF PageReload
  <2>5. QED
    BY <2>2, <2>3, <2>4
<1>9. ASSUME NEW c \in BoxCases, BoxOpens(c) PROVE CasesTyped'
  BY <1>9, CasesAssumption DEF BoxOpens, feedVars, listOfCases, bellVars, DecidesTyped
<1>10. CASE BoxCloses
  <2>1. \A i \in 1 .. MaxDecides : [decides[i] EXCEPT !.held = FALSE] \in DecideRecords
                                  /\ [decides[i] EXCEPT !.held = FALSE].request = decides[i].request
                                  /\ [decides[i] EXCEPT !.held = FALSE].case = decides[i].case
    BY DEF DecidesTyped, DecideRecords
  <2>2. DecidesTyped'
    BY <1>0, <1>10, <2>1 DEF BoxCloses, DecidesTyped
  <2>3. QED
    BY <1>10, <2>2 DEF BoxCloses, feedVars, listOfCases, bellVars
<1>11. CASE AskDecision \/ CancelDecision
  BY <1>11 DEF AskDecision, CancelDecision, feedVars, listOfCases, bellVars, DecidesTyped
<1>12. ASSUME NEW i \in 1 .. MaxDecides, ConfirmDecision(i) PROVE CasesTyped'
  <2>1. box \in CaseIds
    BY <1>12 DEF ConfirmDecision, Pending, boxDraws
  <2>2. Decide(Sent, box, TRUE) \in DecideRecords /\ Decide(Sent, box, TRUE).case \in CaseIds
    BY <2>1 DEF Decide, DecideRecords, DecideAnswers
  <2>3. DecidesTyped'
    BY <1>12, <2>2, DecidePut DEF ConfirmDecision
  <2>4. QED
    BY <1>12, <2>3 DEF ConfirmDecision, feedVars, listOfCases, bellVars
<1>13. ASSUME NEW i \in 1 .. MaxDecides, ServerDecides(i) PROVE CasesTyped'
  BY <1>13, ServerDecidesTyped
<1>14. ASSUME NEW i \in 1 .. MaxDecides, DecideTaken(i) PROVE CasesTyped'
  BY <1>14, DecideTakenTyped
<1>15. CASE MarkRead
  <2>1. openShown \in SUBSET CaseIds
    BY DEF openShown
  <2>2. QED
    BY <1>15, <2>1 DEF MarkRead, feedVars, listOfCases, boxVars, DecidesTyped
<1>16. CASE CasesAsked
  <2>1. casesGet' \in Requests(Tables)
    BY <1>16 DEF CasesAsked, Requests
  <2>2. QED
    BY <1>16, <2>1 DEF CasesAsked, feedVars, boxVars, bellVars, DecidesTyped
<1>17. QED
  BY <1>0, <1>1, <1>2, <1>3, <1>4, <1>5, <1>6, <1>7, <1>8, <1>9, <1>10, <1>11, <1>12, <1>13, <1>14,
     <1>15, <1>16 DEF CasesNext

\* The list of cases, the decision box and the bell keep their types: an answer
\* to a decision is one the server gives, and of a case there is
\* (cases-context.tsx, DecisionBox.tsx, NoticeCenter.tsx).
THEOREM CasesTypes == CasesSpec => []CasesTypeOK
<1>1. CasesTyped => CasesTypeOK
  BY DEF CasesTyped
<1>2. QED
  BY <1>1, CasesTypedInit, CasesTypedNext, PTL DEF CasesSpec

-----------------------------------------------------------------------------
(* The guide. *)

\* The guide's steps are steps of the list of cases, or leave it alone.
LEMMA GuideMovesCases == [GuideNext]_<<casesVars, guideVars>> => [CasesNext]_casesVars
<1> SUFFICES ASSUME [GuideNext]_<<casesVars, guideVars>> PROVE [CasesNext]_casesVars
  OBVIOUS
<1>1. CASE CasesMove
  BY <1>1 DEF CasesMove, CasesNext
<1>2. CASE CasePushed \/ GuideReload
  BY <1>2 DEF CasePushed, GuideReload, CasesNext
<1>3. CASE UNCHANGED casesVars
  BY <1>3
<1>4. QED
  BY <1>1, <1>2, <1>3
     DEF GuideNext, Learn, Navigate, TogglePanel, ChooseTab, ToastOpens, ToastGone, SelectCase,
         ChainLink, TickFollow, SetupSwitch, SetupRead

\* The guide on top of the list of cases is still that list: whatever the guide
\* adds, the list moves as it does alone, or stands still (Assistant.tsx takes
\* the cases from cases-context.tsx and never writes them).
THEOREM GuideFollowsCases == GuideSpec => CasesSpec
BY GuideMovesCases, PTL DEF GuideSpec, CasesSpec

PrefsTyped ==
  /\ prefs \in [CaseIds -> [chain : BOOLEAN, follow : SUBSET UNION {followFor(c) : c \in CaseIds}]]
  /\ \A c \in CaseIds : prefs[c].follow \subseteq followFor(c)

GuideTyped ==
  /\ panel \in [open : BOOLEAN, tab : {"guide", "chat"}]
  /\ selectedId \in CaseIds \cup {Nothing} /\ path \in GuidePages /\ guideToasts \subseteq CaseIds
  /\ PrefsTyped
  /\ setup \in [off : BOOLEAN, visitedPolicies : BOOLEAN]
  /\ hasInstall \in {Nothing, "reading", "read", "unknown"}

LEMMA GuideTypedInit == CasesInit /\ GuideInit => GuideTyped
<1> SUFFICES ASSUME GuideInit PROVE GuideTyped
  OBVIOUS
<1>1. PrefsTyped
  BY DEF GuideInit, PrefsTyped, Pref
<1>2. QED
  BY <1>1 DEF GuideInit, GuideTyped, GuidePages

\* What hasInstall becomes.
LEMMA MountsTyped ==
  ASSUME GuideTyped, NEW l, NEW p, SetupMounts(l, p)
  PROVE  hasInstall' \in {Nothing, "reading", "read", "unknown"}
BY DEF SetupMounts, GuideTyped

LEMMA GoesTyped ==
  ASSUME GuideTyped, NEW p \in GuidePages, Goes(p)
  PROVE  /\ path' \in GuidePages /\ panel' \in [open : BOOLEAN, tab : {"guide", "chat"}]
         /\ setup' \in [off : BOOLEAN, visitedPolicies : BOOLEAN]
<1>1. (setup.visitedPolicies \/ p = "policies") \in BOOLEAN
  BY DEF GuideTyped
<1>2. setup' = [setup EXCEPT !.visitedPolicies = (setup.visitedPolicies \/ p = "policies")]
  BY DEF Goes
<1>3. QED
  BY <1>1, <1>2 DEF Goes, Closed, GuideTyped

LEMMA PrefPut ==
  ASSUME PrefsTyped, NEW c \in CaseIds, NEW b \in BOOLEAN, NEW f \in SUBSET followFor(c),
         prefs' = [prefs EXCEPT ![c] = Pref(b, f)]
  PROVE  PrefsTyped'
<1>1. Pref(b, f) \in [chain : BOOLEAN, follow : SUBSET UNION {followFor(d) : d \in CaseIds}]
  BY DEF Pref
<1>2. Pref(b, f).follow = f
  BY DEF Pref
<1>3. \A d \in CaseIds : prefs'[d].follow \subseteq followFor(d)
  BY <1>2 DEF PrefsTyped
<1>4. QED
  BY <1>1, <1>3 DEF PrefsTyped

LEMMA TicksTyped ==
  ASSUME PrefsTyped, NEW c \in CaseIds,
         \/ prefs' = [prefs EXCEPT ![c].chain = TRUE]
         \/ \E g \in followFor(c) :
              prefs' = [prefs EXCEPT ![c].follow = IF g \in @ THEN @ \ {g} ELSE @ \cup {g}]
  PROVE  PrefsTyped'
<1>1. PICK a \in BOOLEAN, f0 \in SUBSET followFor(c) : prefs[c] = [chain |-> a, follow |-> f0]
  <2>1. prefs[c] = [chain |-> prefs[c].chain, follow |-> prefs[c].follow]
        /\ prefs[c].chain \in BOOLEAN /\ prefs[c].follow \in SUBSET followFor(c)
    BY DEF PrefsTyped
  <2>2. QED
    BY <2>1
<1>2. CASE prefs' = [prefs EXCEPT ![c].chain = TRUE]
  <2>1. prefs' = [prefs EXCEPT ![c] = [prefs[c] EXCEPT !.chain = TRUE]]
    BY <1>2
  <2>2. \A x : [prefs[c] EXCEPT !.chain = x] = Pref(x, f0)
    BY <1>1 DEF Pref
  <2>3. QED
    BY <1>1, <2>1, <2>2, PrefPut
<1>3. ASSUME NEW g \in followFor(c),
             prefs' = [prefs EXCEPT ![c].follow = IF g \in @ THEN @ \ {g} ELSE @ \cup {g}]
      PROVE  PrefsTyped'
  <2> DEFINE f == IF g \in prefs[c].follow THEN prefs[c].follow \ {g} ELSE prefs[c].follow \cup {g}
  <2>1. prefs' = [prefs EXCEPT ![c] = [prefs[c] EXCEPT !.follow = f]]
    BY <1>3
  <2>2. f \in SUBSET followFor(c)
    BY <1>1
  <2> HIDE DEF f
  <2>3. [prefs[c] EXCEPT !.follow = f] = Pref(a, f)
    BY <1>1 DEF Pref
  <2>4. QED
    BY <1>1, <2>1, <2>2, <2>3, PrefPut
<1>4. QED
  BY <1>2, <1>3

LEMMA GuideTypedNext ==
  GuideInv /\ GuideTyped /\ [GuideNext]_<<casesVars, guideVars>> => GuideTyped'
<1> SUFFICES ASSUME GuideInv, GuideTyped, [GuideNext]_<<casesVars, guideVars>> PROVE GuideTyped'
  OBVIOUS
<1>1. CASE UNCHANGED guideVars
  BY <1>1 DEF guideVars, screen, storage, GuideTyped, PrefsTyped
<1>2. CASE CasesMove
  <2>1. hasInstall' \in {Nothing, "reading", "read", "unknown"}
    BY <1>2, MountsTyped DEF CasesMove
  <2>2. QED
    BY <1>2, <2>1 DEF CasesMove, screen, storage, GuideTyped, PrefsTyped
<1>3. CASE Learn
  BY <1>3 DEF Learn, screen, storage, GuideTyped, PrefsTyped
<1>4. CASE CasePushed
  <2>1. Head(pushed).case \in CaseIds
    <3>1. pushed \in Seq(Messages) /\ pushed # <<>>
      BY <1>4 DEF CasePushed, PushTaken, GuideInv
    <3>2. Head(pushed) \in Messages
      BY <3>1, HeadTailProperties
    <3>3. QED
      BY <3>2 DEF Messages
  <2>2. hasInstall' \in {Nothing, "reading", "read", "unknown"}
    BY <1>4, MountsTyped DEF CasePushed
  <2>3. /\ panel' = panel \/ panel' = [open |-> TRUE, tab |-> "guide"]
        /\ selectedId' = selectedId \/ selectedId' = Head(pushed).case
        /\ guideToasts' = guideToasts \/ guideToasts' = guideToasts \cup {Head(pushed).case}
        /\ path' = path
    BY <1>4 DEF CasePushed, Announce, screen
  <2>4. UNCHANGED storage
    BY <1>4 DEF CasePushed
  <2>5. panel' \in [open : BOOLEAN, tab : {"guide", "chat"}]
    <3>1. [open |-> TRUE, tab |-> "guide"] \in [open : BOOLEAN, tab : {"guide", "chat"}]
      OBVIOUS
    <3>2. QED
      BY <2>3, <3>1 DEF GuideTyped
  <2>6. selectedId' \in CaseIds \cup {Nothing} /\ guideToasts' \subseteq CaseIds /\ path' \in GuidePages
    BY <2>1, <2>3 DEF GuideTyped
  <2>7. PrefsTyped' /\ setup' = setup
    BY <2>4 DEF storage, GuideTyped, PrefsTyped
  <2>8. QED
    BY <2>2, <2>5, <2>6, <2>7 DEF GuideTyped
<1>5. CASE GuideReload
  BY <1>5 DEF GuideReload, storage, GuideTyped, PrefsTyped
<1>6. ASSUME NEW p \in GuidePages, Navigate(p) PROVE GuideTyped'
  BY <1>6, GoesTyped, MountsTyped DEF Navigate, GuideTyped, PrefsTyped
<1>7. CASE TogglePanel
  BY <1>7, MountsTyped DEF TogglePanel, GuideTyped, PrefsTyped, storage
<1>8. ASSUME NEW t \in {"guide", "chat"}, ChooseTab(t) PROVE GuideTyped'
  BY <1>8, MountsTyped DEF ChooseTab, GuideTyped, PrefsTyped, storage
<1>9. ASSUME NEW c \in CaseIds, ToastOpens(c) PROVE GuideTyped'
  BY <1>9, MountsTyped DEF ToastOpens, GuideTyped, PrefsTyped, storage
<1>10. ASSUME NEW c \in CaseIds, ToastGone(c) \/ SelectCase(c) PROVE GuideTyped'
  BY <1>10 DEF ToastGone, SelectCase, GuideTyped, PrefsTyped, storage
<1>11. ASSUME NEW c \in CaseIds, ChainLink(c) PROVE GuideTyped'
  <2>1. PrefsTyped'
    BY <1>11, TicksTyped DEF ChainLink, GuideTyped
  <2>2. "other" \in GuidePages
    BY DEF GuidePages
  <2>3. hasInstall' \in {Nothing, "reading", "read", "unknown"}
    BY <1>11, MountsTyped DEF ChainLink
  <2>4. QED
    BY <1>11, <2>1, <2>2, <2>3, GoesTyped DEF ChainLink, GuideTyped
<1>12. ASSUME NEW c \in CaseIds, NEW g \in followFor(c), TickFollow(c, g) PROVE GuideTyped'
  <2>1. PrefsTyped'
    BY <1>12, TicksTyped DEF TickFollow, GuideTyped
  <2>2. QED
    BY <1>12, <2>1 DEF TickFollow, GuideTyped, screen
<1>13. CASE SetupSwitch
  BY <1>13 DEF SetupSwitch, GuideTyped, PrefsTyped, screen
<1>14. CASE SetupRead
  BY <1>14 DEF SetupRead, GuideTyped, PrefsTyped, screen, storage
<1>15. QED
  BY <1>1, <1>2, <1>3, <1>4, <1>5, <1>6, <1>7, <1>8, <1>9, <1>10, <1>11, <1>12, <1>13, <1>14
     DEF GuideNext

\* The guide keeps its types: what is known and announced are cases, and a
\* preference ticks only follow-ups of its case (Assistant.tsx, guide.ts).
THEOREM GuideTypes == GuideSpec => []GuideTypeOK
<1>1. CasesTyped /\ GuideInv /\ GuideTyped => GuideTypeOK
  BY DEF CasesTyped, GuideInv, NewsInv, GuideTyped, PrefsTyped, GuideTypeOK
<1>2. QED
  BY <1>1, CasesTypedInit, CasesTypedNext, GuideMovesCases, GuideInvInit, GuideInvNext,
     GuideTypedInit, GuideTypedNext, PTL DEF GuideSpec


-----------------------------------------------------------------------------
(* The audit page. *)

LogIds == 1 .. MaxLog
PageData == [rows : Seq(LogIds), total : Nat]

\* The pages of the answers fit, and so does the page shown.
PagesTyped ==
  /\ log \in 0 .. MaxLog /\ req.page <= MaxLog + 1
  /\ \A a \in asks :
       /\ a.request \in Requests(PageData)
       /\ a.request.at = "answered" => Len(a.request.data.rows) <= a.req.size
  /\ got # NoPage => Len(got.rows) <= got.size
  /\ cursors \in Seq(LogIds \cup {Nothing})

\* The first rows of a list.
LEMMA UptoTyped ==
  ASSUME NEW s \in Seq(LogIds), NEW n \in Nat
  PROVE  Upto(s, n) \in Seq(LogIds) /\ Len(Upto(s, n)) <= n
<1> DEFINE m == IF n < Len(s) THEN n ELSE Len(s)
<1>1. m \in Nat /\ m <= n /\ m <= Len(s) /\ Len(s) \in Nat
  BY LenProperties
<1> HIDE DEF m
<1>2. \A i \in 1 .. m : s[i] \in LogIds
  BY <1>1
<1>3. SubSeq(s, 1, m) \in Seq(LogIds) /\ Len(SubSeq(s, 1, m)) = IF 1 <= m THEN m - 1 + 1 ELSE 0
  BY <1>1, <1>2, SubSeqProperties
<1>4. QED
  BY <1>1, <1>3 DEF Upto, m

\* What the server answers with.
LEMMA AnsweredTyped ==
  ASSUME AuditInv, PagesTyped, NEW a \in asks
  PROVE  LET all == Listed(Matching[a.req.filters], log)
             from == IF a.before # Nothing THEN Before(all, a.before)
                     ELSE IF olderServer THEN all
                     ELSE SubSeq(all, (a.req.page - 1) * a.req.size + 1, Len(all))
         IN /\ [rows |-> Upto(from, a.req.size), total |-> Len(all)] \in PageData
            /\ Len(Upto(from, a.req.size)) <= a.req.size
<1> DEFINE all == Listed(Matching[a.req.filters], log)
           k == (a.req.page - 1) * a.req.size + 1
           from == IF a.before # Nothing THEN Before(all, a.before)
                   ELSE IF olderServer THEN all
                   ELSE SubSeq(all, k, Len(all))
<1>1. a.req.page \in Nat \ {0} /\ a.req.size \in Nat
  <2>1. a.req \in Reqs
    BY DEF AuditInv, AsksTyped
  <2>2. QED
    BY <2>1, AuditAssumption DEF Reqs
<1>2. log \in Nat /\ log <= MaxLog /\ MaxLog \in Nat
  BY AuditAssumption DEF PagesTyped
<1>3. all \in Seq(LogIds)
  <2>1. all \in Seq(1 .. log)
    BY <1>2, ListedFacts
  <2>2. 1 .. log \subseteq LogIds
    BY <1>2 DEF LogIds
  <2> HIDE DEF all
  <2>3. Len(all) \in Nat /\ all \in [1 .. Len(all) -> 1 .. log]
    BY <2>1, LenProperties
  <2>4. all \in [1 .. Len(all) -> LogIds]
    BY <2>2, <2>3
  <2>5. QED
    BY <2>3, <2>4, IsASeq
<1>4. k \in Nat /\ k >= 1
  <2>1. \A m \in Nat, n \in Nat : m * n \in Nat
    OBVIOUS
  <2>2. (a.req.page - 1) * a.req.size \in Nat
    BY <1>1, <2>1
  <2>3. QED
    BY <2>2
<1> HIDE DEF all, k
<1>5. Before(all, a.before) \in Seq(LogIds)
  BY <1>3, FilteredRange DEF Before
<1>6. SubSeq(all, k, Len(all)) \in Seq(LogIds)
  <2>1. Len(all) \in Nat /\ \A i \in k .. Len(all) : all[i] \in LogIds
    BY <1>3, <1>4
  <2>2. QED
    BY <1>4, <2>1, SubSeqProperties
<1>7. from \in Seq(LogIds)
  BY <1>3, <1>5, <1>6
<1> HIDE DEF from
<1>8. Upto(from, a.req.size) \in Seq(LogIds) /\ Len(Upto(from, a.req.size)) <= a.req.size
  BY <1>1, <1>7, UptoTyped
<1>9. [rows |-> Upto(from, a.req.size), total |-> Len(all)] \in PageData
  BY <1>3, <1>8, LenProperties DEF PageData
<1>10. QED
  BY <1>8, <1>9 DEF from, all, k

LEMMA CursorsTyped ==
  ASSUME PagesTyped, NEW page \in Nat \ {0}, NEW rs \in Seq(LogIds), rs # <<>>
  PROVE  [p \in 1 .. MaxOf(page, Len(cursors)) |->
            IF p = page THEN Last(rs) ELSE IF p <= Len(cursors) THEN cursors[p] ELSE Nothing]
            \in Seq(LogIds \cup {Nothing})
<1>1. Len(cursors) \in Nat /\ \A p \in 1 .. Len(cursors) : cursors[p] \in LogIds \cup {Nothing}
  BY DEF PagesTyped
<1>2. Last(rs) \in LogIds
  BY DEF Last
<1> DEFINE n == MaxOf(page, Len(cursors))
           f == [p \in 1 .. n |->
                   IF p = page THEN Last(rs) ELSE IF p <= Len(cursors) THEN cursors[p] ELSE Nothing]
<1>3. n \in Nat
  BY <1>1 DEF MaxOf
<1> HIDE DEF n
<1>4. f \in [1 .. n -> LogIds \cup {Nothing}]
  BY <1>1, <1>2
<1> HIDE DEF f
<1>5. f \in Seq(LogIds \cup {Nothing})
  BY <1>3, <1>4, IsASeq
<1>6. QED
  BY <1>5 DEF f, n

\* The calls, after one of them got another answer.
LEMMA AskPut ==
  ASSUME AuditInv, PagesTyped, NEW a \in asks, NEW r \in Requests(PageData),
         r.at = "answered" => Len(r.data.rows) <= a.req.size,
         asks' = (asks \ {a}) \cup {[a EXCEPT !.request = r]},
         UNCHANGED <<log, req, got, cursors>>
  PROVE  PagesTyped'
<1>1. a = [req |-> a.req, before |-> a.before, current |-> a.current, request |-> a.request]
  BY DEF AuditInv, AsksTyped
<1>2. [a EXCEPT !.request = r].request = r /\ [a EXCEPT !.request = r].req = a.req
  BY <1>1
<1>3. QED
  BY <1>2 DEF PagesTyped

LEMMA RunPages ==
  ASSUME AuditInv, PagesTyped, run(req), UNCHANGED <<log, req, got, cursors>>
  PROVE  PagesTyped'
<1>1. \A a \in asks : /\ [a EXCEPT !.current = FALSE].request = a.request
                      /\ [a EXCEPT !.current = FALSE].req = a.req
  <2> SUFFICES ASSUME NEW a \in asks
               PROVE  /\ [a EXCEPT !.current = FALSE].request = a.request
                      /\ [a EXCEPT !.current = FALSE].req = a.req
    OBVIOUS
  <2>1. a = [req |-> a.req, before |-> a.before, current |-> a.current, request |-> a.request]
    BY DEF AuditInv, AsksTyped
  <2>2. QED
    BY <2>1
<1>2. \A from : Ask(req, from).request = Sent
  BY DEF Ask
<1>3. Sent \in Requests(PageData) /\ Sent.at # "answered"
  BY DEF Requests, Sent
<1>4. \A b \in asks' : b.request = Sent \/ \E a \in asks : b.request = a.request /\ b.req = a.req
  BY <1>1, <1>2 DEF run
<1>5. QED
  BY <1>3, <1>4 DEF PagesTyped

LEMMA AuditTakenPages ==
  ASSUME AuditInv, PagesTyped, NEW a \in asks, AuditTaken(a)
  PROVE  PagesTyped'
<1>1. UNCHANGED <<log, req>> /\ asks' \subseteq asks
  BY DEF AuditTaken
<1>2. CASE UNCHANGED <<got, cursors>>
  BY <1>1, <1>2 DEF PagesTyped
<1>3. CASE a.request.at = "answered" /\ (got' # got \/ cursors' # cursors)
  <2> DEFINE rs == a.request.data.rows
  <2>1. rs \in Seq(LogIds) /\ Len(rs) <= a.req.size /\ a.req.page \in Nat \ {0}
    <3>1. a.request \in Requests(PageData) /\ a.req \in Reqs
      BY DEF PagesTyped, AuditInv, AsksTyped
    <3>3. a.request.data \in PageData
      BY <1>3, <3>1, AnswerData
    <3>2. QED
      BY <1>3, <3>1, <3>3 DEF PagesTyped, PageData, Reqs
  <2>2. /\ cursors' = IF rs = <<>> THEN cursors
                      ELSE [p \in 1 .. MaxOf(a.req.page, Len(cursors)) |->
                              IF p = a.req.page THEN Last(rs) ELSE
                              IF p <= Len(cursors) THEN cursors[p] ELSE Nothing]
        /\ got' = [rows |-> rs, filters |-> a.req.filters, page |-> a.req.page,
                   size |-> a.req.size, hasNext |-> hasNext(a, olderServer),
                   total |-> IF olderServer THEN Nothing ELSE a.request.data.total]
    BY <1>3 DEF AuditTaken
  <2>3. cursors' \in Seq(LogIds \cup {Nothing})
    BY <2>1, <2>2, CursorsTyped DEF PagesTyped
  <2>4. got'.rows = rs /\ got'.size = a.req.size
    BY <2>2
  <2>5. QED
    BY <1>1, <2>1, <2>3, <2>4 DEF PagesTyped, NoPage
<1>4. QED
  BY <1>2, <1>3 DEF AuditTaken

LEMMA PagesTypedNext == AuditInv /\ PagesTyped /\ [AuditNext]_auditVars => PagesTyped'
<1> SUFFICES ASSUME AuditInv, PagesTyped, [AuditNext]_auditVars PROVE PagesTyped'
  OBVIOUS
<1>1. CASE UNCHANGED auditVars
  BY <1>1 DEF auditVars, auditListVars, PagesTyped, NoPage
<1>2. CASE Recorded
  BY <1>2, AuditAssumption DEF Recorded, auditListVars, PagesTyped, NoPage
<1>3. CASE TimerRuns \/ RetryList
  BY <1>3, RunPages DEF TimerRuns, RetryList
<1>4. CASE LeaveAndReturn
  <2>1. req'.page = 1 /\ log' = log /\ asks' = {} /\ got' = NoPage /\ cursors' = <<>>
    BY <1>4 DEF LeaveAndReturn
  <2>2. <<>> \in Seq(LogIds \cup {Nothing}) /\ 1 <= MaxLog + 1
    BY AuditAssumption
  <2>3. QED
    BY <2>1, <2>2 DEF PagesTyped, NoPage
<1>5. ASSUME NEW a \in asks, AuditAnswered(a) PROVE PagesTyped'
  <2> DEFINE all == Listed(Matching[a.req.filters], log)
             from == IF a.before # Nothing THEN Before(all, a.before)
                     ELSE IF olderServer THEN all
                     ELSE SubSeq(all, (a.req.page - 1) * a.req.size + 1, Len(all))
             d == [rows |-> Upto(from, a.req.size), total |-> Len(all)]
  <2>1. d \in PageData /\ Len(d.rows) <= a.req.size
    BY AnsweredTyped
  <2>2. /\ asks' = (asks \ {a}) \cup {[a EXCEPT !.request = Answer(d)]}
        /\ UNCHANGED <<log, req, got, cursors>>
    BY <1>5 DEF AuditAnswered
  <2> HIDE DEF d
  <2>3. Answer(d) \in Requests(PageData) /\ Answer(d).data = d
    BY <2>1, RequestOf DEF Answer
  <2>4. QED
    BY <2>1, <2>2, <2>3, AskPut
<1>6. ASSUME NEW a \in asks, AuditFails(a) PROVE PagesTyped'
  <2>1. Failed \in Requests(PageData) /\ Failed.at # "answered"
    BY DEF Requests, Failed
  <2>2. QED
    BY <1>6, <2>1, AskPut DEF AuditFails
<1>7. ASSUME NEW a \in asks, AuditTaken(a) PROVE PagesTyped'
  BY <1>7, AuditTakenPages
<1>8. ASSUME NEW r, r.page <= MaxLog + 1, SetReq(r) PROVE PagesTyped'
  BY <1>8 DEF SetReq, PagesTyped, NoPage
<1>9. 1 <= MaxLog + 1
  BY AuditAssumption
<1>10. ASSUME NEW f, SetFilters(f) PROVE PagesTyped'
  BY <1>8, <1>9, <1>10 DEF SetFilters
<1>11. ASSUME NEW s, SetSize(s) PROVE PagesTyped'
  BY <1>8, <1>9, <1>11 DEF SetSize
<1>12. ASSUME NEW p \in 1 .. MaxLog, GoToPage(p) PROVE PagesTyped'
  <2>1. [req EXCEPT !.page = p].page = p /\ p <= MaxLog + 1
    BY AuditAssumption DEF AuditInv, Reqs
  <2>2. QED
    BY <1>8, <1>12, <2>1 DEF GoToPage
<1>13. QED
  BY <1>1, <1>2, <1>3, <1>4, <1>5, <1>6, <1>7, <1>10, <1>11, <1>12 DEF AuditNext

LEMMA PagesTypedInit == AuditInit => PagesTyped
<1> SUFFICES ASSUME AuditInit PROVE PagesTyped
  OBVIOUS
<1>1. req.page = 1 /\ log \in 0 .. MaxLog /\ asks = {} /\ got = NoPage /\ cursors = <<>>
  BY DEF AuditInit
<1>2. <<>> \in Seq(LogIds \cup {Nothing}) /\ 1 <= MaxLog + 1
  BY AuditAssumption
<1>3. QED
  BY <1>1, <1>2 DEF PagesTyped

\* The audit page keeps its types: page numbers are positive and every list,
\* asked by page or by cursor, holds entries of the log (AuditPage.tsx).
THEOREM AuditTypes == AuditSpec => []AuditTypeOK
<1>1. AuditInv /\ PagesTyped => AuditTypeOK
  BY AuditAssumption DEF AuditInv, Reqs, PagesTyped, LogIds, AuditTypeOK
<1>2. QED
  BY <1>1, AuditInvInit, AuditInvNext, PagesTypedInit, PagesTypedNext, PTL DEF AuditSpec


-----------------------------------------------------------------------------
(* The policy editor. *)

EditorModes == {"easy", "form", "yaml"}
AllIds == PolicyIds \cup BadIds

RuleShape(r) ==
  \E id, kind, action, dry, disabled, limit, ls :
    r = [id |-> id, kind |-> kind, action |-> action, dry |-> dry, disabled |-> disabled,
         limit |-> limit, lists |-> ls]
RuleIn(r, ids) == RuleShape(r) /\ r.id \in ids
RuleList(list) == \A i \in PolicyIds : list[i] = Nothing \/ RuleIn(list[i], PolicyIds)

DraftTyped(d) == RuleIn(d, AllIds) /\ d.kind \in RuleKinds
YamlTyped(y) == y = Nothing \/ RuleIn(y, AllIds)
CheckTyped(k) == k # Nothing => RuleIn(k.rule, PolicyIds)

EditorTyped(e) ==
  /\ RuleIn(e.rule, PolicyIds) /\ DraftTyped(e.draft) /\ YamlTyped(e.yaml)
  /\ e.mode \in EditorModes /\ CheckTyped(e.check)

MountedTyped(e) == e = Nothing \/ EditorTyped(e)
RulesTyped(there, list, get) ==
  /\ DOMAIN there = PolicyIds /\ RuleList(there)
  /\ list # Nothing => RuleList(list)
  /\ get.at = "answered" => RuleList(get.data)

\* A save and a preview the editor waits for have their editor.
SavesTyped(cs, e) ==
  \A c \in cs : RuleIn(c.rule, PolicyIds) /\ (c.mine => EditorTyped(e))
PreviewsTyped(cs, e) ==
  \A c \in cs : c.current => RuleIn(c.rule, PolicyIds) /\ EditorTyped(e)

PolicyEditTyped ==
  /\ PolicyEditInv
  /\ RulesTyped(storedRules, rules, rulesGet)
  /\ MountedTyped(editor) /\ SavesTyped(saves, editor) /\ PreviewsTyped(previews, editor)

\* A rule keeps its id and kind while its other fields are set.
LEMMA RuleFieldsSet ==
  ASSUME NEW r, RuleShape(r)
  PROVE  /\ \A v : /\ RuleShape([r EXCEPT !.lists = v]) /\ [r EXCEPT !.lists = v].id = r.id
                   /\ [r EXCEPT !.lists = v].kind = r.kind
         /\ \A v : /\ RuleShape([r EXCEPT !.limit = v]) /\ [r EXCEPT !.limit = v].id = r.id
                   /\ [r EXCEPT !.limit = v].kind = r.kind
         /\ \A v : /\ RuleShape([r EXCEPT !.action = v]) /\ [r EXCEPT !.action = v].id = r.id
                   /\ [r EXCEPT !.action = v].kind = r.kind
         /\ \A v : /\ RuleShape([r EXCEPT !.dry = v]) /\ [r EXCEPT !.dry = v].id = r.id
                   /\ [r EXCEPT !.dry = v].kind = r.kind
         /\ \A v : /\ RuleShape([r EXCEPT !.disabled = v]) /\ [r EXCEPT !.disabled = v].id = r.id
                   /\ [r EXCEPT !.disabled = v].kind = r.kind
         /\ \A v : /\ RuleShape([r EXCEPT !.id = v]) /\ [r EXCEPT !.id = v].id = v
                   /\ [r EXCEPT !.id = v].kind = r.kind
         /\ \A v : /\ RuleShape([r EXCEPT !.kind = v]) /\ [r EXCEPT !.kind = v].id = r.id
                   /\ [r EXCEPT !.kind = v].kind = v
<1>1. PICK id, kind, action, dry, disabled, limit, ls :
        r = [id |-> id, kind |-> kind, action |-> action, dry |-> dry, disabled |-> disabled,
             limit |-> limit, lists |-> ls]
  BY DEF RuleShape
<1>2. ASSUME NEW v
      PROVE  /\ RuleShape([r EXCEPT !.lists = v]) /\ [r EXCEPT !.lists = v].id = r.id
             /\ [r EXCEPT !.lists = v].kind = r.kind
  <2> DEFINE x == [r EXCEPT !.lists = v]
  <2>1. x = [id |-> id, kind |-> kind, action |-> action, dry |-> dry, disabled |-> disabled,
         limit |-> limit, lists |-> v]
    BY <1>1
  <2> HIDE DEF x
  <2>2. RuleShape(x) /\ x.id = r.id /\ x.kind = r.kind
    BY <1>1, <2>1 DEF RuleShape
  <2>3. QED
    BY <2>2 DEF x
<1>3. ASSUME NEW v
      PROVE  /\ RuleShape([r EXCEPT !.limit = v]) /\ [r EXCEPT !.limit = v].id = r.id
             /\ [r EXCEPT !.limit = v].kind = r.kind
  <2> DEFINE x == [r EXCEPT !.limit = v]
  <2>1. x = [id |-> id, kind |-> kind, action |-> action, dry |-> dry, disabled |-> disabled,
         limit |-> v, lists |-> ls]
    BY <1>1
  <2> HIDE DEF x
  <2>2. RuleShape(x) /\ x.id = r.id /\ x.kind = r.kind
    BY <1>1, <2>1 DEF RuleShape
  <2>3. QED
    BY <2>2 DEF x
<1>4. ASSUME NEW v
      PROVE  /\ RuleShape([r EXCEPT !.action = v]) /\ [r EXCEPT !.action = v].id = r.id
             /\ [r EXCEPT !.action = v].kind = r.kind
  <2> DEFINE x == [r EXCEPT !.action = v]
  <2>1. x = [id |-> id, kind |-> kind, action |-> v, dry |-> dry, disabled |-> disabled,
         limit |-> limit, lists |-> ls]
    BY <1>1
  <2> HIDE DEF x
  <2>2. RuleShape(x) /\ x.id = r.id /\ x.kind = r.kind
    BY <1>1, <2>1 DEF RuleShape
  <2>3. QED
    BY <2>2 DEF x
<1>5. ASSUME NEW v
      PROVE  /\ RuleShape([r EXCEPT !.dry = v]) /\ [r EXCEPT !.dry = v].id = r.id
             /\ [r EXCEPT !.dry = v].kind = r.kind
  <2> DEFINE x == [r EXCEPT !.dry = v]
  <2>1. x = [id |-> id, kind |-> kind, action |-> action, dry |-> v, disabled |-> disabled,
         limit |-> limit, lists |-> ls]
    BY <1>1
  <2> HIDE DEF x
  <2>2. RuleShape(x) /\ x.id = r.id /\ x.kind = r.kind
    BY <1>1, <2>1 DEF RuleShape
  <2>3. QED
    BY <2>2 DEF x
<1>6. ASSUME NEW v
      PROVE  /\ RuleShape([r EXCEPT !.disabled = v]) /\ [r EXCEPT !.disabled = v].id = r.id
             /\ [r EXCEPT !.disabled = v].kind = r.kind
  <2> DEFINE x == [r EXCEPT !.disabled = v]
  <2>1. x = [id |-> id, kind |-> kind, action |-> action, dry |-> dry, disabled |-> v,
         limit |-> limit, lists |-> ls]
    BY <1>1
  <2> HIDE DEF x
  <2>2. RuleShape(x) /\ x.id = r.id /\ x.kind = r.kind
    BY <1>1, <2>1 DEF RuleShape
  <2>3. QED
    BY <2>2 DEF x
<1>7. ASSUME NEW v
      PROVE  /\ RuleShape([r EXCEPT !.id = v]) /\ [r EXCEPT !.id = v].id = v
             /\ [r EXCEPT !.id = v].kind = r.kind
  <2> DEFINE x == [r EXCEPT !.id = v]
  <2>1. x = [id |-> v, kind |-> kind, action |-> action, dry |-> dry, disabled |-> disabled,
         limit |-> limit, lists |-> ls]
    BY <1>1
  <2> HIDE DEF x
  <2>2. RuleShape(x) /\ x.id = v /\ x.kind = r.kind
    BY <1>1, <2>1 DEF RuleShape
  <2>3. QED
    BY <2>2 DEF x
<1>8. ASSUME NEW v
      PROVE  /\ RuleShape([r EXCEPT !.kind = v]) /\ [r EXCEPT !.kind = v].id = r.id
             /\ [r EXCEPT !.kind = v].kind = v
  <2> DEFINE x == [r EXCEPT !.kind = v]
  <2>1. x = [id |-> id, kind |-> v, action |-> action, dry |-> dry, disabled |-> disabled,
         limit |-> limit, lists |-> ls]
    BY <1>1
  <2> HIDE DEF x
  <2>2. RuleShape(x) /\ x.id = r.id /\ x.kind = v
    BY <1>1, <2>1 DEF RuleShape
  <2>3. QED
    BY <2>2 DEF x
<1>9. QED
  BY <1>2, <1>3, <1>4, <1>5, <1>6, <1>7, <1>8

\* The editor keeps its kind of value while its fields are set.
LEMMA EditorFieldsSet ==
  ASSUME NEW e, EditorShape(e), EditorTyped(e)
  PROVE  /\ \A d : DraftTyped(d) => EditorTyped([e EXCEPT !.draft = d])
         /\ \A y : YamlTyped(y) => EditorTyped([e EXCEPT !.yaml = y])
         /\ \A m \in EditorModes : EditorTyped([e EXCEPT !.mode = m])
         /\ \A k : CheckTyped(k) => EditorTyped([e EXCEPT !.check = k])
<1>1. PICK rule, new, draft, mode, yaml, check :
        e = [rule |-> rule, isNew |-> new, draft |-> draft, mode |-> mode, yaml |-> yaml,
             check |-> check]
  BY DEF EditorShape
<1>2. /\ RuleIn(rule, PolicyIds) /\ DraftTyped(draft) /\ YamlTyped(yaml)
      /\ mode \in EditorModes /\ CheckTyped(check)
  BY <1>1 DEF EditorTyped
<1>3. ASSUME NEW d, DraftTyped(d) PROVE EditorTyped([e EXCEPT !.draft = d])
  <2> DEFINE x == [e EXCEPT !.draft = d]
  <2>1. x = [rule |-> rule, isNew |-> new, draft |-> d, mode |-> mode, yaml |-> yaml,
         check |-> check]
    BY <1>1
  <2> HIDE DEF x
  <2>2. EditorTyped(x)
    BY <1>2, <1>3, <2>1 DEF EditorTyped
  <2>3. QED
    BY <2>2 DEF x
<1>4. ASSUME NEW y, YamlTyped(y) PROVE EditorTyped([e EXCEPT !.yaml = y])
  <2> DEFINE x == [e EXCEPT !.yaml = y]
  <2>1. x = [rule |-> rule, isNew |-> new, draft |-> draft, mode |-> mode, yaml |-> y,
         check |-> check]
    BY <1>1
  <2> HIDE DEF x
  <2>2. EditorTyped(x)
    BY <1>2, <1>4, <2>1 DEF EditorTyped
  <2>3. QED
    BY <2>2 DEF x
<1>5. ASSUME NEW m, m \in EditorModes PROVE EditorTyped([e EXCEPT !.mode = m])
  <2> DEFINE x == [e EXCEPT !.mode = m]
  <2>1. x = [rule |-> rule, isNew |-> new, draft |-> draft, mode |-> m, yaml |-> yaml,
         check |-> check]
    BY <1>1
  <2> HIDE DEF x
  <2>2. EditorTyped(x)
    BY <1>2, <1>5, <2>1 DEF EditorTyped
  <2>3. QED
    BY <2>2 DEF x
<1>6. ASSUME NEW k, CheckTyped(k) PROVE EditorTyped([e EXCEPT !.check = k])
  <2> DEFINE x == [e EXCEPT !.check = k]
  <2>1. x = [rule |-> rule, isNew |-> new, draft |-> draft, mode |-> mode, yaml |-> yaml,
         check |-> k]
    BY <1>1
  <2> HIDE DEF x
  <2>2. EditorTyped(x)
    BY <1>2, <1>6, <2>1 DEF EditorTyped
  <2>3. QED
    BY <2>2 DEF x
<1>7. QED
  BY <1>3, <1>4, <1>5, <1>6

\* The rules the page makes.
LEMMA DraftOfRule ==
  ASSUME NEW r, NEW ids, ids \subseteq AllIds, RuleIn(r, ids)
  PROVE  /\ RuleIn(toDraft(r), ids) /\ (isSingleRule(r) => DraftTyped(toDraft(r)))
         /\ DraftTyped([r EXCEPT !.kind = "exec", !.lists = NoLists])
<1>1. RuleIn(toDraft(r), ids) /\ toDraft(r).kind = r.kind
  BY RuleFieldsSet DEF RuleIn, toDraft
<1> DEFINE d == [r EXCEPT !.kind = "exec"]
<1>2. RuleShape(d) /\ d.id = r.id /\ d.kind = "exec"
  BY RuleFieldsSet DEF RuleIn
<1>3. [r EXCEPT !.kind = "exec", !.lists = NoLists] = [d EXCEPT !.lists = NoLists]
  OBVIOUS
<1> HIDE DEF d
<1>4. DraftTyped([d EXCEPT !.lists = NoLists])
  BY <1>2, RuleFieldsSet DEF DraftTyped, RuleIn, RuleKinds
<1>5. QED
  BY <1>1, <1>3, <1>4 DEF DraftTyped, RuleIn, isSingleRule

LEMMA RuleOfDraft ==
  ASSUME NEW d, NEW ids, RuleIn(d, ids)
  PROVE  RuleIn(toRule(d), ids)
<1> DEFINE x == IF d.kind = "dns" THEN d.limit ELSE ""
           y == [f \in ALL_LIST_FIELDS |->
                   IF f \in {"containers"} \cup KIND_FIELDS[d.kind]
                   THEN [i \in DOMAIN listOf(d, f) |-> <<listOf(d, f)[i]>>]
                   ELSE <<>>]
           d1 == [d EXCEPT !.limit = x]
<1>1. toRule(d) = [d EXCEPT !.limit = x, !.lists = y]
  BY DEF toRule
<1> HIDE DEF x, y
<1>2. [d EXCEPT !.limit = x, !.lists = y] = [d1 EXCEPT !.lists = y]
  OBVIOUS
<1>3. RuleShape(d1) /\ d1.id = d.id
  BY RuleFieldsSet DEF RuleIn
<1> HIDE DEF d1
<1>4. QED
  BY <1>1, <1>2, <1>3, RuleFieldsSet DEF RuleIn

\* An id that is proposed is one of a policy.
LEMMA UniqueIdTyped ==
  ASSUME NEW existing
  PROVE  uniqueId(NewId, existing) \in PolicyIds
<1>1. CASE NewId \notin existing \/ PolicyIds \subseteq existing
  BY <1>1, PolicyEditAssumption DEF uniqueId
<1>2. CASE ~(NewId \notin existing \/ PolicyIds \subseteq existing)
  <2>1. \E i \in PolicyIds : i \notin existing
    BY <1>2
  <2>2. QED
    BY <1>2, <2>1 DEF uniqueId
<1>3. QED
  BY <1>1, <1>2

LEMMA PolicyIsRule ==
  ASSUME NEW r, IsPolicy(r)
  PROVE  RuleIn(r, PolicyIds)
BY DEF IsPolicy, RuleIn, RuleShape

\* What an editor is started with.
LEMMA StartTyped ==
  ASSUME NEW s, NEW list, list # Nothing => RuleList(list), start(s, list) # Nothing
  PROVE  RuleIn(start(s, list), PolicyIds)
<1> DEFINE r == Current(list, s.id)
           existing == {i \in PolicyIds : list # Nothing /\ list[i] # Nothing}
<1>1. r = Nothing \/ RuleIn(r, PolicyIds)
  BY DEF Current, RuleList
<1>2. RuleIn(fromTemplate(existing), PolicyIds)
  <2>1. RuleShape(Template)
    BY PolicyIsRule, PolicyEditAssumption DEF RuleIn
  <2>2. uniqueId(NewId, existing) \in PolicyIds
    BY UniqueIdTyped
  <2> HIDE DEF existing
  <2>3. QED
    BY <2>1, <2>2, RuleFieldsSet DEF RuleIn, fromTemplate
<1>3. RuleIn(ruleFromBlock(s.how, s.value, existing), PolicyIds)
  <2>1. uniqueId(NewId, existing) \in PolicyIds
    BY UniqueIdTyped
  <2> HIDE DEF existing
  <2> DEFINE x == ruleFromBlock(s.how, s.value, existing)
  <2>2. PICK l : x = [id |-> uniqueId(NewId, existing), kind |-> s.how, action |-> "kill",
                      dry |-> FALSE, disabled |-> FALSE, limit |-> "", lists |-> l]
    BY DEF ruleFromBlock
  <2> HIDE DEF x
  <2>3. RuleShape(x) /\ x.id = uniqueId(NewId, existing)
    BY <2>2 DEF RuleShape
  <2>4. QED
    BY <2>1, <2>3 DEF RuleIn, x
<1>4. ASSUME RuleIn(r, PolicyIds) PROVE RuleIn(ruleWithAllow(r, s.value), PolicyIds)
  <2> HIDE DEF r
  <2>1. ASSUME NEW f, NEW x
        PROVE  RuleIn([r EXCEPT !.lists[f] = x], PolicyIds)
    <3>1. [r EXCEPT !.lists[f] = x] = [r EXCEPT !.lists = [r.lists EXCEPT ![f] = x]]
      OBVIOUS
    <3>2. QED
      BY <1>4, <3>1, RuleFieldsSet DEF RuleIn
  <2>2. QED
    BY <1>4, <2>1 DEF ruleWithAllow
<1>5. ASSUME RuleIn(r, PolicyIds) PROVE RuleIn(mergeDefault(r), PolicyIds)
  <2> HIDE DEF r
  <2>1. QED
    BY <1>5, RuleFieldsSet DEF RuleIn, mergeDefault
<1>6. \/ start(s, list) = fromTemplate(existing)
      \/ start(s, list) = ruleFromBlock(s.how, s.value, existing)
      \/ start(s, list) = Nothing
      \/ r # Nothing /\ start(s, list) \in {ruleWithAllow(r, s.value), mergeDefault(r), r}
  <2>1. start(s, list) = CASE s.how = "tpl" -> fromTemplate(existing)
                          [] s.how \in RuleKinds -> ruleFromBlock(s.how, s.value, existing)
                          [] s.how = "allow" /\ r # Nothing -> ruleWithAllow(r, s.value)
                          [] s.how = "default" /\ r # Nothing -> mergeDefault(r)
                          [] OTHER -> r
    BY DEF start
  <2> HIDE DEF r, existing
  <2>2. QED
    BY <2>1
<1> HIDE DEF r, existing
<1>7. QED
  BY <1>1, <1>2, <1>3, <1>4, <1>5, <1>6

\* A new editor.
LEMMA FreshTyped ==
  ASSUME NEW s, NEW list, list # Nothing => RuleList(list), start(s, list) # Nothing
  PROVE  EditorTyped(Fresh(s, list))
<1> DEFINE r == start(s, list)
<1>1. RuleIn(r, PolicyIds) /\ PolicyIds \subseteq AllIds
  BY StartTyped DEF AllIds
<1> HIDE DEF r
<1>2. RuleIn(r, AllIds)
  BY <1>1 DEF RuleIn
<1>3. /\ DraftTyped(IF ~isSingleRule(r) THEN [r EXCEPT !.kind = "exec", !.lists = NoLists]
                    ELSE toDraft(r))
      /\ YamlTyped(IF ~isSingleRule(r) THEN r ELSE Nothing)
  BY <1>1, <1>2, DraftOfRule DEF YamlTyped
<1> DEFINE d == IF ~isSingleRule(r) THEN [r EXCEPT !.kind = "exec", !.lists = NoLists]
                ELSE toDraft(r)
           y == IF ~isSingleRule(r) THEN r ELSE Nothing
           m == IF ~isSingleRule(r) THEN "yaml" ELSE "easy"
<1>4. Fresh(s, list) = [rule |-> r, isNew |-> isNew(s), draft |-> d, mode |-> m, yaml |-> y,
                        check |-> Nothing]
  BY DEF Fresh, r
<1>5. DraftTyped(d) /\ YamlTyped(y) /\ m \in EditorModes
  BY <1>3 DEF EditorModes
<1> HIDE DEF d, y, m
<1>6. QED
  BY <1>1, <1>4, <1>5 DEF EditorTyped, CheckTyped

\* What "save" would send.
LEMMA CurrentTyped ==
  ASSUME NEW e, EditorShape(e), EditorTyped(e), current(e) # Nothing
  PROVE  RuleIn(current(e), AllIds)
BY RuleOfDraft DEF current, EditorTyped, DraftTyped, YamlTyped

-----------------------------------------------------------------------------
\* A policy that is checked as it is mounted.
LEMMA FreshCurrentTyped ==
  ASSUME NEW s, NEW list, list # Nothing => RuleList(list), start(s, list) # Nothing
  PROVE  current(Fresh(s, list)) = Nothing \/ RuleIn(current(Fresh(s, list)), PolicyIds)
<1> DEFINE r == start(s, list)
           d == IF ~isSingleRule(r) THEN [r EXCEPT !.kind = "exec", !.lists = NoLists]
                ELSE toDraft(r)
           y == IF ~isSingleRule(r) THEN r ELSE Nothing
           m == IF ~isSingleRule(r) THEN "yaml" ELSE "easy"
           e == Fresh(s, list)
<1>1. RuleIn(r, PolicyIds) /\ PolicyIds \subseteq AllIds
  BY StartTyped DEF AllIds
<1>2. e = [rule |-> r, isNew |-> isNew(s), draft |-> d, mode |-> m, yaml |-> y,
           check |-> Nothing]
  BY DEF Fresh
<1>3. m # "yaml" => RuleIn(d, PolicyIds)
  <2> HIDE DEF r
  <2>1. QED
    BY <1>1, DraftOfRule
<1>4. y = Nothing \/ RuleIn(y, PolicyIds)
  <2> HIDE DEF r
  <2>1. QED
    BY <1>1
<1> HIDE DEF r, d, y, m, e
<1>5. e.mode = m /\ e.draft = d /\ e.yaml = y
  BY <1>2
<1>6. current(e) \in {Nothing, toRule(d), y} /\ (m = "yaml" => current(e) \in {Nothing, y})
  BY <1>5 DEF current
<1>7. m # "yaml" => RuleIn(toRule(d), PolicyIds)
  BY <1>3, RuleOfDraft
<1>8. QED
  BY <1>4, <1>6, <1>7 DEF e

\* The editor goes to its check page.
LEMMA CheckedTyped ==
  ASSUME NEW e, EditorShape(e), EditorTyped(e), NEW r, RuleIn(r, PolicyIds)
  PROVE  EditorTyped(Checked(e, r))
<1>1. CheckTyped([rule |-> r, preview |-> Nothing])
  BY DEF CheckTyped
<1>2. QED
  BY <1>1, EditorFieldsSet DEF Checked

LEMMA MountTyped ==
  ASSUME NEW s, NEW list, list # Nothing => RuleList(list), Mount(s, list)
  PROVE  MountedTyped(editor') /\ PreviewsTyped(previews', editor')
<1> DEFINE e == Fresh(s, list)
           r == current(e)
<1>1. CASE editor' = Nothing /\ previews' = {}
  BY <1>1 DEF MountedTyped, PreviewsTyped
<1>2. CASE start(s, list) # Nothing /\ editor' = e /\ previews' = {}
  BY <1>2, FreshTyped DEF MountedTyped, PreviewsTyped
<1>3. CASE /\ start(s, list) # Nothing /\ r # Nothing
           /\ editor' = Checked(e, r) /\ previews' = Asked(r)
  <2>1. EditorShape(e) /\ EditorTyped(e)
    BY <1>3, FreshShape, FreshTyped
  <2>2. RuleIn(r, PolicyIds)
    BY <1>3, FreshCurrentTyped
  <2>3. EditorTyped(editor')
    BY <1>3, <2>1, <2>2, CheckedTyped
  <2>4. \A c \in previews' : c.rule = r
    BY <1>3 DEF Asked
  <2>5. QED
    BY <2>2, <2>3, <2>4 DEF MountedTyped, PreviewsTyped
<1>4. QED
  BY <1>1, <1>2, <1>3 DEF Mount

\* The invariant of the next state from its parts.
LEMMA TypedNext ==
  ASSUME PolicyEditInv', RulesTyped(storedRules', rules', rulesGet'), MountedTyped(editor'),
         SavesTyped(saves', editor'), PreviewsTyped(previews', editor')
  PROVE  PolicyEditTyped'
<1>1. RulesTyped(storedRules, rules, rulesGet)'
  BY DEF RulesTyped, RuleList, RuleIn, RuleShape
<1>2. MountedTyped(editor)'
  BY DEF MountedTyped, EditorTyped, RuleIn, RuleShape, DraftTyped, YamlTyped, CheckTyped
<1>3. SavesTyped(saves, editor)'
  BY DEF SavesTyped, EditorTyped, RuleIn, RuleShape, DraftTyped, YamlTyped, CheckTyped
<1>4. PreviewsTyped(previews, editor)'
  BY DEF PreviewsTyped, EditorTyped, RuleIn, RuleShape, DraftTyped, YamlTyped, CheckTyped
<1>5. QED
  BY <1>1, <1>2, <1>3, <1>4 DEF PolicyEditTyped

\* The editor that is mounted changes and nothing is sent.
EditorStepTyped ==
  /\ UNCHANGED <<storedRules, rules, rulesGet, saves>> /\ EditorTyped(editor')
  /\ \A c \in previews' : c.current => RuleIn(c.rule, PolicyIds)

LEMMA EditorStepKeeps ==
  ASSUME PolicyEditTyped, PolicyEditInv', EditorStepTyped
  PROVE  PolicyEditTyped'
<1>1. RulesTyped(storedRules', rules', rulesGet')
  BY DEF PolicyEditTyped, EditorStepTyped
<1>2. MountedTyped(editor') /\ SavesTyped(saves', editor') /\ PreviewsTyped(previews', editor')
  BY DEF PolicyEditTyped, EditorStepTyped, MountedTyped, SavesTyped, PreviewsTyped
<1>3. QED
  BY <1>1, <1>2, TypedNext

\* Its previews stay.
LEMMA SamePreviewsTyped ==
  ASSUME PolicyEditTyped, UNCHANGED <<storedRules, rules, rulesGet, saves, previews>>,
         EditorTyped(editor')
  PROVE  EditorStepTyped
BY DEF PolicyEditTyped, PreviewsTyped, EditorStepTyped

LEMMA MountedHasShape ==
  ASSUME PolicyEditTyped, editor # Nothing
  PROVE  EditorShape(editor) /\ EditorTyped(editor)
BY DEF PolicyEditTyped, PolicyEditInv, EditInv, MountedTyped

LEMMA EditTyped ==
  ASSUME PolicyEditTyped, NEW d, Edit(d), DraftTyped(d)
  PROVE  EditorStepTyped
BY MountedHasShape, EditorFieldsSet, SamePreviewsTyped DEF Edit, Editing, Set

LEMMA YamlWritesTyped ==
  ASSUME PolicyEditTyped, NEW r, YamlWrites(r), YamlTyped(r)
  PROVE  EditorStepTyped
BY MountedHasShape, EditorFieldsSet, SamePreviewsTyped DEF YamlWrites, Editing, Set

\* Two fields of a rule set together.
LEMMA TwoFieldsSet ==
  ASSUME NEW r, NEW ids, RuleIn(r, ids), NEW v, NEW w
  PROVE  /\ RuleIn([r EXCEPT !.action = v, !.dry = w], ids)
         /\ [r EXCEPT !.action = v, !.dry = w].kind = r.kind
         /\ v \in ids => RuleIn([r EXCEPT !.id = v, !.lists = w], ids)
<1> DEFINE r1 == [r EXCEPT !.action = v]
           r2 == [r EXCEPT !.id = v]
<1>1. RuleShape(r1) /\ r1.id = r.id /\ r1.kind = r.kind /\ RuleShape(r2) /\ r2.id = v
  BY RuleFieldsSet DEF RuleIn
<1>2. /\ [r EXCEPT !.action = v, !.dry = w] = [r1 EXCEPT !.dry = w]
      /\ [r EXCEPT !.id = v, !.lists = w] = [r2 EXCEPT !.lists = w]
  OBVIOUS
<1> HIDE DEF r1, r2
<1>3. /\ RuleShape([r1 EXCEPT !.dry = w]) /\ [r1 EXCEPT !.dry = w].id = r1.id
      /\ [r1 EXCEPT !.dry = w].kind = r1.kind
      /\ RuleShape([r2 EXCEPT !.lists = w]) /\ [r2 EXCEPT !.lists = w].id = r2.id
  BY <1>1, RuleFieldsSet
<1>4. QED
  BY <1>1, <1>2, <1>3 DEF RuleIn

\* Whatever is done on the form keeps a draft of a single rule.
LEMMA UserEditsTyped ==
  ASSUME PolicyEditTyped, editor # Nothing, UserEdits
  PROVE  EditorStepTyped
<1> DEFINE d == editor.draft
<1>1. EditorShape(editor) /\ EditorTyped(editor)
  BY MountedHasShape
<1>2. RuleIn(d, AllIds) /\ RuleShape(d) /\ d.id \in AllIds /\ d.kind \in RuleKinds
  BY <1>1 DEF EditorTyped, DraftTyped, RuleIn
<1> HIDE DEF d
<1>3. ASSUME NEW f, NEW xs PROVE DraftTyped(withList(d, f, xs))
  <2>1. withList(d, f, xs) = [d EXCEPT !.lists = [d.lists EXCEPT ![f] = xs]]
    BY DEF withList
  <2>2. QED
    BY <1>2, <2>1, RuleFieldsSet DEF DraftTyped, RuleIn
<1>4. ASSUME NEW k \in UsedKinds, PickKind(k) PROVE EditorStepTyped
  <2>1. DraftTyped([d EXCEPT !.kind = k])
    BY <1>2, RuleFieldsSet, PolicyEditAssumption DEF DraftTyped, RuleIn
  <2>2. QED
    BY <1>4, <2>1, EditTyped DEF PickKind, d
<1>5. ASSUME NEW a, PickAct(a) PROVE EditorStepTyped
  <2> DEFINE v == IF a = "alert" THEN a ELSE "kill"
             w == a = "dry"
  <2>1. Edit([d EXCEPT !.action = v, !.dry = w])
    BY <1>5 DEF PickAct, d
  <2> HIDE DEF v, w
  <2>2. DraftTyped([d EXCEPT !.action = v, !.dry = w])
    BY <1>2, TwoFieldsSet DEF DraftTyped
  <2>3. QED
    BY <2>1, <2>2, EditTyped
<1>6. ASSUME NEW n, PickLimit(n) PROVE EditorStepTyped
  <2>1. DraftTyped([d EXCEPT !.limit = n])
    BY <1>2, RuleFieldsSet DEF DraftTyped, RuleIn
  <2>2. QED
    BY <1>6, <2>1, EditTyped DEF PickLimit, d
<1>7. ASSUME NEW i \in AllIds, PickId(i) PROVE EditorStepTyped
  <2>1. DraftTyped([d EXCEPT !.id = i])
    BY <1>2, RuleFieldsSet DEF DraftTyped, RuleIn
  <2>2. QED
    BY <1>7, <2>1, EditTyped DEF PickId, d
<1>8. ASSUME NEW f, NEW xs, Edit(withList(editor.draft, f, xs)) PROVE EditorStepTyped
  <2>1. DraftTyped(withList(editor.draft, f, xs))
    BY <1>3 DEF d
  <2>2. QED
    BY <1>8, <2>1, EditTyped
<1>9. ASSUME NEW xs, PickScope(xs) PROVE EditorStepTyped
  BY <1>8, <1>9 DEF PickScope
<1>10. ASSUME NEW g, NEW p, ChipAdds(g, p) PROVE EditorStepTyped
  BY <1>8, <1>10 DEF ChipAdds
<1>11. ASSUME NEW f, NEW p, ChipRemoves(f, p) PROVE EditorStepTyped
  BY <1>8, <1>11 DEF ChipRemoves
<1>12. ASSUME NEW f, NEW xs, FormWrites(f, xs) PROVE EditorStepTyped
  BY <1>8, <1>12 DEF FormWrites
<1>13. CASE PickDisabled
  <2>1. DraftTyped([d EXCEPT !.disabled = ~d.disabled])
    BY <1>2, RuleFieldsSet DEF DraftTyped, RuleIn
  <2>2. QED
    BY <1>13, <2>1, EditTyped DEF PickDisabled, d
<1>14. ASSUME NEW i \in PolicyIds, YamlWrites([editor.rule EXCEPT !.id = i, !.lists = NoLists])
       PROVE  EditorStepTyped
  <2>1. RuleIn(editor.rule, PolicyIds)
    BY <1>1 DEF EditorTyped
  <2>2. RuleIn([editor.rule EXCEPT !.id = i, !.lists = NoLists], PolicyIds)
    BY <2>1, TwoFieldsSet
  <2>3. YamlTyped([editor.rule EXCEPT !.id = i, !.lists = NoLists])
    BY <2>2 DEF YamlTyped, RuleIn, AllIds
  <2>4. QED
    BY <1>14, <2>3, YamlWritesTyped
<1>15. CASE YamlWrites([editor.rule EXCEPT !.kind = "sequence"])
  <2>1. RuleShape(editor.rule) /\ editor.rule.id \in AllIds
    BY <1>1 DEF EditorTyped, RuleIn, AllIds
  <2>2. YamlTyped([editor.rule EXCEPT !.kind = "sequence"])
    BY <2>1, RuleFieldsSet DEF YamlTyped, RuleIn
  <2>3. QED
    BY <1>15, <2>2, YamlWritesTyped
<1>16. CASE YamlWrites(Nothing)
  BY <1>16, YamlWritesTyped DEF YamlTyped
<1>17. QED
  BY <1>4, <1>5, <1>6, <1>7, <1>9, <1>10, <1>11, <1>12, <1>13, <1>14, <1>15, <1>16
     DEF UserEdits, AllIds

\* Another way of editing: the draft is written as YAML, or the YAML read.
LEMMA SwitchModeTyped ==
  ASSUME PolicyEditTyped, NEW m \in EditorModes, switchMode(m)
  PROVE  EditorStepTyped
<1>1. /\ EditorShape(editor) /\ EditorTyped(editor)
      /\ UNCHANGED <<storedRules, rules, rulesGet, saves, previews>>
  BY MountedHasShape DEF switchMode, Editing, Set
<1> DEFINE e == [editor EXCEPT !.mode = m]
<1>2. EditorShape(e) /\ EditorTyped(e)
  BY <1>1, FieldsKeepShape, EditorFieldsSet
<1>3. CASE editor' = [editor EXCEPT !.mode = m, !.yaml = toRule(editor.draft)]
  <2>1. YamlTyped(toRule(editor.draft))
    BY <1>1, RuleOfDraft DEF YamlTyped, EditorTyped, DraftTyped
  <2>2. editor' = [e EXCEPT !.yaml = toRule(editor.draft)]
    BY <1>3
  <2> HIDE DEF e
  <2>3. QED
    BY <1>1, <1>2, <2>1, <2>2, EditorFieldsSet, SamePreviewsTyped
<1>4. CASE /\ editor.yaml # Nothing /\ isSingleRule(editor.yaml)
           /\ editor' = [editor EXCEPT !.mode = m, !.draft = toDraft(editor.yaml)]
  <2>1. DraftTyped(toDraft(editor.yaml))
    BY <1>1, <1>4, DraftOfRule DEF EditorTyped, YamlTyped
  <2>2. editor' = [e EXCEPT !.draft = toDraft(editor.yaml)]
    BY <1>4
  <2> HIDE DEF e
  <2>3. QED
    BY <1>1, <1>2, <2>1, <2>2, EditorFieldsSet, SamePreviewsTyped
<1>5. CASE editor' = e
  BY <1>1, <1>2, <1>5, SamePreviewsTyped
<1>6. QED
  BY <1>3, <1>4, <1>5 DEF switchMode, Set

\* To the check page and back.
LEMMA CheckStepsTyped ==
  ASSUME PolicyEditTyped, openCheck \/ BackToEdit
  PROVE  EditorStepTyped
<1>1. /\ EditorShape(editor) /\ EditorTyped(editor)
      /\ UNCHANGED <<storedRules, rules, rulesGet, saves>>
  BY MountedHasShape DEF openCheck, BackToEdit, Editing
<1>2. \A c \in Drop(previews) : ~c.current
  BY DroppedFit DEF PolicyEditTyped, PolicyEditInv, EditInv
<1>3. CASE openCheck
  <2>1. /\ current(editor) # Nothing /\ current(editor).id \notin BadIds
        /\ editor' = Checked(editor, current(editor))
        /\ previews' = Drop(previews) \cup Asked(current(editor))
    BY <1>3 DEF openCheck
  <2>2. RuleIn(current(editor), PolicyIds)
    BY <1>1, <2>1, CurrentTyped DEF RuleIn, AllIds
  <2>3. \A c \in Asked(current(editor)) : c.rule = current(editor)
    BY DEF Asked
  <2>4. EditorTyped(editor')
    BY <1>1, <2>1, <2>2, CheckedTyped
  <2>5. QED
    BY <1>1, <1>2, <2>1, <2>2, <2>3, <2>4 DEF EditorStepTyped
<1>4. CASE BackToEdit
  <2>1. editor' = [editor EXCEPT !.check = Nothing] /\ CheckTyped(Nothing)
        /\ previews' = Drop(previews)
    BY <1>4 DEF BackToEdit, CheckTyped
  <2>2. QED
    BY <1>1, <1>2, <2>1, EditorFieldsSet DEF EditorStepTyped
<1>5. QED
  BY <1>3, <1>4

\* A preview answered for the rule on the check page.
LEMMA PreviewTakenTyped ==
  ASSUME PolicyEditTyped, NEW c \in previews, PreviewTaken(c), c.current
  PROVE  EditorStepTyped
<1>1. /\ UNCHANGED <<storedRules, rules, rulesGet, saves>> /\ previews' \subseteq previews
      /\ editor' = [editor EXCEPT !.check.preview = c.rule]
  BY DEF PreviewTaken
<1>2. /\ EditorShape(editor) /\ EditorTyped(editor) /\ RuleIn(c.rule, PolicyIds)
      /\ \E p : editor.check = [rule |-> c.rule, preview |-> p]
  BY DEF PolicyEditTyped, PolicyEditInv, EditInv, PreviewsFit, PreviewsTyped
<1>3. PICK p : editor.check = [rule |-> c.rule, preview |-> p]
  BY <1>2
<1> DEFINE k == [editor.check EXCEPT !.preview = c.rule]
<1>4. k = [rule |-> c.rule, preview |-> c.rule] /\ editor' = [editor EXCEPT !.check = k]
  BY <1>1, <1>3
<1> HIDE DEF k
<1>5. CheckTyped(k)
  BY <1>2, <1>4 DEF CheckTyped
<1>6. EditorTyped(editor')
  BY <1>2, <1>4, <1>5, EditorFieldsSet
<1>7. QED
  BY <1>1, <1>6 DEF PolicyEditTyped, PreviewsTyped, EditorStepTyped

-----------------------------------------------------------------------------
\* Saves nobody waits for any more.
LEMMA DisownedTyped ==
  ASSUME PolicyEditTyped, NEW cs, cs \subseteq saves, NEW e
  PROVE  SavesTyped(Disown(cs), e)
<1> SUFFICES ASSUME NEW c \in cs
             PROVE  /\ RuleIn([c EXCEPT !.mine = FALSE].rule, PolicyIds)
                    /\ ~[c EXCEPT !.mine = FALSE].mine
  BY DEF SavesTyped, Disown
<1>1. PICK rule, own, at : c = [rule |-> rule, mine |-> own, at |-> at]
  BY DEF PolicyEditTyped, PolicyEditInv, OwnersInv, SaveShape
<1>2. \A x : [c EXCEPT !.mine = x] = [rule |-> rule, mine |-> x, at |-> at]
  BY <1>1
<1>3. [c EXCEPT !.mine = FALSE] = [rule |-> rule, mine |-> FALSE, at |-> at]
  BY <1>2
<1>4. RuleIn(rule, PolicyIds)
  BY <1>1 DEF PolicyEditTyped, SavesTyped
<1>5. QED
  BY <1>3, <1>4

\* Something else is selected.
LEMMA ShowTyped ==
  ASSUME PolicyEditTyped, PolicyEditInv', NEW s, Show(s), UNCHANGED rules,
         RulesTyped(storedRules', rules', rulesGet'), SavesTyped(saves', editor')
  PROVE  PolicyEditTyped'
<1>1. rules # Nothing => RuleList(rules)
  BY DEF PolicyEditTyped, RulesTyped
<1>2. MountedTyped(editor') /\ PreviewsTyped(previews', editor')
  <2>1. CASE UNCHANGED <<editor, previews>>
    BY <2>1 DEF PolicyEditTyped
  <2>2. CASE Mount(s, rules)
    BY <1>1, <2>2, MountTyped
  <2>3. QED
    BY <2>1, <2>2 DEF Show
<1>3. QED
  BY <1>2, TypedNext

LEMMA RulesMoveTyped ==
  ASSUME PolicyEditTyped, PolicyEditInv',
         RulesAnswered \/ RulesTaken \/ \E i \in PolicyIds : OtherSaves(i)
  PROVE  PolicyEditTyped'
<1>1. RulesTyped(storedRules, rules, rulesGet)
  BY DEF PolicyEditTyped
<1>2. ASSUME UNCHANGED <<editor, saves, previews>>, RulesTyped(storedRules', rules', rulesGet')
      PROVE  PolicyEditTyped'
  BY <1>2, TypedNext DEF PolicyEditTyped
<1>3. CASE RulesAnswered
  <2>1. RulesTyped(storedRules', rules', rulesGet')
    BY <1>1, <1>3 DEF RulesAnswered, RulesTyped, Answer
  <2>2. QED
    BY <1>2, <1>3, <2>1 DEF RulesAnswered, pageVars
<1>4. CASE RulesTaken
  <2>1. RulesTyped(storedRules', rules', rulesGet')
    BY <1>1, <1>4 DEF RulesTaken, RulesTyped, Idle
  <2>2. CASE UNCHANGED <<editor, previews, saves>>
    BY <1>2, <2>1, <2>2
  <2>3. CASE Mount(sel, rules') /\ saves' = Disown(saves)
    <3>1. SavesTyped(saves', editor')
      BY <2>3, DisownedTyped
    <3>2. MountedTyped(editor') /\ PreviewsTyped(previews', editor')
      BY <2>1, <2>3, MountTyped DEF RulesTyped
    <3>3. QED
      BY <2>1, <3>1, <3>2, TypedNext
  <2>4. QED
    BY <1>4, <2>2, <2>3 DEF RulesTaken
<1>5. ASSUME NEW i \in PolicyIds, OtherSaves(i) PROVE PolicyEditTyped'
  <2>1. /\ storedRules[i] # Nothing /\ UNCHANGED <<rules, rulesGet>>
        /\ \E v : storedRules' = [storedRules EXCEPT ![i] = [storedRules[i] EXCEPT !.disabled = v]]
    BY <1>5 DEF OtherSaves
  <2>2. PICK v : storedRules' = [storedRules EXCEPT ![i] = [storedRules[i] EXCEPT !.disabled = v]]
    BY <2>1
  <2>3. RuleIn(storedRules[i], PolicyIds) /\ DOMAIN storedRules = PolicyIds /\ RuleList(storedRules)
    BY <1>1, <2>1 DEF RulesTyped, RuleList
  <2> DEFINE r == [storedRules[i] EXCEPT !.disabled = v]
  <2>4. RuleIn(r, PolicyIds)
    BY <2>3, RuleFieldsSet DEF RuleIn
  <2>5. storedRules' = [storedRules EXCEPT ![i] = r]
    BY <2>2
  <2> HIDE DEF r
  <2>6. DOMAIN storedRules' = PolicyIds /\ RuleList(storedRules')
    BY <2>3, <2>4, <2>5 DEF RuleList
  <2>7. RulesTyped(storedRules', rules', rulesGet')
    BY <1>1, <2>1, <2>6 DEF RulesTyped
  <2>8. QED
    BY <1>2, <1>5, <2>7 DEF OtherSaves, pageVars
<1>6. QED
  BY <1>3, <1>4, <1>5

\* A save sent, carried out or failed.
LEMMA SavesMoveTyped ==
  ASSUME PolicyEditTyped, PolicyEditInv', SaveSent \/ \E c \in saves : SaveDone(c)
  PROVE  PolicyEditTyped'
<1>1. /\ RulesTyped(storedRules, rules, rulesGet) /\ SavesTyped(saves, editor)
      /\ UNCHANGED <<editor, previews, rules, rulesGet>>
  BY DEF PolicyEditTyped, SaveSent, SaveDone
<1>2. ASSUME SavesTyped(saves', editor'), RulesTyped(storedRules', rules', rulesGet')
      PROVE  PolicyEditTyped'
  BY <1>1, <1>2, TypedNext DEF PolicyEditTyped
<1>3. CASE SaveSent
  <2>1. editor # Nothing /\ editor.check # Nothing /\ UNCHANGED storedRules
    BY <1>3 DEF SaveSent
  <2>2. EditorTyped(editor) /\ RuleIn(editor.check.rule, PolicyIds)
    BY <2>1, MountedHasShape DEF EditorTyped, CheckTyped
  <2>3. \A c \in saves' : c \in saves
           \/ c = [rule |-> editor.check.rule, mine |-> TRUE, at |-> "sent"]
    BY <1>3 DEF SaveSent
  <2>4. SavesTyped(saves', editor')
    BY <1>1, <2>2, <2>3 DEF SavesTyped
  <2>5. QED
    BY <1>1, <1>2, <2>1, <2>4
<1>4. ASSUME NEW c \in saves, SaveDone(c) PROVE PolicyEditTyped'
  <2>1. PICK rule, own, at : c = [rule |-> rule, mine |-> own, at |-> at]
    BY DEF PolicyEditTyped, PolicyEditInv, OwnersInv, SaveShape
  <2>2. RuleIn(rule, PolicyIds) /\ (own => EditorTyped(editor))
    BY <1>1, <2>1 DEF SavesTyped
  <2>3. PICK x : saves' = (saves \ {c}) \cup {[c EXCEPT !.at = x]}
    BY <1>4 DEF SaveDone
  <2>4. [c EXCEPT !.at = x] = [rule |-> rule, mine |-> own, at |-> x]
    BY <2>1
  <2>5. saves' = (saves \ {c}) \cup {[rule |-> rule, mine |-> own, at |-> x]}
    BY <2>3, <2>4
  <2>6. SavesTyped(saves', editor')
    BY <1>1, <2>2, <2>5 DEF SavesTyped
  <2>7. UNCHANGED storedRules \/ storedRules' = [storedRules EXCEPT ![rule.id] = rule]
    BY <1>4, <2>1 DEF SaveDone
  <2>8. DOMAIN storedRules' = PolicyIds /\ RuleList(storedRules')
    BY <1>1, <2>2, <2>7 DEF RulesTyped, RuleList
  <2>9. RulesTyped(storedRules', rules', rulesGet')
    BY <1>1, <2>8 DEF RulesTyped
  <2>10. QED
    BY <1>2, <2>6, <2>9
<1>5. QED
  BY <1>3, <1>4

\* A save answered: the editor shows what was saved, unless it is gone.
LEMMA SaveTakenTyped ==
  ASSUME PolicyEditTyped, PolicyEditInv', NEW c \in saves, SaveTaken(c)
  PROVE  PolicyEditTyped'
<1>1. RuleIn(c.rule, PolicyIds) /\ (c.mine => EditorTyped(editor) /\ EditorShape(editor))
  BY DEF PolicyEditTyped, SavesTyped, PolicyEditInv, OwnersInv
<1>2. SavesTyped(saves', editor')
  <2>1. saves' = Disown(saves \ {c}) /\ saves \ {c} \subseteq saves
    BY DEF SaveTaken
  <2>2. QED
    BY <2>1, DisownedTyped
<1>3. RulesTyped(storedRules', rules', rulesGet')
  BY DEF SaveTaken, PolicyEditTyped, RulesTyped, Sent
<1>4. MountedTyped(editor') /\ PreviewsTyped(previews', editor')
  <2>1. CASE UNCHANGED <<editor, previews>>
    BY <2>1 DEF PolicyEditTyped
  <2>2. CASE \E s : Mount(s, rules)
    BY <2>2, MountTyped DEF PolicyEditTyped, RulesTyped
  <2>3. CASE /\ c.mine /\ previews' = Drop(previews)
             /\ \/ editor' = [editor EXCEPT !.check = Nothing]
                \/ editor' = [editor EXCEPT !.check = Nothing,
                                 !.draft = IF isSingleRule(c.rule) THEN toDraft(c.rule) ELSE @]
    <3>1. \A b \in previews' : ~b.current
      BY <2>3, DroppedFit DEF PolicyEditTyped, PolicyEditInv, EditInv
    <3> DEFINE e == [editor EXCEPT !.check = Nothing]
               d == IF isSingleRule(c.rule) THEN toDraft(c.rule) ELSE editor.draft
    <3>2. EditorShape(e) /\ EditorTyped(e)
      BY <1>1, <2>3, CheckLeftShape, EditorFieldsSet DEF CheckTyped
    <3>3. DraftTyped(d)
      BY <1>1, <2>3, DraftOfRule DEF AllIds, EditorTyped
    <3>4. editor' = e \/ editor' = [e EXCEPT !.draft = d]
      BY <1>1, <2>3 DEF EditorShape
    <3> HIDE DEF e, d
    <3>5. EditorTyped(editor')
      BY <3>2, <3>3, <3>4, EditorFieldsSet
    <3>6. QED
      BY <3>1, <3>5 DEF MountedTyped, PreviewsTyped
  <2>4. QED
    BY <2>1, <2>2, <2>3 DEF SaveTaken
<1>5. QED
  BY <1>2, <1>3, <1>4, TypedNext

LEMMA PolicyEditTypedInit ==
  PolicyEditInit => PolicyEditTyped
<1> SUFFICES ASSUME PolicyEditInit PROVE PolicyEditTyped
  OBVIOUS
<1>1. PolicyEditInv
  BY PolicyEditInvInit
<1>2. RuleList(StoredRules) /\ DOMAIN StoredRules = PolicyIds
  BY PolicyEditAssumption, PolicyIsRule DEF RuleList
<1>3. RulesTyped(storedRules, rules, rulesGet)
  BY <1>2 DEF PolicyEditInit, RulesTyped, Sent
<1>4. MountedTyped(editor)
  BY FreshTyped DEF PolicyEditInit, MountedTyped
<1>5. SavesTyped(saves, editor) /\ PreviewsTyped(previews, editor)
  BY DEF PolicyEditInit, SavesTyped, PreviewsTyped
<1>6. QED
  BY <1>1, <1>3, <1>4, <1>5 DEF PolicyEditTyped

LEMMA PolicyEditTypedNext ==
  PolicyEditTyped /\ [PolicyEditNext]_policyEditVars => PolicyEditTyped'
<1> SUFFICES ASSUME PolicyEditTyped, [PolicyEditNext]_policyEditVars PROVE PolicyEditTyped'
  OBVIOUS
<1>1. PolicyEditInv'
  BY PolicyEditInvNext DEF PolicyEditTyped
<1>2. RulesTyped(storedRules, rules, rulesGet) /\ SavesTyped(saves, editor)
  BY DEF PolicyEditTyped
<1>3. ASSUME EditorStepTyped PROVE PolicyEditTyped'
  BY <1>1, <1>3, EditorStepKeeps
<1>4. CASE UNCHANGED policyEditVars
  BY <1>1, <1>4, TypedNext DEF policyEditVars, pageVars, PolicyEditTyped
<1>5. CASE RulesAnswered \/ RulesTaken \/ \E i \in PolicyIds : OtherSaves(i)
  BY <1>1, <1>5, RulesMoveTyped
<1>6. CASE AutoSelects
  <2>1. sel = Nothing /\ UNCHANGED <<storedRules, rules, rulesGet, saves>> /\ \E s : Show(s)
    BY <1>6 DEF AutoSelects
  <2>2. SavesTyped(saves', editor')
    BY <1>2, <2>1 DEF SavesTyped, PolicyEditTyped, PolicyEditInv, OwnersInv
  <2>3. QED
    BY <1>1, <1>2, <2>1, <2>2, ShowTyped
<1>7. ASSUME NEW s \in Selections, SelectPolicy(s) PROVE PolicyEditTyped'
  <2>1. Show(s) /\ UNCHANGED <<storedRules, rules, rulesGet>> /\ saves' = Disown(saves)
    BY <1>7 DEF SelectPolicy
  <2>2. SavesTyped(saves', editor')
    BY <2>1, DisownedTyped
  <2>3. QED
    BY <1>1, <1>2, <2>1, <2>2, ShowTyped
<1>8. CASE remove
  <2>1. Show(Nothing) /\ UNCHANGED <<rules, saves>> /\ rulesGet' = Sent
        /\ storedRules' = [storedRules EXCEPT ![editor.rule.id] = Nothing]
        /\ \A c \in saves : ~c.mine
    BY <1>8 DEF remove, editorBusy
  <2>2. SavesTyped(saves', editor')
    BY <1>2, <2>1 DEF SavesTyped
  <2>3. DOMAIN storedRules' = PolicyIds /\ RuleList(storedRules')
    BY <1>2, <2>1 DEF RulesTyped, RuleList
  <2>4. RulesTyped(storedRules', rules', rulesGet')
    BY <1>2, <2>1, <2>3 DEF RulesTyped, Sent
  <2>5. QED
    BY <1>1, <2>1, <2>2, <2>4, ShowTyped
<1>9. CASE Editing /\ UserEdits
  BY <1>3, <1>9, UserEditsTyped DEF Editing
<1>10. ASSUME NEW m \in EditorModes, switchMode(m) PROVE PolicyEditTyped'
  BY <1>3, <1>10, SwitchModeTyped
<1>11. CASE openCheck \/ BackToEdit
  BY <1>3, <1>11, CheckStepsTyped
<1>12. ASSUME NEW c \in previews, PreviewTaken(c) PROVE PolicyEditTyped'
  <2>1. CASE c.current
    BY <1>3, <1>12, <2>1, PreviewTakenTyped
  <2>2. CASE ~c.current
    <3>1. UNCHANGED <<storedRules, rules, rulesGet, saves, editor>> /\ previews' \subseteq previews
      BY <1>12, <2>2 DEF PreviewTaken
    <3>2. MountedTyped(editor') /\ SavesTyped(saves', editor') /\ PreviewsTyped(previews', editor')
      BY <3>1 DEF PolicyEditTyped, PreviewsTyped
    <3>3. QED
      BY <1>1, <1>2, <3>1, <3>2, TypedNext
  <2>3. QED
    BY <2>1, <2>2
<1>13. CASE SaveSent \/ \E c \in saves : SaveDone(c)
  BY <1>1, <1>13, SavesMoveTyped
<1>14. ASSUME NEW c \in saves, SaveTaken(c) PROVE PolicyEditTyped'
  BY <1>1, <1>14, SaveTakenTyped
<1>15. QED
  BY <1>4, <1>5, <1>6, <1>7, <1>8, <1>9, <1>10, <1>11, <1>12, <1>13, <1>14
     DEF PolicyEditNext, EditorModes

LEMMA PolicyEditTypesFollow ==
  PolicyEditTyped => PolicyEditTypeOK
BY DEF PolicyEditTyped, PolicyEditInv, OwnersInv, RulesTyped, MountedTyped, EditorTyped,
       DraftTyped, SavesTyped, RuleIn, EditorModes, PolicyEditTypeOK

\* Whatever administrators do in the editor, the rules of the page, of the
\* drafts, of the check page and of the saves under way stay rules: a draft is
\* of one of the four kinds, and what is saved names a policy, since openCheck
\* lets no id through that the server would refuse (PolicyEditor.tsx).
THEOREM PolicyEditTypes == PolicyEditSpec => []PolicyEditTypeOK
<1>1. QED
  BY PolicyEditTypedInit, PolicyEditTypedNext, PolicyEditTypesFollow, PTL DEF PolicyEditSpec


-----------------------------------------------------------------------------
(* The demonstration page and the event reader. *)

RunTyped(r) == r = Nothing \/ r.id \in Runs

\* The run a request to start one was answered with; nothing else is known of it.
DemoStartTyped == demoStart \in {Idle, Sent, Failed} \/ demoStart.data.id \in Runs
RunCallsTyped ==
  \A c \in runCalls : c.answer \in {Sent, Failed} \/ RunTyped(c.answer.data)
\* The evidence looked for is that of some run, not only of the one on the page.
EvidenceCallTyped ==
  evidenceCall # Nothing =>
    \E of \in Runs : \E left, answer :
      evidenceCall = [of |-> of, left |-> left, answer |-> answer]
EvidenceTyped(d) == d.evidence \in {Nothing, NoEvidence} \cup Runs

DemoTyped ==
  /\ DemoInv
  /\ demoStatus \in [Runs -> {"none", "running"} \cup Ended] /\ demoKilled \subseteq Runs
  /\ RunTyped(demo.run) /\ EvidenceTyped(demo)
  /\ RunCallsTyped /\ DemoStartTyped /\ EvidenceCallTyped

\* The run the server tells of is one.
LEMMA LatestTyped ==
  ASSUME DemoTyped
  PROVE  Latest = Nothing \/ Latest \in Runs
<1>1. CASE RunningRuns # {}
  BY <1>1 DEF Latest, RunningRuns
<1>2. CASE RunningRuns = {} /\ KnownRuns = {}
  BY <1>2 DEF Latest
<1>3. CASE RunningRuns = {} /\ KnownRuns # {}
  <2>1. KnownRuns \subseteq 1 .. MaxRun /\ MaxRun \in Nat
    BY DemoAssumption DEF KnownRuns, Runs
  <2>2. \E r \in KnownRuns : \A q \in KnownRuns : q <= r
    BY <1>3, <2>1, LargestOf
  <2>3. Latest \in KnownRuns
    BY <1>3, <2>2 DEF Latest
  <2>4. QED
    BY <2>3 DEF KnownRuns
<1>4. QED
  BY <1>1, <1>2, <1>3

\* Adopting a run leaves a page of that run.
LEMMA AdoptTyped ==
  ASSUME DemoTyped, NEW r, RunTyped(r)
  PROVE  /\ RunTyped(adopt(demo, r).run) /\ EvidenceTyped(adopt(demo, r))
BY DEF adopt, DemoTyped, EvidenceTyped

LEMMA DemoTypedInit ==
  DemoInit => DemoTyped
<1> SUFFICES ASSUME DemoInit PROVE DemoTyped
  OBVIOUS
<1>1. DemoInv
  BY DemoInvInit
<1>2. QED
  BY <1>1 DEF DemoInit, DemoTyped, RunTyped, EvidenceTyped, RunCallsTyped, DemoStartTyped,
               EvidenceCallTyped, DemoCall

\* The search for evidence is begun for the run on the page, goes on, or ends.
LEMMA EvidenceCallKept ==
  ASSUME DemoTyped, [DemoNext]_demoVars
  PROVE  EvidenceCallTyped'
<1>1. CASE UNCHANGED evidenceCall
  BY <1>1 DEF DemoTyped, EvidenceCallTyped
<1>2. CASE evidenceCall' = Nothing
  BY <1>2 DEF EvidenceCallTyped
<1>3. CASE AskEvidence
  <2>1. demo.run.id \in Runs
    BY <1>3 DEF AskEvidence, isolatedDone, DemoTyped, RunTyped
  <2>2. evidenceCall' = [of |-> demo.run.id, left |-> EvidenceTries, answer |-> Sent]
    BY <1>3 DEF AskEvidence
  <2>3. QED
    BY <2>1, <2>2 DEF EvidenceCallTyped
<1>4. CASE \E l, x : /\ evidenceCall # Nothing
                    /\ \/ evidenceCall' = [evidenceCall EXCEPT !.answer = x]
                       \/ evidenceCall' = [evidenceCall EXCEPT !.left = l, !.answer = x]
  <2>1. PICK of \in Runs : \E left, answer :
                evidenceCall = [of |-> of, left |-> left, answer |-> answer]
    BY <1>4 DEF DemoTyped, EvidenceCallTyped
  <2>2. PICK left, answer : evidenceCall = [of |-> of, left |-> left, answer |-> answer]
    BY <2>1
  <2>3. PICK l, x : \/ evidenceCall' = [evidenceCall EXCEPT !.answer = x]
                    \/ evidenceCall' = [evidenceCall EXCEPT !.left = l, !.answer = x]
    BY <1>4
  <2>4. \/ evidenceCall' = [of |-> of, left |-> left, answer |-> x]
        \/ evidenceCall' = [of |-> of, left |-> l, answer |-> x]
    BY <2>2, <2>3
  <2>5. QED
    BY <2>4 DEF EvidenceCallTyped
<1>5. CASE EvidenceReplied
  BY <1>4, <1>5 DEF EvidenceReplied
<1>6. CASE EvidenceTaken
  BY <1>2, <1>4, <1>6 DEF EvidenceTaken
<1>7. CASE EvidenceDropped
  BY <1>2, <1>7 DEF EvidenceDropped
<1>8. ASSUME NEW r \in Runs, OtherStarts(r) \/ RunKilled(r) \/ RunEnds(r) PROVE UNCHANGED evidenceCall
  BY <1>8 DEF OtherStarts, RunKilled, RunEnds, demoCalls
<1>9. ASSUME NEW c \in runCalls, RunReplied(c) \/ RunTaken(c) PROVE UNCHANGED evidenceCall
  BY <1>9 DEF RunReplied, RunTaken
<1>10. ASSUME NEW c \in sessionCalls, SessionReplied(c) \/ SessionTaken(c)
       PROVE  UNCHANGED evidenceCall
  BY <1>10 DEF SessionReplied, SessionTaken
<1>11. ASSUME UNCHANGED demoVars \/ PollRun \/ VerdictHeard \/ StartDemo \/ DemoStartReplied
              \/ DemoStartTaken
       PROVE  UNCHANGED evidenceCall
  BY <1>11 DEF demoVars, demoCalls, PollRun, VerdictHeard, StartDemo, DemoStartReplied,
               DemoStartTaken
<1>12. QED
  BY <1>1, <1>3, <1>5, <1>6, <1>7, <1>8, <1>9, <1>10, <1>11 DEF DemoNext

LEMMA DemoTypedNext ==
  DemoTyped /\ [DemoNext]_demoVars => DemoTyped'
<1> SUFFICES ASSUME DemoTyped, [DemoNext]_demoVars PROVE DemoTyped'
  OBVIOUS
<1>1. DemoInv' /\ EvidenceCallTyped'
  BY DemoInvNext, EvidenceCallKept DEF DemoTyped
<1>2. PICK r0, session, evidence, st0 :
        demo = [run |-> r0, session |-> session, evidence |-> evidence, starting |-> st0]
  BY DEF DemoTyped, DemoInv, DemoShaped
<1>3. RunTyped(r0) /\ evidence \in {Nothing, NoEvidence} \cup Runs
  BY <1>2 DEF DemoTyped, EvidenceTyped
<1> DEFINE PageTyped == RunTyped(demo.run) /\ EvidenceTyped(demo)
           StatusTyped == demoStatus \in [Runs -> {"none", "running"} \cup Ended] /\ demoKilled \subseteq Runs
<1>4. ASSUME UNCHANGED demoServer PROVE StatusTyped'
  BY <1>4 DEF DemoTyped, demoServer
<1>5. ASSUME UNCHANGED demo PROVE PageTyped'
  BY <1>5 DEF DemoTyped, RunTyped, EvidenceTyped
<1>6. ASSUME UNCHANGED runCalls PROVE RunCallsTyped'
  BY <1>6 DEF DemoTyped, RunTyped, RunCallsTyped
<1>7. ASSUME UNCHANGED demoStart PROVE DemoStartTyped'
  BY <1>7 DEF DemoTyped, DemoStartTyped
<1>8. ASSUME PageTyped', StatusTyped', RunCallsTyped', DemoStartTyped' PROVE DemoTyped'
  BY <1>1, <1>8 DEF DemoTyped
<1>9. ASSUME NEW cs, runCalls' = cs, cs \subseteq runCalls \cup {DemoCall(Nothing, Sent), DemoCall(Nothing, Failed)}
      PROVE  RunCallsTyped'
  BY <1>9 DEF DemoTyped, RunCallsTyped, RunTyped, DemoCall
<1> HIDE DEF PageTyped, StatusTyped
<1>10. CASE UNCHANGED demoVars
  BY <1>4, <1>5, <1>6, <1>7, <1>8, <1>10 DEF demoVars, demoCalls
<1>11. ASSUME NEW r \in Runs, NEW how \in {"running", "refused"}, RunStarts(r, how)
       PROVE  demoStatus' \in [Runs -> {"none", "running"} \cup Ended]
  BY <1>11 DEF RunStarts, DemoTyped, Ended
<1>12. ASSUME NEW r \in Runs, OtherStarts(r) \/ RunKilled(r) \/ RunEnds(r) PROVE DemoTyped'
  <2>1. StatusTyped'
    BY <1>11, <1>12 DEF OtherStarts, RunKilled, RunEnds, StatusTyped, DemoTyped, Ended
  <2>2. UNCHANGED <<demo, runCalls, demoStart>>
    BY <1>12 DEF OtherStarts, RunKilled, RunEnds, demoCalls
  <2>3. QED
    BY <1>5, <1>6, <1>7, <1>8, <2>1, <2>2
<1>13. ASSUME NEW c \in runCalls, RunReplied(c) PROVE DemoTyped'
  <2>1. UNCHANGED <<demoServer, demo, demoStart>>
    BY <1>13 DEF RunReplied
  <2>2. RunTyped(IF Latest = Nothing THEN Nothing ELSE RunSeen(Latest))
    BY LatestTyped DEF RunTyped, RunSeen
  <2>3. RunCallsTyped'
    <3> DEFINE x == IF Latest = Nothing THEN Nothing ELSE RunSeen(Latest)
    <3>1. runCalls' \subseteq runCalls \cup {DemoCall(Nothing, Failed)}
          \/ runCalls' = (runCalls \ {c}) \cup {DemoCall(Nothing, Answer(x))}
      BY <1>13 DEF RunReplied
    <3>2. DemoCall(Nothing, Answer(x)).answer.data = x
      BY DEF DemoCall, Answer
    <3> HIDE DEF x
    <3>3. RunTyped(x)
      BY <2>2 DEF x
    <3>4. \A b \in runCalls : b.answer \in {Sent, Failed} \/ RunTyped(b.answer.data)
      BY DEF DemoTyped, RunCallsTyped
    <3>5. \A b \in runCalls' : b.answer \in {Sent, Failed} \/ RunTyped(b.answer.data)
      BY <3>1, <3>2, <3>3, <3>4 DEF DemoCall
    <3>6. QED
      BY <3>5 DEF RunCallsTyped, RunTyped
  <2>4. QED
    BY <1>4, <1>5, <1>7, <1>8, <2>1, <2>3
<1>14. ASSUME NEW c \in runCalls, RunTaken(c) PROVE DemoTyped'
  <2>1. UNCHANGED <<demoServer, demoStart>> /\ runCalls' = runCalls \ {c}
    BY <1>14 DEF RunTaken
  <2>2. RunCallsTyped'
    BY <1>9, <2>1
  <2>3. CASE c.answer = Failed
    BY <1>4, <1>5, <1>7, <1>8, <1>14, <2>1, <2>2, <2>3 DEF RunTaken
  <2>4. CASE c.answer # Failed
    <3>1. demo' = adopt(demo, c.answer.data) /\ RunTyped(c.answer.data)
      BY <1>14, <2>4 DEF RunTaken, DemoTyped, RunCallsTyped
    <3>2. RunTyped(demo'.run) /\ EvidenceTyped(demo')
      BY <3>1, AdoptTyped
    <3>3. PageTyped'
      BY <3>2 DEF PageTyped, RunTyped, EvidenceTyped
    <3>4. QED
      BY <1>4, <1>7, <1>8, <2>1, <2>2, <3>3
  <2>5. QED
    BY <2>3, <2>4
<1>15. ASSUME NEW c \in sessionCalls, SessionReplied(c) PROVE DemoTyped'
  BY <1>4, <1>5, <1>6, <1>7, <1>8, <1>15 DEF SessionReplied
<1>16. ASSUME NEW c \in sessionCalls, SessionTaken(c) PROVE DemoTyped'
  <2>1. UNCHANGED <<demoServer, runCalls, demoStart>>
        /\ (demo' = demo \/ demo' = [demo EXCEPT !.session = c.answer.data])
    BY <1>16 DEF SessionTaken
  <2>2. demo'.run = r0 /\ demo'.evidence = evidence
    BY <1>2, <2>1
  <2>3. PageTyped'
    BY <1>3, <2>2 DEF PageTyped, RunTyped, EvidenceTyped
  <2>4. QED
    BY <1>4, <1>6, <1>7, <1>8, <2>1, <2>3
<1>17. CASE PollRun
  BY <1>4, <1>5, <1>7, <1>8, <1>9, <1>17 DEF PollRun
<1>18. CASE VerdictHeard \/ AskEvidence \/ EvidenceReplied \/ EvidenceDropped
  BY <1>4, <1>5, <1>6, <1>7, <1>8, <1>18
     DEF VerdictHeard, AskEvidence, EvidenceReplied, EvidenceDropped
<1>19. CASE EvidenceTaken
  <2>1. UNCHANGED <<demoServer, runCalls, demoStart>> /\ evidenceCall # Nothing
        /\ (demo' = demo \/ \E e \in {evidenceCall.of, NoEvidence} : demo' = [demo EXCEPT !.evidence = e])
    BY <1>19 DEF EvidenceTaken
  <2>2. evidenceCall.of \in Runs
    BY <2>1 DEF DemoTyped, EvidenceCallTyped
  <2>3. demo'.run = r0 /\ demo'.evidence \in {Nothing, NoEvidence} \cup Runs
    BY <1>2, <1>3, <2>1, <2>2
  <2>4. PageTyped'
    BY <1>3, <2>3 DEF PageTyped, RunTyped, EvidenceTyped
  <2>5. QED
    BY <1>4, <1>6, <1>7, <1>8, <2>1, <2>4
<1>20. CASE StartDemo
  <2>1. UNCHANGED <<demoServer, runCalls>> /\ demoStart' = Sent
        /\ demo' = [demo EXCEPT !.starting = TRUE]
    BY <1>20 DEF StartDemo
  <2>2. \A x : [demo EXCEPT !.starting = x].run = r0 /\ [demo EXCEPT !.starting = x].evidence = evidence
    BY <1>2
  <2>3. demo'.run = r0 /\ demo'.evidence = evidence
    BY <2>1, <2>2
  <2>4. PageTyped' /\ DemoStartTyped'
    BY <1>3, <2>1, <2>3 DEF PageTyped, RunTyped, EvidenceTyped, DemoStartTyped
  <2>5. QED
    BY <1>4, <1>6, <1>8, <2>1, <2>4
<1>21. CASE DemoStartReplied
  <2>1. UNCHANGED <<demoKilled, demo, runCalls>>
    BY <1>21 DEF DemoStartReplied
  <2>2. demoStatus' \in [Runs -> {"none", "running"} \cup Ended]
    BY <1>11, <1>21 DEF DemoStartReplied, DemoTyped
  <2>3. RunningRuns # {} => Latest \in Runs
    BY DEF Latest, RunningRuns
  <2>4. DemoStartTyped'
    BY <1>21, <2>3 DEF DemoStartReplied, DemoStartTyped, Answer
  <2>5. StatusTyped'
    BY <2>1, <2>2 DEF StatusTyped, DemoTyped
  <2>6. QED
    BY <1>5, <1>6, <1>8, <2>1, <2>4, <2>5
<1>22. CASE DemoStartTaken
  <2>1. UNCHANGED demoServer /\ demoStart' = Idle
        /\ runCalls' \subseteq runCalls \cup {DemoCall(Nothing, Sent)}
    BY <1>22 DEF DemoStartTaken
  <2>2. PICK d : /\ (d = demo \/ (d = adopt(demo, demoStart.data) /\ demoStart # Failed))
                 /\ demo' = [d EXCEPT !.starting = FALSE]
    BY <1>22 DEF DemoStartTaken
  <2>3. RunTyped(d.run) /\ EvidenceTyped(d)
    <3>1. CASE d = demo
      BY <3>1 DEF DemoTyped
    <3>2. CASE d = adopt(demo, demoStart.data) /\ demoStart # Failed
      <4>1. RunTyped(demoStart.data)
        BY <1>22, <3>2 DEF DemoStartTaken, DemoTyped, DemoStartTyped, Idle, Sent, RunTyped
      <4>2. QED
        BY <3>2, <4>1, AdoptTyped
    <3>3. QED
      BY <2>2, <3>1, <3>2
  <2>4. \E r, s, e, st : d = [run |-> r, session |-> s, evidence |-> e, starting |-> st]
    BY <2>2, AdoptKeeps DEF DemoTyped, DemoInv, DemoShaped
  <2>5. PICK r, s, e, st : d = [run |-> r, session |-> s, evidence |-> e, starting |-> st]
    BY <2>4
  <2>6. \A x : [d EXCEPT !.starting = x].run = r /\ [d EXCEPT !.starting = x].evidence = e
    BY <2>5
  <2>7. demo'.run = d.run /\ demo'.evidence = d.evidence
    BY <2>2, <2>5, <2>6
  <2>8. PageTyped'
    BY <2>3, <2>7 DEF PageTyped, RunTyped, EvidenceTyped
  <2>9. DemoStartTyped' /\ RunCallsTyped'
    BY <1>9, <2>1 DEF DemoStartTyped
  <2>10. QED
    BY <1>4, <1>8, <2>1, <2>8, <2>9
<1>23. QED
  BY <1>10, <1>12, <1>13, <1>14, <1>15, <1>16, <1>17, <1>18, <1>19, <1>20, <1>21, <1>22
     DEF DemoNext

\* The demonstration page keeps its types: its run and the run of its evidence are
\* ones there may be, although answers and the search for evidence outlive the run
\* they are about (useDemo.ts).
THEOREM DemoTypes == DemoSpec => []DemoTypeOK
<1>1. DemoTyped => DemoTypeOK
  BY DEF DemoTyped, RunTyped, EvidenceTyped, DemoTypeOK
<1>2. QED
  BY <1>1, DemoTypedInit, DemoTypedNext, PTL DEF DemoSpec


-----------------------------------------------------------------------------
\* A step of the console is a step of one part, which leaves the others where
\* they are, and never one that changes which part runs.  The guide's steps
\* move the list of cases too.
LEMMA OnePartMoves ==
  [ConsoleNext]_consoleVars =>
    /\ part' = part
    /\ [StreamNext]_streamVars /\ [GateNext]_gateVars /\ [AuditNext]_auditVars
    /\ [PolicyEditNext]_policyEditVars /\ [PoliciesNext]_policiesVars /\ [ScansNext]_scansVars
    /\ [DemoNext]_demoVars /\ [AccountsNext]_accountsVars /\ [RecordsNext]_recordsVars
    /\ [WizardNext]_wizardVars /\ [InstallsNext]_installsVars /\ [ChatNext]_chatVars
    /\ [EventTextNext]_textVars /\ [SortableNext]_sortVars /\ [ToastNext]_toastVars
    /\ [CasesNext]_casesVars
    /\ part = "guide" => [GuideNext]_<<casesVars, guideVars>>
    /\ part # "guide" => UNCHANGED guideVars
<1> SUFFICES ASSUME [ConsoleNext]_consoleVars
             PROVE  /\ part' = part
                    /\ [StreamNext]_streamVars /\ [GateNext]_gateVars /\ [AuditNext]_auditVars
                    /\ [PolicyEditNext]_policyEditVars /\ [PoliciesNext]_policiesVars
                    /\ [ScansNext]_scansVars /\ [DemoNext]_demoVars
                    /\ [AccountsNext]_accountsVars /\ [RecordsNext]_recordsVars
                    /\ [WizardNext]_wizardVars /\ [InstallsNext]_installsVars
                    /\ [ChatNext]_chatVars /\ [EventTextNext]_textVars
                    /\ [SortableNext]_sortVars /\ [ToastNext]_toastVars
                    /\ [CasesNext]_casesVars
                    /\ part = "guide" => [GuideNext]_<<casesVars, guideVars>>
                    /\ part # "guide" => UNCHANGED guideVars
  OBVIOUS
<1>1. CASE UNCHANGED consoleVars
  BY <1>1 DEF consoleVars
<1>2. CASE GuidePart
  BY <1>2, GuideMovesCases DEF GuidePart
<1>3. CASE StreamPart \/ GatePart \/ CasesPart \/ AuditPart \/ PolicyEditPart \/ PoliciesPart
  BY <1>3 DEF StreamPart, GatePart, CasesPart, AuditPart, PolicyEditPart, PoliciesPart
<1>4. CASE ScansPart \/ DemoPart \/ AccountsPart \/ RecordsPart \/ WizardPart \/ InstallsPart
  BY <1>4 DEF ScansPart, DemoPart, AccountsPart, RecordsPart, WizardPart, InstallsPart
<1>5. CASE ChatPart \/ EventTextPart \/ SortablePart \/ ToastPart
  BY <1>5 DEF ChatPart, EventTextPart, SortablePart, ToastPart
<1>6. QED
  BY <1>1, <1>2, <1>3, <1>4, <1>5 DEF ConsoleNext

\* Every part starts as it does alone.
LEMMA PartsStart ==
  ConsoleInit =>
    /\ StreamInit /\ GateInit /\ CasesInit /\ GuideInit /\ AuditInit /\ PolicyEditInit
    /\ PoliciesInit /\ ScansInit /\ DemoInit /\ AccountsInit /\ RecordsInit /\ WizardInit
    /\ InstallsInit /\ ChatInit /\ EventTextInit /\ SortableInit /\ ToastInit
BY DEF ConsoleInit

\* The console, whatever part a behaviour picks, behaves as each of its parts
\* does alone: what is proved of a part is true of the whole (App.tsx puts the
\* pages side by side; they share no state).  The parts whose specifications
\* promise something in the end are left to their invariants.
THEOREM ConsolePlaysItsParts ==
  ConsoleSpec =>
    /\ GateSpec /\ CasesSpec /\ AuditSpec /\ PolicyEditSpec /\ PoliciesSpec /\ DemoSpec
    /\ AccountsSpec /\ RecordsSpec /\ ChatSpec /\ EventTextSpec /\ SortableSpec /\ ToastSpec
    /\ part = "guide" => GuideSpec
<1>1. ConsoleSpec => GateSpec /\ CasesSpec /\ AuditSpec /\ PolicyEditSpec
  BY PartsStart, OnePartMoves, PTL
     DEF ConsoleSpec, GateSpec, CasesSpec, AuditSpec, PolicyEditSpec
<1>2. ConsoleSpec => PoliciesSpec /\ DemoSpec /\ AccountsSpec /\ RecordsSpec
  BY PartsStart, OnePartMoves, PTL
     DEF ConsoleSpec, PoliciesSpec, DemoSpec, AccountsSpec, RecordsSpec
<1>3. ConsoleSpec => ChatSpec /\ EventTextSpec /\ SortableSpec /\ ToastSpec
  BY PartsStart, OnePartMoves, PTL
     DEF ConsoleSpec, ChatSpec, EventTextSpec, SortableSpec, ToastSpec
<1>4. ConsoleSpec /\ part = "guide" => GuideSpec
  <2>1. part = "guide" /\ [ConsoleNext]_consoleVars => (part = "guide")'
    BY OnePartMoves
  <2>2. QED
    BY <2>1, PartsStart, OnePartMoves, PTL DEF ConsoleSpec, GuideSpec
<1>5. QED
  BY <1>1, <1>2, <1>3, <1>4

\* The invariants of the parts whose specifications state fairness.
FairPartsInv == StreamInv /\ ScansTypeOK /\ WizardTyped /\ InstallsTyped

LEMMA FairPartsKeep == ConsoleSpec => []FairPartsInv
<1>1. ConsoleInit => FairPartsInv
  BY PartsStart, StreamStarts, ScansTypedInit, WizardTypedInit, InstallsTypedInit
     DEF FairPartsInv
<1>2. FairPartsInv /\ [ConsoleNext]_consoleVars => FairPartsInv'
  BY OnePartMoves, StreamSteps, ScansTypedNext, WizardTypedNext, InstallsTypedNext
     DEF FairPartsInv
<1>3. QED
  BY <1>1, <1>2, PTL DEF ConsoleSpec

\* Which part runs is settled at the start.
GuideRuns == part = "guide"

LEMMA PartStays ==
  /\ ConsoleSpec /\ GuideRuns => []GuideRuns
  /\ ConsoleSpec /\ ~GuideRuns => [](~GuideRuns)
<1>1. GuideRuns /\ [ConsoleNext]_consoleVars => GuideRuns'
  BY OnePartMoves DEF GuideRuns
<1>2. ~GuideRuns /\ [ConsoleNext]_consoleVars => (~GuideRuns)'
  BY OnePartMoves DEF GuideRuns
<1>3. QED
  BY <1>1, <1>2, PTL DEF ConsoleSpec

LEMMA GuidePlays == ConsoleSpec /\ GuideRuns => GuideSpec
BY ConsolePlaysItsParts DEF GuideRuns

\* Whatever part of the console runs, its variables keep their types: the
\* states of every page, its requests and its lists (src/frontend/src).
THEOREM ConsoleTypes == ConsoleSpec => []ConsoleTypeOK
<1>1. ConsoleSpec => [](GuideRuns => GuideTypeOK)
  BY GuidePlays, GuideTypes, PartStays, PTL
<1>2. FairPartsInv => StreamTypeOK /\ ScansTypeOK /\ WizardTypeOK /\ InstallsTypeOK
  BY WizardTypesFollow, InstallsTypesFollow DEF FairPartsInv, StreamInv
<1>3. ConsoleSpec => [](GateTypeOK /\ CasesTypeOK /\ AuditTypeOK /\ PolicyEditTypeOK)
  BY ConsolePlaysItsParts, GateTypeCorrect, CasesTypes, AuditTypes, PolicyEditTypes, PTL
<1>4. ConsoleSpec => [](PoliciesTypeOK /\ DemoTypeOK /\ AccountsTypeOK /\ RecordsTypeOK)
  BY ConsolePlaysItsParts, PoliciesTypes, DemoTypes, AccountsTypes, RecordsTypes, PTL
<1>5. ConsoleSpec => [](ChatTypeOK /\ EventTextTypeOK /\ SortableTypeOK /\ ToastTypeOK)
  BY ConsolePlaysItsParts, ChatTypesOK, TextTypes, SortableTypes, ToastTypes, PTL
<1>6. /\ StreamTypeOK /\ ScansTypeOK /\ WizardTypeOK /\ InstallsTypeOK
      /\ GuideRuns => GuideTypeOK
      /\ GateTypeOK /\ CasesTypeOK /\ AuditTypeOK /\ PolicyEditTypeOK
      /\ PoliciesTypeOK /\ DemoTypeOK /\ AccountsTypeOK /\ RecordsTypeOK
      /\ ChatTypeOK /\ EventTextTypeOK /\ SortableTypeOK /\ ToastTypeOK
      => ConsoleTypeOK
  BY DEF ConsoleTypeOK, GuideRuns
<1>7. QED
  BY <1>1, <1>2, <1>3, <1>4, <1>5, <1>6, FairPartsKeep, PTL

\* A guide that does not run has told nothing.
LEMMA QuietGuide == ConsoleSpec => [](~GuideRuns => GuideTellsOnce)
<1> DEFINE Quiet == announced = <<>> /\ seeds = Nothing
<1>1. ConsoleInit => Quiet
  BY PartsStart DEF GuideInit
<1>2. Quiet /\ ~GuideRuns /\ [ConsoleNext]_consoleVars => Quiet'
  BY OnePartMoves DEF GuideRuns, guideVars, noticed
<1>3. Quiet => GuideTellsOnce
  BY DEF GuideTellsOnce, IsInjective
<1> HIDE DEF Quiet
<1>4. QED
  BY <1>1, <1>2, <1>3, PartStays, PTL DEF ConsoleSpec

\* The console keeps the promise of every part at once, whatever part runs:
\* the gate in front of the shell, the notices of the bell and of the guide,
\* the lists and previews that are the ones asked for, the session of the demo's run,
\* an administrator that stays, lists and files without a hole, answers in turn,
\* events whole, one drag, toasts for their time, and no gap in the live feed.
THEOREM ConsoleKeepsItsPromises ==
  ConsoleSpec =>
    /\ [](GapIsFilled /\ ShellNeedsSignIn /\ PendingIsNoticed /\ GuideTellsOnce)
    /\ [](ListIsTheOneAskedFor /\ PreviewFitsRule /\ ToldIsShown /\ DemoShowsOneRun)
    /\ [](SomeAdminStays /\ ListLeavesNoHole /\ FileIsExact /\ AnswersFollowQuestions)
    /\ [](ChunksDoNotMatter /\ OneDrag /\ ToastsStayTheirTime)
    /\ ClosedStaysClosed
<1>1. FairPartsInv => GapIsFilled
  BY FilledWhenIdle DEF FairPartsInv
<1>2. ConsoleSpec => [](GuideRuns => GuideTellsOnce)
  BY GuidePlays, NoCaseIsToldTwice, PartStays, PTL
<1>3. ConsoleSpec => [](GapIsFilled /\ ShellNeedsSignIn /\ PendingIsNoticed /\ GuideTellsOnce)
  BY <1>1, <1>2, FairPartsKeep, QuietGuide, ConsolePlaysItsParts, ShellIsBehindSignIn,
     OldMarksHideNothing, PTL
<1>4. ConsoleSpec => [](ListIsTheOneAskedFor /\ PreviewFitsRule /\ ToldIsShown /\ DemoShowsOneRun)
  BY ConsolePlaysItsParts, ListIsAlwaysTheOneAskedFor, PreviewAlwaysFitsRule,
     SettledListsShowWhatWasTold, DemoAlwaysShowsOneRun, PTL
<1>5. ConsoleSpec => [](SomeAdminStays /\ ListLeavesNoHole /\ FileIsExact /\ AnswersFollowQuestions)
  BY ConsolePlaysItsParts, AdminAlwaysStays, NoHole, ExactFile, AnswersInTurn, PTL
<1>6. ConsoleSpec => [](ChunksDoNotMatter /\ OneDrag /\ ToastsStayTheirTime)
  BY ConsolePlaysItsParts, ChunksAreJoined, OneDragOnly, ToastTimes, PTL
<1>7. ConsoleSpec => ClosedStaysClosed
  BY ConsolePlaysItsParts, ClosedGateStaysClosed
<1>8. QED
  BY <1>3, <1>4, <1>5, <1>6, <1>7
=============================================================================
