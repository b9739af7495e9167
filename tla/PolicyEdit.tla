----------------------------- MODULE PolicyEdit -----------------------------
(***************************************************************************)
(* Editing one policy (PolicyEditor, PolicyEasy, lib/policyEasy.ts) on the *)
(* policies page, which mounts a new editor whenever the key of its        *)
(* selection changes and gives it the rule of the list it has.             *)
(*                                                                         *)
(* A list value is the sequence of its comma-separated pieces, since that  *)
(* is what the text of a draft keeps of it.  The description and directIp  *)
(* are carried like the action and are left out, as is what the messages   *)
(* say.  Another administrator may change the same policies.               *)
(***************************************************************************)
EXTENDS Naturals, Sequences, SequencesExt, FiniteSets, Requests

CONSTANTS
  PolicyIds,    \* ids of policies
  NewId,        \* the id a template proposes
  BadIds,       \* ids that ID_PATTERN rejects
  StoredRules,  \* the rules the server holds at first, by id
  Template,     \* the rule of a template
  Intents,      \* values an event's "allow this" brings along
  DefaultLists, \* what the default rules' lists hold
  Links,        \* selections a link to the page brings along
  UsedKinds,    \* kinds the user picks
  UsedFields,   \* lists the user writes
  Pieces,       \* pieces of list values
  TypeOf,       \* TypeOf[k][p]: classify of kind k, "error" for no value of it
  MaxSteps,     \* bound: selections, edits and deletions here, changes by others
  MaxChecks     \* bound: check pages opened

RuleKinds == {"exec", "open", "connect", "dns"}

KIND_FIELDS ==
  [exec |-> {"denyComms", "denyArgs"}, open |-> {"denyPaths", "allowPaths"},
   connect |-> {"allowPorts", "allowCidrs", "allowHosts",
                "denyPorts", "denyCidrs", "denyHosts"},
   dns |-> {"allowHosts", "denyHosts", "denyQtypes"}]
ALL_LIST_FIELDS == {"containers"} \cup UNION {KIND_FIELDS[k] : k \in RuleKinds}
PORT_FIELDS == {"allowPorts", "denyPorts"}

\* The field a value of a type goes to, for each group of chips.
GROUPS ==
  [open |-> [block |-> [path |-> "denyPaths"], allow |-> [path |-> "allowPaths"]],
   exec |-> [block |-> [prog |-> "denyComms", args |-> "denyArgs"]],
   connect |-> [block |-> [port |-> "denyPorts", cidr |-> "denyCidrs", host |-> "denyHosts"],
                allow |-> [port |-> "allowPorts", cidr |-> "allowCidrs",
                           host |-> "allowHosts"]],
   dns |-> [block |-> [host |-> "denyHosts", qtype |-> "denyQtypes"],
            allow |-> [host |-> "allowHosts"]]]

NoLists == [f \in ALL_LIST_FIELDS |-> <<>>]
isSingleRule(r) == r.kind \in RuleKinds

\* A rule that names a policy.
IsPolicy(r) ==
  /\ r.id \in PolicyIds
  /\ r = [id |-> r.id, kind |-> r.kind, action |-> r.action, dry |-> r.dry,
          disabled |-> r.disabled, limit |-> r.limit, lists |-> r.lists]

ASSUME PolicyEditAssumption ==
  /\ DOMAIN StoredRules = PolicyIds
  /\ \A i \in PolicyIds : StoredRules[i] = Nothing \/ IsPolicy(StoredRules[i])
  /\ IsPolicy(Template) /\ NewId \in PolicyIds /\ UsedKinds \subseteq RuleKinds

VARIABLES
  storedRules,  \* server
  rules,        \* the list of the page
  rulesGet,     \* its request
  sel,          \* what is selected, and how it was come to
  editor,       \* the mounted editor, Nothing without one
  previews,     \* previews under way; current: for the rule on the check page
  saves,        \* saves under way; mine: sent by the mounted editor
  steps         \* history: for the bound

pageVars == <<sel, editor, previews, saves>>
policyEditVars == <<storedRules, rules, rulesGet, pageVars, steps>>

EditStep == steps.edits < MaxSteps /\ steps' = [steps EXCEPT !.edits = @ + 1]

-----------------------------------------------------------------------------
(* lib/policyEasy.ts.                                                      *)

toDraft(r) == [r EXCEPT !.lists = [f \in ALL_LIST_FIELDS |-> FlattenSeq(r.lists[f])]]

listOf(d, f) == d.lists[f]
withList(d, f, xs) == [d EXCEPT !.lists[f] = xs]

\* A port that is none and a length limit out of range make toRule throw.
Refuses(d) ==
  \/ d.kind = "dns" /\ d.limit = "bad"
  \/ \E f \in KIND_FIELDS[d.kind] \cap PORT_FIELDS :
       \E i \in DOMAIN listOf(d, f) : TypeOf["connect"][listOf(d, f)[i]] # "port"

\* Conditions of other kinds are dropped.
toRule(d) ==
  [d EXCEPT !.limit = IF d.kind = "dns" THEN d.limit ELSE "",
            !.lists = [f \in ALL_LIST_FIELDS |->
                         IF f \in {"containers"} \cup KIND_FIELDS[d.kind]
                         THEN [i \in DOMAIN listOf(d, f) |-> <<listOf(d, f)[i]>>]
                         ELSE <<>>]]

\* "-2", "-3" ... behind an id that exists; the first that does not (as long
\* as the bounded PolicyIds have one).
uniqueId(base, existing) ==
  IF base \notin existing \/ PolicyIds \subseteq existing THEN base
  ELSE CHOOSE i \in PolicyIds : i \notin existing

fromTemplate(existing) == [Template EXCEPT !.id = uniqueId(NewId, existing)]

ruleFromBlock(k, p, existing) ==
  LET type == IF k = "connect" /\ TypeOf[k][p] # "host" THEN "cidr" ELSE TypeOf[k][p]
  IN [id |-> uniqueId(NewId, existing), kind |-> k, action |-> "kill", dry |-> FALSE,
      disabled |-> FALSE, limit |-> "",
      lists |-> [NoLists EXCEPT ![GROUPS[k].block[type]] = <<<<p>>>>]]

Add(xs, x) == IF Contains(xs, x) THEN xs ELSE Append(xs, x)

\* The rule with one exception more; as it is where the kind has no such list.
ruleWithAllow(r, p) ==
  IF ~isSingleRule(r) \/ r.kind = "exec" \/ TypeOf[r.kind][p] = "error"
     \/ TypeOf[r.kind][p] \notin DOMAIN GROUPS[r.kind].allow THEN r
  ELSE LET f == GROUPS[r.kind].allow[TypeOf[r.kind][p]]
       IN [r EXCEPT !.lists[f] = Add(@, <<p>>)]

\* Only what the current rule lacks is added.
mergeDefault(r) ==
  [r EXCEPT !.lists = [f \in ALL_LIST_FIELDS |->
     r.lists[f] \o SelectSeq(DefaultLists[f], LAMBDA v : ~Contains(r.lists[f], v))]]

-----------------------------------------------------------------------------
(* Which rule the page starts an editor with (start, pendingDefault).      *)

Plain(id) == [id |-> id, how |-> "plain", value |-> Nothing]
existingIds == {i \in PolicyIds : rules # Nothing /\ rules[i] # Nothing}
Current(list, id) == IF list = Nothing \/ id \notin PolicyIds THEN Nothing ELSE list[id]

start(s, list) ==
  LET r == Current(list, s.id)
      existing == {i \in PolicyIds : list # Nothing /\ list[i] # Nothing}
  IN CASE s.how = "tpl" -> fromTemplate(existing)
       [] s.how \in RuleKinds -> ruleFromBlock(s.how, s.value, existing)
       [] s.how = "allow" /\ r # Nothing -> ruleWithAllow(r, s.value)
       [] s.how = "default" /\ r # Nothing -> mergeDefault(r)
       [] OTHER -> r

Selections ==
  {Plain(i) : i \in PolicyIds} \cup
  {[id |-> NewId, how |-> "tpl", value |-> Nothing]} \cup
  {[id |-> i, how |-> "allow", value |-> p] : i \in PolicyIds, p \in Intents} \cup
  {[id |-> i, how |-> "default", value |-> Nothing] : i \in PolicyIds} \cup
  {[id |-> NewId, how |-> "connect", value |-> p] : p \in Intents}

isNew(s) == s.how = "tpl" \/ s.how \in RuleKinds

\* The rule to save, Nothing where current() throws.
current(e) ==
  IF e.mode # "yaml" THEN (IF Refuses(e.draft) THEN Nothing ELSE toRule(e.draft))
  ELSE IF e.yaml = Nothing \/ (~e.isNew /\ e.yaml.id # e.rule.id) THEN Nothing
  ELSE e.yaml

Fresh(s, list) ==
  LET r == start(s, list)
      isSeq == ~isSingleRule(r)
  IN [rule |-> r, isNew |-> isNew(s),
      draft |-> IF isSeq THEN [r EXCEPT !.kind = "exec", !.lists = NoLists]
                ELSE toDraft(r),
      mode |-> IF isSeq THEN "yaml" ELSE "easy",
      yaml |-> IF isSeq THEN r ELSE Nothing,
      check |-> Nothing]

Drop(calls) == {[c EXCEPT !.current = FALSE] : c \in calls}
Disown(calls) == {[c EXCEPT !.mine = FALSE] : c \in calls}

Checked(e, r) == [e EXCEPT !.check = [rule |-> r, preview |-> Nothing]]
Asked(r) == IF isSingleRule(r) THEN {[rule |-> r, current |-> TRUE]} ELSE {}

\* A default rule is checked at once (autoCheck), the others start as a draft.
\* The answers an editor waits for die with it.
Mount(s, list) ==
  LET e == Fresh(s, list)
      r == current(e)
  IN IF s = Nothing \/ start(s, list) = Nothing
     THEN editor' = Nothing /\ previews' = {}
     ELSE IF s.how = "default" /\ r # Nothing
     THEN editor' = Checked(e, r) /\ previews' = Asked(r)
     ELSE editor' = e /\ previews' = {}

\* A new key takes the editor down and mounts another.
Show(s) ==
  /\ sel' = s
  /\ IF s = sel THEN UNCHANGED <<editor, previews>> ELSE Mount(s, rules)

-----------------------------------------------------------------------------
\* The page may be opened by a link, as from an event, that selects something.
PolicyEditInit ==
  /\ storedRules = StoredRules
  /\ rules = Nothing /\ rulesGet = Sent
  /\ sel \in Links \cup {Nothing}
  /\ editor = IF sel = Nothing \/ start(sel, Nothing) = Nothing THEN Nothing
              ELSE Fresh(sel, Nothing)
  /\ previews = {} /\ saves = {}
  /\ steps = [edits |-> 0, checks |-> 0]

RulesAnswered ==
  /\ rulesGet = Sent /\ rulesGet' = Answer(storedRules)
  /\ UNCHANGED <<storedRules, rules, pageVars, steps>>

\* A mounted editor keeps what it read of its rule; it goes with its rule.
RulesTaken ==
  /\ rulesGet.at = "answered" /\ rulesGet' = Idle
  /\ rules' = rulesGet.data
  /\ IF sel # Nothing /\ editor # Nothing /\ start(sel, rules') # Nothing
     THEN UNCHANGED <<editor, previews, saves>>
     ELSE Mount(sel, rules') /\ saves' = Disown(saves)
  /\ UNCHANGED <<storedRules, sel, steps>>

\* Another administrator turns a policy on or off.
OtherSaves(i) ==
  /\ storedRules[i] # Nothing /\ EditStep
  /\ storedRules' = [storedRules EXCEPT ![i].disabled = ~@]
  /\ UNCHANGED <<rules, rulesGet, pageVars>>

SelectPolicy(s) ==
  /\ s # sel /\ (isNew(s) \/ s.id \in existingIds) /\ Show(s)
  /\ EditStep
  /\ saves' = Disown(saves)
  /\ UNCHANGED <<storedRules, rules, rulesGet>>

\* Nothing selected: the first rule of the list.
AutoSelects ==
  /\ sel = Nothing /\ existingIds # {}
  /\ Show(Plain(CHOOSE i \in existingIds : TRUE))
  /\ UNCHANGED <<storedRules, rules, rulesGet, saves, steps>>

-----------------------------------------------------------------------------
(* The editor.                                                             *)

Editing == editor # Nothing /\ editor.check = Nothing
editorBusy == \E c \in saves : c.mine
Set(e) ==
  /\ editor' = e
  /\ UNCHANGED <<storedRules, rules, rulesGet, sel, previews, saves>>

Edit(d) ==
  /\ Editing /\ editor.mode # "yaml" /\ d # editor.draft
  /\ EditStep
  /\ Set([editor EXCEPT !.draft = d])

PickKind(k) == Edit([editor.draft EXCEPT !.kind = k])
PickAct(a) == Edit([editor.draft EXCEPT !.action = IF a = "alert" THEN a ELSE "kill",
                                        !.dry = a = "dry"])
PickDisabled == Edit([editor.draft EXCEPT !.disabled = ~@])
PickLimit(n) == editor.draft.kind = "dns" /\ Edit([editor.draft EXCEPT !.limit = n])
PickId(i) == editor.isNew /\ Edit([editor.draft EXCEPT !.id = i])
PickScope(xs) == editor.mode = "easy" /\ Edit(withList(editor.draft, "containers", xs))

\* add of ChipGroup: a value of the wrong form is refused.
ChipAdds(g, p) ==
  LET d == editor.draft
      type == TypeOf[d.kind][p]
  IN /\ Editing /\ editor.mode = "easy"
     /\ g \in DOMAIN GROUPS[d.kind] /\ type \in DOMAIN GROUPS[d.kind][g]
     /\ LET f == GROUPS[d.kind][g][type]
        IN Edit(withList(d, f, Add(listOf(d, f), p)))

ChipRemoves(f, p) ==
  /\ Editing /\ editor.mode = "easy"
  /\ f \in KIND_FIELDS[editor.draft.kind] \cup {"containers"}
  /\ Edit(withList(editor.draft, f, SelectSeq(listOf(editor.draft, f), LAMBDA x : x # p)))

\* The form takes any text.
FormWrites(f, xs) ==
  /\ Editing /\ editor.mode = "form"
  /\ f \in KIND_FIELDS[editor.draft.kind] \cup {"containers"}
  /\ Edit(withList(editor.draft, f, xs))

\* The text of the YAML, Nothing for one that is no rule object.
YamlWrites(r) ==
  /\ Editing /\ editor.mode = "yaml" /\ r # editor.yaml
  /\ EditStep
  /\ Set([editor EXCEPT !.yaml = r])

\* The modes an editor offers; a text that is refused stays where it is.
switchMode(m) ==
  LET y == editor.yaml
  IN /\ Editing /\ isSingleRule(editor.rule) /\ m # editor.mode
     /\ IF m = "yaml"
        THEN /\ ~Refuses(editor.draft)
             /\ Set([editor EXCEPT !.mode = m, !.yaml = toRule(editor.draft)])
        ELSE IF editor.mode = "yaml"
        THEN /\ y # Nothing /\ isSingleRule(y)
             /\ editor.isNew \/ y.id = editor.rule.id
             /\ Set([editor EXCEPT !.mode = m, !.draft = toDraft(y)])
        ELSE Set([editor EXCEPT !.mode = m])
     /\ UNCHANGED steps

\* "Check before saving": the preview of a sequence rule is not asked for.
openCheck ==
  LET r == current(editor)
  IN /\ Editing /\ ~editorBusy
     /\ r # Nothing /\ r.id \notin BadIds
     /\ ~(editor.isNew /\ r.id \in existingIds)
     /\ steps.checks < MaxChecks /\ steps' = [steps EXCEPT !.checks = @ + 1]
     /\ editor' = Checked(editor, r) /\ previews' = Drop(previews) \cup Asked(r)
     /\ UNCHANGED <<storedRules, rules, rulesGet, sel, saves>>

BackToEdit ==
  /\ editor # Nothing /\ editor.check # Nothing
  /\ editor' = [editor EXCEPT !.check = Nothing]
  /\ previews' = Drop(previews)
  /\ UNCHANGED <<storedRules, rules, rulesGet, sel, saves, steps>>

\* Mutant: the answer is not compared with the rule on the check page.
MutPreviewTaken(c) ==
  /\ previews' = previews \ {c}
  /\ editor' = IF editor.check # Nothing THEN [editor EXCEPT !.check.preview = c.rule]
                ELSE editor
  /\ UNCHANGED <<storedRules, rules, rulesGet, sel, saves, steps>>

\* The answer counts while its rule is the one on the check page.
PreviewTaken(c) ==
  /\ previews' = previews \ {c}
  /\ editor' = IF c.current THEN [editor EXCEPT !.check.preview = c.rule] ELSE editor
  /\ UNCHANGED <<storedRules, rules, rulesGet, sel, saves, steps>>

SaveSent ==
  /\ editor # Nothing /\ editor.check # Nothing /\ ~editorBusy
  /\ saves' = saves \cup {[rule |-> editor.check.rule, mine |-> TRUE, at |-> "sent"]}
  /\ UNCHANGED <<storedRules, rules, rulesGet, sel, editor, previews, steps>>

SaveDone(c) ==
  /\ c.at = "sent"
  /\ \/ /\ storedRules' = [storedRules EXCEPT ![c.rule.id] = c.rule]
        /\ saves' = (saves \ {c}) \cup {[c EXCEPT !.at = "done"]}
     \/ saves' = (saves \ {c}) \cup {[c EXCEPT !.at = "failed"]} /\ UNCHANGED storedRules
  /\ UNCHANGED <<rules, rulesGet, sel, editor, previews, steps>>

\* save: the draft becomes the answer, the page reloads its lists and selects
\* the rule.  An editor that is gone by then only gets the page to do that.
SaveTaken(c) ==
  LET settled == [editor EXCEPT !.check = Nothing,
                    !.draft = IF isSingleRule(c.rule) THEN toDraft(c.rule) ELSE @]
      back == [editor EXCEPT !.check = Nothing]
      s == Plain(c.rule.id)
  IN /\ c.at # "sent" /\ saves' = Disown(saves \ {c})
     /\ \/ /\ c.at = "done" /\ rulesGet' = Sent /\ sel' = s
           /\ IF s # sel THEN Mount(s, rules)
              ELSE /\ editor' = IF c.mine THEN settled ELSE editor
                   /\ previews' = IF c.mine THEN Drop(previews) ELSE previews
        \/ /\ c.at = "failed"
           /\ editor' = IF c.mine THEN back ELSE editor
           /\ previews' = IF c.mine THEN Drop(previews) ELSE previews
           /\ UNCHANGED <<rulesGet, sel>>
     /\ UNCHANGED <<storedRules, rules, steps>>

\* "Delete" and its confirmation, for a policy that exists; answered at once.
remove ==
  /\ Editing /\ ~editor.isNew /\ ~editorBusy
  /\ EditStep
  /\ storedRules' = [storedRules EXCEPT ![editor.rule.id] = Nothing]
  /\ rulesGet' = Sent /\ Show(Nothing)
  /\ UNCHANGED <<rules, saves>>

-----------------------------------------------------------------------------
Texts == {<<p>> : p \in Pieces} \cup {<<>>}

UserEdits ==
  \/ \E k \in UsedKinds : PickKind(k)
  \/ \E a \in {"alert", "kill", "dry"} : PickAct(a)
  \/ \E n \in {"", "ok", "bad"} : PickLimit(n)
  \/ \E i \in PolicyIds \cup BadIds : PickId(i)
  \/ \E xs \in Texts : PickScope(xs)
  \/ \E g \in {"block", "allow"}, p \in Pieces : ChipAdds(g, p)
  \/ \E f \in UsedFields, p \in Pieces : ChipRemoves(f, p)
  \/ \E f \in UsedFields, xs \in Texts : FormWrites(f, xs)
  \/ PickDisabled
  \/ \E i \in PolicyIds : YamlWrites([editor.rule EXCEPT !.id = i, !.lists = NoLists])
  \/ YamlWrites([editor.rule EXCEPT !.kind = "sequence"]) \/ YamlWrites(Nothing)

PolicyEditNext ==
  \/ RulesAnswered \/ RulesTaken \/ AutoSelects
  \/ \E i \in PolicyIds : OtherSaves(i)
  \/ \E s \in Selections : SelectPolicy(s)
  \/ Editing /\ UserEdits
  \/ \E m \in {"easy", "form", "yaml"} : switchMode(m)
  \/ openCheck \/ BackToEdit \/ SaveSent \/ remove
  \/ \E c \in previews : PreviewTaken(c)
  \/ \E c \in saves : SaveDone(c) \/ SaveTaken(c)

PolicyEditSpec == PolicyEditInit /\ [][PolicyEditNext]_policyEditVars
-----------------------------------------------------------------------------
\* Every variable keeps its kind of value.
PolicyEditTypeOK ==
  /\ DOMAIN storedRules = PolicyIds
  /\ editor # Nothing => /\ sel # Nothing /\ editor.mode \in {"easy", "form", "yaml"}
                         /\ editor.draft.kind \in RuleKinds
  /\ \A c \in saves : c.rule.id \in PolicyIds

\* The preview on the check page is the one of the rule that "save" would
\* send, whatever previews of earlier drafts are still under way.
PreviewFitsRule ==
  editor # Nothing /\ editor.check # Nothing /\ editor.check.preview # Nothing =>
    editor.check.preview = editor.check.rule
=============================================================================
