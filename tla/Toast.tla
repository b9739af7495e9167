------------------------------- MODULE Toast -------------------------------
(***************************************************************************)
(* The messages at the edge of the screen (ToastProvider): a few at a      *)
(* time, one per key, each taken down by a timer of its own.  Time passes  *)
(* in units; a timer may run late, never early.                            *)
(***************************************************************************)
EXTENDS Naturals, Sequences, SequencesExt, Functions, Lists

CONSTANTS
  MaxShown,     \* MAX: messages on the screen
  ToastTime,    \* TOAST_MS
  ToastKeys,    \* keys messages are grouped by
  NoKey,        \* a message without a key
  MaxToasts     \* bound: messages, and messages grouped in one

ASSUME ToastAssumption ==
  MaxShown \in Nat \ {0} /\ ToastTime \in Nat \ {0} /\ MaxToasts \in Nat /\ NoKey \notin ToastKeys

ToastIds == 1 .. MaxToasts
ToastItem == [id : ToastIds, key : ToastKeys \cup {NoKey}, n : ToastIds, age : 0 .. ToastTime]

VARIABLES
  toasts,       \* items: oldest first; age is for the properties: time since its last text
  timers,       \* timers: what is left of the timer of a message
  lastToast     \* seq

toastVars == <<toasts, timers, lastToast>>

Ids(s) == {s[i].id : i \in DOMAIN s}
Without(s, id) == Filtered(s, {x \in Range(s) : x.id # id})

ToastInit == toasts = <<>> /\ timers = <<>> /\ lastToast = 0

\* arm: the timer of id starts from the beginning.
Armed(ts, id) == [x \in DOMAIN ts \cup {id} |-> IF x = id THEN ToastTime ELSE ts[x]]

\* Mutant: a repeated message keeps the timer of the first one.
MutToastAgain(i) ==
  /\ toasts[i].key # NoKey /\ toasts[i].n < MaxToasts
  /\ toasts' = [toasts EXCEPT ![i].n = @ + 1, ![i].age = 0]
  /\ UNCHANGED <<timers, lastToast>>

\* toast: a message of a key that is shown counts up and stays anew.
ToastAgain(i) ==
  /\ toasts[i].key # NoKey /\ toasts[i].n < MaxToasts
  /\ toasts' = [toasts EXCEPT ![i].n = @ + 1, ![i].age = 0]
  /\ timers' = Armed(timers, toasts[i].id)
  /\ UNCHANGED lastToast

\* Mutant: the oldest messages do not make room for a new one.
MutToastNew(k) ==
  /\ lastToast < MaxToasts
  /\ k # NoKey => \A i \in DOMAIN toasts : toasts[i].key # k
  /\ lastToast' = lastToast + 1
  /\ toasts' = Append(toasts, [id |-> lastToast + 1, key |-> k, n |-> 1, age |-> 0])
  /\ timers' = Armed(timers, lastToast + 1)

\* toast: a new message, the oldest ones go with their timers.
ToastNew(k) ==
  LET new == Append(toasts, [id |-> lastToast + 1, key |-> k, n |-> 1, age |-> 0])
      kept == IF Len(new) > MaxShown THEN SubSeq(new, Len(new) - MaxShown + 1, Len(new)) ELSE new
  IN /\ lastToast < MaxToasts
     /\ k # NoKey => \A i \in DOMAIN toasts : toasts[i].key # k
     /\ lastToast' = lastToast + 1
     /\ toasts' = kept
     /\ timers' = Armed(Restrict(timers, Ids(kept) \cap DOMAIN timers), lastToast + 1)

\* close: by its button, by its action, or by its timer.
Closes(id) ==
  /\ timers' = Restrict(timers, DOMAIN timers \ {id})
  /\ toasts' = Without(toasts, id)
  /\ UNCHANGED lastToast

ToastClosed(id) == id \in Ids(toasts) /\ Closes(id)
ToastTimer(id) == id \in DOMAIN timers /\ timers[id] = 0 /\ Closes(id)

ToastTick ==
  /\ timers' = [id \in DOMAIN timers |-> IF timers[id] = 0 THEN 0 ELSE timers[id] - 1]
  /\ toasts' = [i \in DOMAIN toasts |->
                 [toasts[i] EXCEPT !.age = IF @ = ToastTime THEN @ ELSE @ + 1]]
  /\ UNCHANGED lastToast

ToastNext ==
  \/ ToastTick
  \/ \E k \in ToastKeys \cup {NoKey} : ToastNew(k)
  \/ \E i \in DOMAIN toasts : ToastAgain(i)
  \/ \E id \in ToastIds : ToastClosed(id) \/ ToastTimer(id)

ToastSpec == ToastInit /\ [][ToastNext]_toastVars
-----------------------------------------------------------------------------
\* Every variable keeps its kind of value.
ToastTypeOK ==
  /\ toasts \in Seq(ToastItem) /\ Len(toasts) <= MaxShown
  /\ DOMAIN timers \subseteq ToastIds /\ \A id \in DOMAIN timers : timers[id] \in 0 .. ToastTime
  /\ lastToast \in 0 .. MaxToasts

\* Exactly the messages on the screen have a timer, and it does not run out
\* before its message was there for its whole time since its last text.
ToastsStayTheirTime ==
  /\ DOMAIN timers = Ids(toasts)
  /\ \A i \in DOMAIN toasts : toasts[i].age + timers[toasts[i].id] >= ToastTime
=============================================================================
