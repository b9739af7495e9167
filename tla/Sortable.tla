------------------------------ MODULE Sortable ------------------------------
(***************************************************************************)
(* Lists whose items are put in order by holding and dragging them or with *)
(* the keyboard (useSortable), and the order remembered by the browser     *)
(* (lib/layout.ts).  Drag ends, escapes and keys may come at any time; one *)
(* drag at a time over all the lists.                                      *)
(***************************************************************************)
EXTENDS Naturals, Sequences, SequencesExt, FiniteSets, Requests, Lists

CONSTANTS
  SortLists,     \* lists on the screen (scopes)
  Defaults,      \* Defaults[l]: ids of a list in their default order
  StoredLayouts  \* orders the browser may hold from before, Nothing for none

\* A list has each of its items once; Nothing is no list and no order.
ASSUME SortableAssumption ==
  /\ \A l \in SortLists : /\ Defaults[l] \in Seq(Range(Defaults[l])) /\ IsInjective(Defaults[l])
                          /\ Nothing \notin Seq(Range(Defaults[l]))
  /\ Nothing \notin SortLists
  /\ \A s \in StoredLayouts \ {Nothing} : s \in Seq(Range(s))

Drag(l) == [id : Range(Defaults[l]), picked : BOOLEAN, cancelled : BOOLEAN,
            from : Seq(Range(Defaults[l]))]

ASSUME DragAssumption == \A l \in SortLists : Nothing \notin Drag(l)

VARIABLES
  layouts,       \* localStorage
  orders,        \* saved: the order a list read or wrote
  live,         \* live: the order while dragging
  drag,         \* st: what is pressed or dragged in a list
  active,       \* active: the list with a drag
  sorting,      \* the class of the document while an item is picked
  swallow,      \* swallowUntil: the next click is not one
  mounted       \* lists that are on the screen

sortVars == <<layouts, orders, live, drag, active, sorting, swallow, mounted>>

-----------------------------------------------------------------------------
(* lib/layout.ts.                                                          *)

\* Where id is put: after the nearest item before it by default, else first.
PlaceOf(id, out, defaults) ==
  LET i == CHOOSE k \in DOMAIN defaults : defaults[k] = id
      before == {k \in 1 .. i - 1 : Contains(out, defaults[k])}
  IN IF before = {} THEN 1
     ELSE 1 + CHOOSE p \in DOMAIN out :
                out[p] = defaults[CHOOSE k \in before : \A n \in before : n <= k]

Insert(out, id, defaults) ==
  IF Contains(out, id) THEN out ELSE InsertAt(out, PlaceOf(id, out, defaults), id)

\* The ids of s that are there, each where it comes first.
KnownIds(s, ids) ==
  LET firsts == {i \in DOMAIN s : Contains(ids, s[i]) /\ \A j \in 1 .. i - 1 : s[j] # s[i]}
      places == Filtered([i \in 1 .. Len(s) |-> i], firsts)
  IN [k \in 1 .. Len(places) |-> s[places[k]]]

mergeLayout(s, defaults) ==
  LET merged[n \in 0 .. Len(defaults)] ==
        IF n = 0 THEN KnownIds(s, defaults) ELSE Insert(merged[n - 1], defaults[n], defaults)
  IN IF s = Nothing THEN defaults ELSE merged[Len(defaults)]

\* order: what the list draws.
OrderOf(l) == IF live[l] # Nothing THEN live[l] ELSE mergeLayout(orders[l], Defaults[l])

\* splice: id taken out of an order and put back at place p.
Moved(o, id, p) == InsertAt(Filtered(o, Range(o) \ {id}), p, id)

-----------------------------------------------------------------------------
SortableInit ==
  /\ layouts \in [SortLists -> StoredLayouts] /\ orders = layouts
  /\ live = [l \in SortLists |-> Nothing] /\ drag = [l \in SortLists |-> Nothing]
  /\ active = Nothing /\ sorting = FALSE /\ swallow = FALSE
  /\ mounted = SortLists

\* onDown
SortDown(l, id) ==
  /\ l \in mounted /\ drag[l] = Nothing /\ active = Nothing
  /\ drag' = [drag EXCEPT ![l] = [id |-> id, picked |-> FALSE, cancelled |-> FALSE, from |-> <<>>]]
  /\ active' = l /\ swallow' = FALSE
  /\ UNCHANGED <<layouts, orders, live, sorting, mounted>>

\* Mutant: the end of a drag forgets the list and not the drag of all.
MutEnds(l) == drag' = [drag EXCEPT ![l] = Nothing] /\ sorting' = FALSE /\ UNCHANGED active
\* end
Ends(l) == drag' = [drag EXCEPT ![l] = Nothing] /\ sorting' = FALSE /\ active' = Nothing

\* pick: the item was held long enough, if it is still there.
SortPick(l) ==
  /\ drag[l] # Nothing /\ ~drag[l].picked
  /\ IF l \in mounted
     THEN /\ drag' = [drag EXCEPT ![l].picked = TRUE, ![l].from = OrderOf(l)]
          /\ live' = [live EXCEPT ![l] = OrderOf(l)]
          /\ sorting' = TRUE /\ UNCHANGED active
     ELSE Ends(l) /\ UNCHANGED live
  /\ UNCHANGED <<layouts, orders, swallow, mounted>>

\* onMove while nothing is picked: the hold was a scroll or a selection.
SortSlips(l) ==
  /\ drag[l] # Nothing /\ ~drag[l].picked /\ ~drag[l].cancelled /\ Ends(l)
  /\ UNCHANGED <<layouts, orders, live, swallow, mounted>>

\* onMove: the dragged item takes place p among the others.
SortMove(l, p) ==
  /\ drag[l] # Nothing /\ drag[l].picked /\ ~drag[l].cancelled /\ l \in mounted
  /\ live' = [live EXCEPT ![l] = Moved(OrderOf(l), drag[l].id, p)]
  /\ UNCHANGED <<layouts, orders, drag, active, sorting, swallow, mounted>>

\* onUp: drop, unless the drag was cancelled; the click that follows is not one.
SortUp(l) ==
  /\ drag[l] # Nothing
  /\ IF drag[l].picked /\ ~drag[l].cancelled
     THEN /\ layouts' = IF OrderOf(l) = drag[l].from THEN layouts ELSE [layouts EXCEPT ![l] = OrderOf(l)]
          /\ orders' = [orders EXCEPT ![l] = OrderOf(l)]
          /\ live' = [live EXCEPT ![l] = Nothing]
     ELSE UNCHANGED <<layouts, orders, live>>
  /\ swallow' = (swallow \/ drag[l].picked \/ drag[l].cancelled)
  /\ Ends(l) /\ UNCHANGED mounted

\* escape: back to the order before, the drag itself ends when it is let go.
SortEscape ==
  /\ active # Nothing /\ ~drag[active].cancelled
  /\ IF drag[active].picked
     THEN /\ drag' = [drag EXCEPT ![active].cancelled = TRUE]
          /\ live' = [live EXCEPT ![active] = Nothing]
          /\ sorting' = FALSE /\ UNCHANGED active
     ELSE Ends(active) /\ UNCHANGED live
  /\ UNCHANGED <<layouts, orders, swallow, mounted>>

\* onCancel: the browser takes the pointer away.
SortCancel(l) ==
  /\ drag[l] # Nothing /\ Ends(l)
  /\ live' = [live EXCEPT ![l] = Nothing]
  /\ UNCHANGED <<layouts, orders, swallow, mounted>>

\* onKey: one place up or down.
SortKey(l, id, up) ==
  LET o == OrderOf(l)
      i == CHOOSE k \in DOMAIN o : o[k] = id
      j == IF up THEN i - 1 ELSE i + 1
  IN /\ l \in mounted /\ drag[l] = Nothing /\ j \in DOMAIN o
     /\ layouts' = [layouts EXCEPT ![l] = Moved(o, id, j)]
     /\ orders' = [orders EXCEPT ![l] = Moved(o, id, j)]
     /\ UNCHANGED <<live, drag, active, sorting, swallow, mounted>>

SortClick == swallow /\ swallow' = FALSE /\ UNCHANGED <<layouts, orders, live, drag, active, sorting, mounted>>

\* resetLayout: every list on the screen reads its order again.
LayoutReset ==
  /\ layouts' = [l \in SortLists |-> Nothing]
  /\ orders' = [l \in SortLists |-> IF l \in mounted THEN Nothing ELSE orders[l]]
  /\ UNCHANGED <<live, drag, active, sorting, swallow, mounted>>

\* The page of a list is left, also while it is dragged; it comes back as a new
\* list (after the pointer was let go).
SortLeave(l) ==
  /\ l \in mounted /\ mounted' = mounted \ {l}
  /\ UNCHANGED <<layouts, orders, live, drag, active, sorting, swallow>>
SortReturn(l) ==
  /\ l \notin mounted /\ drag[l] = Nothing /\ mounted' = mounted \cup {l}
  /\ orders' = [orders EXCEPT ![l] = layouts[l]]
  /\ UNCHANGED <<layouts, live, drag, active, sorting, swallow>>

-----------------------------------------------------------------------------
SortableNext ==
  \/ SortEscape \/ SortClick \/ LayoutReset
  \/ \E l \in SortLists :
       \/ SortPick(l) \/ SortSlips(l) \/ SortUp(l) \/ SortCancel(l) \/ SortLeave(l) \/ SortReturn(l)
       \/ \E p \in DOMAIN Defaults[l] : SortMove(l, p)
       \/ \E id \in Range(Defaults[l]) :
            SortDown(l, id) \/ \E up \in BOOLEAN : SortKey(l, id, up)

SortableSpec == SortableInit /\ [][SortableNext]_sortVars
-----------------------------------------------------------------------------
\* An order of a list has each of its items exactly once.
EachOnce(l, o) ==
  o \in Seq(Range(Defaults[l])) /\ Range(o) = Range(Defaults[l]) /\ IsInjective(o)

\* Every variable keeps its kind of value: whatever the browser held and however
\* items were dragged, what a list draws is an order of it.
SortableTypeOK ==
  /\ \A l \in SortLists : EachOnce(l, OrderOf(l))
  /\ \A l \in SortLists : drag[l] \in Drag(l) \cup {Nothing}
  /\ active \in SortLists \cup {Nothing} /\ mounted \subseteq SortLists
  /\ sorting \in BOOLEAN /\ swallow \in BOOLEAN

\* The one drag of all lists is the drag of the list that has one: no list keeps
\* a drag the keys do not reach, and none is blocked by a drag that is over.
OneDrag ==
  /\ \A l \in SortLists : drag[l] # Nothing <=> active = l
  /\ sorting <=> active # Nothing /\ drag[active].picked /\ ~drag[active].cancelled
  /\ \A l \in SortLists : live[l] # Nothing => active = l /\ sorting
=============================================================================
