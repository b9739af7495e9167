------------------------------- MODULE Lists -------------------------------
(***************************************************************************)
(* What the console does with arrays: filter and sort.  Both are recursive *)
(* functions over the positions read so far.                               *)
(***************************************************************************)
EXTENDS Naturals, Sequences, SequencesExt, FiniteSets

\* s.filter: the elements of s that are in the set, in their order.
Filtered(s, set) ==
  LET kept[n \in 0 .. Len(s)] ==
        IF n = 0 THEN <<>>
        ELSE IF s[n] \in set THEN Append(kept[n - 1], s[n]) ELSE kept[n - 1]
  IN kept[Len(s)]

\* s.sort, largest first: each number is put after those that are not smaller.
Descending(s) ==
  LET put(t, v) == InsertAt(t, 1 + Cardinality({i \in DOMAIN t : t[i] >= v}), v)
      sorted[n \in 0 .. Len(s)] == IF n = 0 THEN <<>> ELSE put(sorted[n - 1], s[n])
  IN sorted[Len(s)]
=============================================================================
