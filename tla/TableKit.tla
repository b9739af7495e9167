------------------------------ MODULE TableKit ------------------------------
(***************************************************************************)
(* useTableKit: a table in pages of a fixed size.  The page asked for may  *)
(* lie beyond a list that got shorter.                                     *)
(***************************************************************************)
EXTENDS Naturals, Sequences

CONSTANT PerPage      \* rows of a page
ASSUME TableKitAssumption == PerPage \in Nat \ {0}

PageCount(n) == IF n = 0 THEN 1 ELSE (n + PerPage - 1) \div PerPage
PageShown(rows, p) == IF p <= PageCount(Len(rows)) THEN p ELSE PageCount(Len(rows))
\* view: the rows of page p.
ViewRows(rows, p) ==
  LET from == (PageShown(rows, p) - 1) * PerPage
      n == IF from + PerPage <= Len(rows) THEN from + PerPage ELSE Len(rows)
  IN SubSeq(rows, from + 1, n)

\* reveal: the page of row r, the page as it is without one.
PageOf(rows, r, p) ==
  LET at == {i \in DOMAIN rows : rows[i] = r}
  IN IF at = {} THEN p ELSE ((CHOOSE i \in at : TRUE) - 1) \div PerPage + 1
=============================================================================
