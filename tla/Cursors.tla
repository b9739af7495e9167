------------------------------ MODULE Cursors ------------------------------
(***************************************************************************)
(* Reading a growing log newest first, page by page: the server's lists    *)
(* take a limit and the id before which a page starts.  Entries are their  *)
(* ids, from 1.                                                            *)
(***************************************************************************)
EXTENDS Naturals, Sequences, Lists

\* The entries of the set among the first n, newest first.
Listed(set, n) == Filtered([i \in 1 .. n |-> n + 1 - i], set)
Upto(s, n) == SubSeq(s, 1, IF n < Len(s) THEN n ELSE Len(s))
Before(s, id) == Filtered(s, 1 .. id - 1)
=============================================================================
