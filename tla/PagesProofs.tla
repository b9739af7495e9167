---------------------------- MODULE PagesProofs -----------------------------
(***************************************************************************)
(* The lists of old verdicts (Records), the messages at the edge of the    *)
(* screen (Toast), the lists put in order by hand (Sortable), the chat     *)
(* (Chat) and the reader of its stream (EventText): their types and their  *)
(* safety properties, for any number of entries, messages, lists,          *)
(* questions and letters. The lemmas about filtered, sorted and changed    *)
(* sequences they share are in ListProofs.                                 *)
(***************************************************************************)
EXTENDS Records, Toast, Sortable, Chat, EventText, ListProofs

-----------------------------------------------------------------------------
(***************************************************************************)
(* Records: the pages of a list leave no hole, and the file has what was   *)
(* asked for.                                                              *)
(*                                                                         *)
(* A list only ever shows a beginning of what matches its filter as it was *)
(* when its first page was sent, newest first (RecordsInv); since a        *)
(* descending list is given by its elements (SameDescending), what is said *)
(* of the page that comes next and of the file follows from the sets of    *)
(* their entries.                                                          *)
(***************************************************************************)

\* What is listed of a log is what matches, newest first.
LEMMA ListedFacts ==
  ASSUME NEW M, NEW n \in Nat
  PROVE  /\ Listed(M, n) \in Seq(1 .. n) /\ Listed(M, n) \in Seq(Nat) /\ Descends(Listed(M, n))
         /\ Range(Listed(M, n)) = M \cap 1 .. n
<1> DEFINE r == [i \in 1 .. n |-> n + 1 - i]
<1>1. \A i \in 1 .. n : n + 1 - i \in 1 .. n /\ i = n + 1 - (n + 1 - i)
  OBVIOUS
<1>2. r \in [1 .. n -> 1 .. n]
  BY <1>1
<1>3. r \in Seq(1 .. n) /\ Len(r) = n /\ DOMAIN r = 1 .. n
  BY <1>2, IsASeq, LenProperties
<1>4. Range(r) = 1 .. n
  <2>1. Range(r) = {n + 1 - i : i \in 1 .. n}
    BY DEF Range
  <2>2. QED
    BY <1>1, <2>1
<1>5. Descends(r)
  BY DEF Descends
<1> HIDE DEF r
<1>6. 1 .. n \subseteq Nat
  OBVIOUS
<1>7. Descends(Filtered(r, M))
  BY <1>3, <1>5, <1>6, FilteredDescends
<1>8. Filtered(r, M) \in Seq(1 .. n) /\ Range(Filtered(r, M)) = (1 .. n) \cap M
  BY <1>3, <1>4, FilteredRange
<1>9. Filtered(r, M) \in Seq(Nat)
  BY <1>6, <1>8
<1>10. QED
  BY <1>7, <1>8, <1>9 DEF Listed, r

\* What of a list is older than a row.
LEMMA BeforeFacts ==
  ASSUME NEW s \in Seq(Nat), Descends(s), NEW id \in Nat
  PROVE  /\ Before(s, id) \in Seq(Nat) /\ Descends(Before(s, id))
         /\ Range(Before(s, id)) = Range(s) \cap 1 .. id - 1
BY FilteredDescends, FilteredRange DEF Before

\* What follows a place of a descending sequence is what is smaller.
LEMMA RestFacts ==
  ASSUME NEW s \in Seq(Nat), Descends(s), NEW k \in DOMAIN s
  PROVE  /\ SubSeq(s, k + 1, Len(s)) \in Seq(Nat) /\ Descends(SubSeq(s, k + 1, Len(s)))
         /\ Range(SubSeq(s, k + 1, Len(s))) = {y \in Range(s) : y < s[k]}
<1> DEFINE t == SubSeq(s, k + 1, Len(s))
<1>1. Len(s) \in Nat /\ DOMAIN s = 1 .. Len(s) /\ (\A j \in 1 .. Len(s) : s[j] \in Nat)
      /\ k \in Nat /\ k >= 1 /\ k <= Len(s)
  OBVIOUS
<1>2. t \in Seq(Nat) /\ Len(t) = Len(s) - k /\ \A i \in 1 .. Len(s) - k : t[i] = s[k + i]
  <2>1. k + 1 \in 1 .. Len(s) + 1 /\ Len(s) \in k + 1 - 1 .. Len(s)
    BY <1>1
  <2>2. /\ t \in Seq(Nat) /\ Len(t) = Len(s) - (k + 1) + 1
        /\ \A i \in 1 .. Len(s) - (k + 1) + 1 : t[i] = s[(k + 1) + i - 1]
    BY <2>1, SubSeqProperties, SMTT(20)
  <2>3. Len(s) - (k + 1) + 1 = Len(s) - k /\ \A i \in 1 .. Len(s) - k : (k + 1) + i - 1 = k + i
    BY <1>1
  <2>4. QED
    BY <2>2, <2>3
<1> HIDE DEF t
<1>3. DOMAIN t = 1 .. Len(s) - k /\ \A i \in 1 .. Len(s) - k : k + i \in DOMAIN s /\ k < k + i
  BY <1>1, <1>2, SMTT(20)
<1>4. Descends(t)
  <2> SUFFICES ASSUME NEW i \in 1 .. Len(s) - k, NEW j \in 1 .. Len(s) - k, i < j PROVE t[i] > t[j]
    BY <1>3 DEF Descends
  <2>1. k + i < k + j /\ k + i \in DOMAIN s /\ k + j \in DOMAIN s
    BY <1>1, <1>3
  <2>2. s[k + i] > s[k + j]
    BY <2>1 DEF Descends
  <2>3. QED
    BY <1>2, <2>2
<1>5. \A i \in 1 .. Len(s) - k : t[i] \in Range(s) /\ t[i] < s[k]
  <2> SUFFICES ASSUME NEW i \in 1 .. Len(s) - k PROVE t[i] \in Range(s) /\ t[i] < s[k]
    OBVIOUS
  <2>1. k + i \in DOMAIN s /\ k < k + i /\ t[i] = s[k + i]
    BY <1>2, <1>3
  <2>2. s[k] > s[k + i]
    BY <2>1 DEF Descends
  <2>3. QED
    BY <1>1, <2>1, <2>2 DEF Range
<1>6. ASSUME NEW j \in DOMAIN s, s[j] < s[k] PROVE \E i \in 1 .. Len(s) - k : t[i] = s[j]
  <2>1. ~(j < k) /\ j # k
    BY <1>1, <1>6 DEF Descends
  <2>2. j - k \in 1 .. Len(s) - k /\ k + (j - k) = j
    BY <1>1, <2>1
  <2>3. QED
    BY <1>2, <2>2
<1>7. Range(t) = {y \in Range(s) : y < s[k]}
  <2>1. Range(t) = {t[i] : i \in 1 .. Len(s) - k} /\ Range(s) = {s[j] : j \in DOMAIN s}
    BY <1>3 DEF Range
  <2>2. QED
    BY <1>5, <1>6, <2>1
<1>8. QED
  BY <1>2, <1>4, <1>7 DEF t

\* The entries before one of them are the same though the log has grown.
LEMMA BeforeIsRest ==
  ASSUME NEW M, NEW m \in Nat, NEW n \in Nat, m <= n, NEW k \in DOMAIN Listed(M, m)
  PROVE  Before(Listed(M, n), Listed(M, m)[k]) =
           SubSeq(Listed(M, m), k + 1, Len(Listed(M, m)))
<1> DEFINE A == Listed(M, m)
           B == Listed(M, n)
           x == A[k]
           rest == SubSeq(A, k + 1, Len(A))
<1>1. /\ A \in Seq(1 .. m) /\ A \in Seq(Nat) /\ Descends(A) /\ Range(A) = M \cap 1 .. m
      /\ B \in Seq(Nat) /\ Descends(B) /\ Range(B) = M \cap 1 .. n
  BY ListedFacts
<1>2. x \in 1 .. m /\ k \in DOMAIN A
  BY <1>1
<1> HIDE DEF A, B
<1>3. rest \in Seq(Nat) /\ Descends(rest) /\ Range(rest) = {y \in Range(A) : y < x}
  BY <1>1, <1>2, RestFacts
<1> HIDE DEF x, rest
<1>4. Before(B, x) \in Seq(Nat) /\ Descends(Before(B, x)) /\ Range(Before(B, x)) = Range(B) \cap 1 .. x - 1
  <2>1. x \in Nat
    BY <1>2
  <2>2. QED
    BY <1>1, <2>1, BeforeFacts
<1>5. Range(Before(B, x)) = Range(rest)
  <2>1. \A y : y \in 1 .. n /\ y \in 1 .. x - 1 <=> y \in 1 .. m /\ y < x
    BY <1>2
  <2>2. QED
    BY <1>1, <1>3, <1>4, <2>1
<1>6. Before(B, x) = rest
  BY <1>3, <1>4, <1>5, SameDescending
<1>7. QED
  BY <1>6 DEF A, B, x, rest

\* A beginning of a list, and its elements.
LEMMA UptoFacts ==
  ASSUME NEW X, NEW s \in Seq(X), NEW n \in Nat
  PROVE  /\ Upto(s, n) \in Seq(X) /\ Len(Upto(s, n)) = (IF n < Len(s) THEN n ELSE Len(s))
         /\ \A i \in 1 .. Len(Upto(s, n)) : Upto(s, n)[i] = s[i]
         /\ n >= Len(s) => Upto(s, n) = s
<1> DEFINE l == IF n < Len(s) THEN n ELSE Len(s)
           t == SubSeq(s, 1, l)
<1>1. Len(s) \in Nat /\ l \in 0 .. Len(s) /\ l \in Nat
  OBVIOUS
<1>2. t = Upto(s, n)
  BY DEF Upto
<1>5. n >= Len(s) => l = Len(s)
  BY <1>1
<1>6. l = IF n < Len(s) THEN n ELSE Len(s)
  OBVIOUS
<1> HIDE DEF l
<1>3. t \in Seq(X) /\ Len(t) = l /\ \A i \in 1 .. l : t[i] = s[i]
  BY <1>1, SubSeqProperties
<1>4. n >= Len(s) => t = s
  <2> HIDE DEF t
  <2>1. QED
    BY <1>1, <1>3, <1>5, SeqEqual
<1>7. QED
  <2> HIDE DEF t
  <2>1. QED
    BY <1>2, <1>3, <1>4, <1>6

\* all is the first part of A.
Starts(all, A) == Len(all) <= Len(A) /\ \A i \in 1 .. Len(all) : all[i] = A[i]

\* A list that starts another is its beginning of that length.
LEMMA StartsIsUpto ==
  ASSUME NEW X, NEW A \in Seq(X), NEW all \in Seq(X), Starts(all, A), NEW n \in Nat
  PROVE  /\ all = Upto(A, Len(all))
         /\ Len(all) = Len(A) => all = A
         /\ Len(all) >= n => Upto(all, n) = Upto(A, n)
<1>1. Len(all) \in Nat /\ Len(A) \in Nat
  OBVIOUS
<1>2. all = Upto(A, Len(all))
  BY <1>1, UptoFacts, SeqEqual DEF Starts
<1>3. Len(all) = Len(A) => all = A
  BY <1>1, SeqEqual DEF Starts
<1>4. ASSUME Len(all) >= n PROVE Upto(all, n) = Upto(A, n)
  <2>1. /\ Upto(all, n) \in Seq(X) /\ Len(Upto(all, n)) = n /\ \A i \in 1 .. n : Upto(all, n)[i] = all[i]
    BY <1>1, <1>4, UptoFacts
  <2>2. /\ Upto(A, n) \in Seq(X) /\ Len(Upto(A, n)) = n /\ \A i \in 1 .. n : Upto(A, n)[i] = A[i]
    BY <1>1, <1>4, UptoFacts DEF Starts
  <2>3. \A i \in 1 .. n : all[i] = A[i]
    BY <1>1, <1>4 DEF Starts
  <2>4. QED
    BY <2>1, <2>2, <2>3, SeqEqual
<1>5. QED
  BY <1>2, <1>3, <1>4

\* A list of some elements is a list of more.
LEMMA WiderSeq ==
  ASSUME NEW S, NEW T, S \subseteq T, NEW s \in Seq(S)
  PROVE  s \in Seq(T)
OBVIOUS

\* The pages behind the first, and one more.
LEMMA PagesAssociate ==
  ASSUME NEW a \in Seq(Nat), NEW b \in Seq(Nat), NEW c \in Seq(Nat)
  PROVE  (a \o b) \o c = a \o (b \o c)
BY ConcatAssociative, SMTT(20)

\* The first part of A goes on with page, all of it if that is short.
GoesOn(all, page, A, limit) ==
  /\ all \o page \in Seq(Nat) /\ Len(all \o page) = Len(all) + Len(page)
  /\ Starts(all \o page, A)
  /\ Len(page) < limit => all \o page = A

\* The page that follows the first part of a list, asked for later.
LEMMA NextPage ==
  ASSUME NEW M, NEW m \in Nat, NEW n \in Nat, m <= n, NEW limit \in Nat,
         NEW all \in Seq(Nat), all # <<>>, Starts(all, Listed(M, m)), NEW page,
         page = Upto(Before(Listed(M, n), Last(all)), limit)
  PROVE  page \in Seq(1 .. m) /\ GoesOn(all, page, Listed(M, m), limit)
<1> DEFINE A == Listed(M, m)
           k == Len(all)
           rest == SubSeq(A, k + 1, Len(A))
<1>1. A \in Seq(1 .. m) /\ A \in Seq(Nat) /\ Descends(A)
  BY ListedFacts
<1>2. k \in Nat /\ k >= 1 /\ k <= Len(A) /\ Len(A) \in Nat /\ k \in DOMAIN A /\ Last(all) = A[k]
  <2>1. k \in Nat /\ k >= 1 /\ k <= Len(A) /\ Len(A) \in Nat
    BY <1>1, EmptySeq DEF Starts
  <2>2. all[k] = A[k]
    BY <2>1 DEF Starts
  <2>3. k \in DOMAIN A
    BY <1>1, <2>1
  <2>4. QED
    BY <2>1, <2>2, <2>3 DEF Last
<1>3. page = Upto(rest, limit)
  BY <1>2, BeforeIsRest, ZenonT(40)
<1> HIDE DEF A
<1>4. rest \in Seq(1 .. m) /\ Len(rest) = Len(A) - k /\ \A i \in 1 .. Len(A) - k : rest[i] = A[k + i]
  <2>1. k + 1 \in 1 .. Len(A) + 1 /\ Len(A) \in k + 1 - 1 .. Len(A)
    BY <1>2
  <2>2. /\ rest \in Seq(1 .. m) /\ Len(rest) = Len(A) - (k + 1) + 1
        /\ \A i \in 1 .. Len(A) - (k + 1) + 1 : rest[i] = A[(k + 1) + i - 1]
    BY <1>1, <2>1, SubSeqProperties
  <2>3. Len(A) - (k + 1) + 1 = Len(A) - k /\ \A i \in 1 .. Len(A) - k : (k + 1) + i - 1 = k + i
    BY <1>2
  <2>4. QED
    BY <2>2, <2>3
<1> HIDE DEF rest
<1>5. /\ page \in Seq(1 .. m) /\ Len(page) = (IF limit < Len(rest) THEN limit ELSE Len(rest))
      /\ \A i \in 1 .. Len(page) : page[i] = rest[i]
  <2> DEFINE X == 1 .. m
  <2>1. rest \in Seq(X)
    BY <1>4
  <2> HIDE DEF X
  <2>2. /\ Upto(rest, limit) \in Seq(X)
        /\ Len(Upto(rest, limit)) = (IF limit < Len(rest) THEN limit ELSE Len(rest))
        /\ \A i \in 1 .. Len(Upto(rest, limit)) : Upto(rest, limit)[i] = rest[i]
    BY <2>1, UptoFacts
  <2>3. QED
    BY <1>3, <2>2 DEF X
<1>6. Len(page) \in Nat /\ Len(page) <= Len(A) - k /\ (Len(page) < limit => Len(page) = Len(A) - k)
  BY <1>2, <1>4, <1>5, SMTT(20)
<1>7. \A i \in 1 .. Len(page) : page[i] = A[k + i]
  <2>1. \A i \in 1 .. Len(page) : i \in 1 .. Len(A) - k
    BY <1>2, <1>6
  <2>2. QED
    BY <1>4, <1>5, <2>1
<1>8. page \in Seq(Nat)
  <2>1. 1 .. m \subseteq Nat
    OBVIOUS
  <2>2. QED
    BY <1>5, <2>1
<1> DEFINE c == all \o page
<1>9. /\ c \in Seq(Nat) /\ Len(c) = k + Len(page)
      /\ \A i \in 1 .. k + Len(page) : c[i] = IF i <= k THEN all[i] ELSE page[i - k]
  BY <1>8, ConcatProperties
<1> HIDE DEF c
<1>10. Starts(c, A)
  <2> SUFFICES ASSUME NEW i \in 1 .. k + Len(page) PROVE c[i] = A[i]
    BY <1>2, <1>6, <1>9 DEF Starts
  <2>1. CASE i <= k
    <3>1. i \in 1 .. k /\ c[i] = all[i]
      BY <1>2, <1>9, <2>1
    <3>2. QED
      BY <3>1 DEF Starts, A
  <2>2. CASE ~(i <= k)
    <3>1. i - k \in 1 .. Len(page) /\ k + (i - k) = i /\ c[i] = page[i - k]
      BY <1>2, <1>6, <1>9, <2>2, SMTT(20)
    <3>2. QED
      BY <1>7, <3>1
  <2>3. QED
    BY <2>1, <2>2
<1>11. ASSUME Len(page) < limit PROVE c = A
  <2>1. Len(c) = Len(A)
    BY <1>2, <1>6, <1>9, <1>11
  <2>2. QED
    BY <1>1, <1>9, <1>10, <2>1, StartsIsUpto
<1>12. QED
  BY <1>5, <1>9, <1>10, <1>11 DEF c, A, GoesOn

\* The first page of a list.
LEMMA FirstPage ==
  ASSUME NEW M, NEW n \in Nat, NEW limit \in Nat, NEW page, page = Upto(Listed(M, n), limit)
  PROVE  /\ page \in Seq(1 .. n) /\ page \in Seq(Nat) /\ Len(page) <= limit /\ Starts(page, Listed(M, n))
         /\ Len(page) < limit => page = Listed(M, n)
<1> DEFINE A == Listed(M, n)
<1>1. A \in Seq(1 .. n) /\ A \in Seq(Nat) /\ Len(A) \in Nat
  BY ListedFacts
<1> HIDE DEF A
<1>2. /\ page \in Seq(1 .. n) /\ Len(page) = (IF limit < Len(A) THEN limit ELSE Len(A))
      /\ (\A i \in 1 .. Len(page) : page[i] = A[i]) /\ (limit >= Len(A) => page = A)
  BY <1>1, UptoFacts DEF A
<1>3. page \in Seq(Nat)
  <2>1. 1 .. n \subseteq Nat
    OBVIOUS
  <2>2. QED
    BY <1>2, <2>1
<1>4. QED
  BY <1>1, <1>2, <1>3 DEF A, Starts

-----------------------------------------------------------------------------
(* The invariant.                                                          *)

\* The pages of the sign-in log are the first part of the log of its first page.
RowsInv ==
  LET A == Listed(EntryMatching[authFilter], authRows.asOf)
  IN /\ authRows.data = Nothing => authRows.extra = <<>> /\ authRows.end = FALSE /\ more = Idle
     /\ authRows.data # Nothing =>
          /\ authRows.data \in Seq(Nat) /\ authRows.extra \in Seq(Nat) /\ Len(authRows.data) <= PageLimit
          /\ authRows.asOf \in 0 .. entries
          /\ Starts(allRows, A)
          /\ Len(authRows.data) < PageLimit => more = Idle /\ allRows = A
          /\ authRows.end => allRows = A
          /\ more.at = "answered" =>
               /\ Starts(allRows \o more.data, A)
               /\ Len(more.data) < PageLimit => allRows \o more.data = A

\* The pages of an export are the first part of the log of its first page.
CsvInv ==
  csv # Nothing =>
    /\ csv \in [filter : EntryFilters, all : Seq(Nat), asOf : Nat \cup {Nothing}]
    /\ csv.all = <<>> => csv.asOf = Nothing
    /\ csv.all # <<>> => csv.asOf \in 0 .. entries /\ csv.asOf # Nothing
                         /\ Starts(csv.all, Listed(EntryMatching[csv.filter], csv.asOf))

RecordTypes ==
  /\ entries \in 0 .. MaxEntries /\ authFilter \in EntryFilters
  /\ authRows \in [data : Seq(Nat) \cup {Nothing}, extra : Seq(Nat), end : BOOLEAN, failed : BOOLEAN,
                   asOf : Nat]
  /\ more \in Requests(Seq(1 .. MaxEntries))
  /\ record \in [id : 0 .. MaxEntries, found : BOOLEAN \cup {Nothing}]
  /\ changesLoad \in Loads({<<>>, <<1>>})

RecordsInv == RecordTypes /\ RowsInv /\ CsvInv /\ FileIsExact

-----------------------------------------------------------------------------
(* Pages.                                                                  *)

\* The page after the last of some rows of the log, or its first page.
LEMMA PageFollows ==
  ASSUME NEW f \in EntryFilters, entries \in Nat, NEW m \in 0 .. entries,
         NEW all \in Seq(Nat), all # <<>>, Starts(all, Listed(EntryMatching[f], m))
  PROVE  LET page == PageAfter(f, Last(all))
         IN page \in Seq(1 .. m) /\ GoesOn(all, page, Listed(EntryMatching[f], m), PageLimit)
<1> DEFINE M == EntryMatching[f]
           page == PageAfter(f, Last(all))
<1>1. Last(all) \in Nat
  <2>1. Len(all) \in Nat /\ Len(all) >= 1
    BY EmptySeq
  <2>2. QED
    BY <2>1 DEF Last
<1>2. Last(all) # Nothing /\ PageLimit \in Nat /\ m \in Nat /\ m <= entries
  BY <1>1, RecordsAssumption
<1>3. page = Upto(Before(Listed(M, entries), Last(all)), PageLimit)
  BY <1>2 DEF PageAfter
<1> HIDE DEF M, page
<1>4. Starts(all, Listed(M, m))
  BY DEF M
<1>5. page \in Seq(1 .. m) /\ GoesOn(all, page, Listed(M, m), PageLimit)
  BY <1>2, <1>3, <1>4, NextPage
<1>6. QED
  BY <1>5 DEF M, page

\* A first page starts the list asked for.
LEMMA PageFirst ==
  ASSUME NEW f \in EntryFilters, entries \in Nat
  PROVE  LET page == PageAfter(f, Nothing)
         IN /\ page \in Seq(1 .. entries) /\ page \in Seq(Nat) /\ Len(page) <= PageLimit
            /\ Starts(page, Listed(EntryMatching[f], entries))
            /\ Len(page) < PageLimit => page = Listed(EntryMatching[f], entries)
<1> DEFINE M == EntryMatching[f]
           page == PageAfter(f, Nothing)
<1>1. page = Upto(Listed(M, entries), PageLimit) /\ PageLimit \in Nat
  BY RecordsAssumption DEF PageAfter
<1> HIDE DEF M, page
<1>2. /\ page \in Seq(1 .. entries) /\ page \in Seq(Nat) /\ Len(page) <= PageLimit
      /\ Starts(page, Listed(M, entries)) /\ (Len(page) < PageLimit => page = Listed(M, entries))
  BY <1>1, FirstPage
<1>3. QED
  BY <1>2 DEF M, page

-----------------------------------------------------------------------------
(* Steps.                                                                  *)

\* What is loaded keeps its kind of value.
LEMMA LoadsKeep ==
  ASSUME NEW D, NEW l \in Loads(D)
  PROVE  /\ \A c \in l.calls : /\ \A d \in D : Replied(l, c, d) \in Loads(D)
                               /\ Broke(l, c) \in Loads(D) /\ Took(l, c) \in Loads(D)
         /\ Reload(l) \in Loads(D)
<1> DEFINE C == [request : Requests(D), live : BOOLEAN]
<1>1. /\ l \in [data : D \cup {Nothing}, failed : BOOLEAN, calls : SUBSET C]
      /\ l.data \in D \cup {Nothing} /\ l.failed \in BOOLEAN /\ l.calls \subseteq C
  BY DEF Loads
<1>2. ASSUME NEW r \in Requests(D), NEW b \in BOOLEAN PROVE OneCall(r, b) \in C
  BY DEF OneCall
<1>3. {Idle, Sent, Failed} \subseteq Requests(D) /\ \A d \in D : Answer(d) \in Requests(D)
  BY DEF Requests, Answer
<1>4. \A c \in C : c.live \in BOOLEAN /\ c.request \in Requests(D)
  OBVIOUS
<1>5. \A r \in Requests(D) : r.at = "answered" => r.data \in D
  BY DEF Requests, Idle, Sent, Failed
<1> HIDE DEF C
<1>6. Loads(D) = [data : D \cup {Nothing}, failed : BOOLEAN, calls : SUBSET C]
  BY DEF Loads, C
<1>7. ASSUME NEW c \in l.calls
      PROVE  /\ \A d \in D : Replied(l, c, d) \in Loads(D)
             /\ Broke(l, c) \in Loads(D) /\ Took(l, c) \in Loads(D)
  <2>1. c \in C
    BY <1>1
  <2>2. ASSUME NEW r \in Requests(D), NEW new, new = [l EXCEPT !.calls = (@ \ {c}) \cup {OneCall(r, c.live)}]
        PROVE  new \in Loads(D)
    <3>1. (l.calls \ {c}) \cup {OneCall(r, c.live)} \subseteq C
      BY <1>1, <1>2, <1>4, <2>1
    <3>2. QED
      BY <1>1, <1>6, <2>2, <3>1
  <2>3. ASSUME NEW d \in D PROVE Replied(l, c, d) \in Loads(D)
    BY <1>3, <2>2 DEF Replied
  <2>4. Broke(l, c) \in Loads(D)
    BY <1>3, <2>2 DEF Broke
  <2>5. Took(l, c) \in Loads(D)
    <3>1. l.calls \ {c} \subseteq C /\ (c.request = Failed) \in BOOLEAN
      BY <1>1
    <3>2. (IF c.live /\ c.request.at = "answered" THEN c.request.data ELSE l.data) \in D \cup {Nothing}
      BY <1>1, <1>4, <1>5, <2>1
    <3>3. (IF c.live THEN c.request = Failed ELSE l.failed) \in BOOLEAN
      BY <1>1, <1>4, <2>1
    <3>4. QED
      BY <1>6, <3>1, <3>2, <3>3 DEF Took
  <2>6. QED
    BY <2>3, <2>4, <2>5
<1>8. Reload(l) \in Loads(D)
  <2>1. Dead(l.calls) \subseteq C
    BY <1>1, <1>2, <1>4 DEF Dead
  <2>2. OneCall(Sent, TRUE) \in C
    BY <1>2, <1>3
  <2>3. Dead(l.calls) \cup {OneCall(Sent, TRUE)} \subseteq C
    BY <2>1, <2>2
  <2>4. QED
    BY <1>1, <1>6, <2>3 DEF Reload
<1>9. QED
  BY <1>7, <1>8

\* Every action keeps the types.
LEMMA RecordTypesStep ==
  RecordTypes /\ RowsInv /\ [RecordsNext]_recordsVars => RecordTypes'
<1> SUFFICES ASSUME RecordTypes, RowsInv, [RecordsNext]_recordsVars PROVE RecordTypes'
  OBVIOUS
<1> DEFINE D == {<<>>, <<1>>}
           R == Requests(Seq(1 .. MaxEntries))
           Rows == [data : Seq(Nat) \cup {Nothing}, extra : Seq(Nat), end : BOOLEAN, failed : BOOLEAN,
                    asOf : Nat]
           Rec == [id : 0 .. MaxEntries, found : BOOLEAN \cup {Nothing}]
<1> USE DEF authPart, csvPart
<1>1. /\ entries \in 0 .. MaxEntries /\ authFilter \in EntryFilters /\ authRows \in Rows /\ more \in R
      /\ record \in Rec /\ changesLoad \in Loads(D)
  BY DEF RecordTypes
<1>2. MaxEntries \in Nat /\ PageLimit \in Nat \ {0} /\ entries \in Nat
  BY <1>1, RecordsAssumption
<1>3. ASSUME /\ entries' \in 0 .. MaxEntries /\ authFilter' \in EntryFilters /\ authRows' \in Rows
             /\ more' \in R /\ record' \in Rec /\ changesLoad' \in Loads(D)
      PROVE  RecordTypes'
  BY <1>3 DEF RecordTypes
<1>4. Idle \in R /\ Sent \in R /\ Failed \in R /\ \A d \in Seq(1 .. MaxEntries) : Answer(d) \in R
  BY DEF Requests, Idle, Sent, Failed, Answer
<1>5. NoRows \in Rows
  BY DEF NoRows
<1> HIDE DEF R
<1>6. CASE EntryRecorded
  BY <1>1, <1>2, <1>3, <1>6 DEF EntryRecorded
<1>7. ASSUME NEW f \in EntryFilters, SetAuthFilter(f) PROVE RecordTypes'
  BY <1>1, <1>3, <1>4, <1>5, <1>7 DEF SetAuthFilter
<1>8. CASE AuthRowsLoaded
  <2>1. PageAfter(authFilter, Nothing) \in Seq(Nat)
    BY <1>1, <1>2, PageFirst
  <2>2. authRows' \in Rows
    BY <1>1, <1>2, <1>8, <2>1 DEF AuthRowsLoaded
  <2>3. QED
    BY <1>1, <1>3, <1>8, <2>2 DEF AuthRowsLoaded
<1>9. CASE AskMore
  BY <1>1, <1>3, <1>4, <1>9 DEF AskMore
<1>10. CASE MoreAnswered
  <2>1. authRows.data # Nothing
    BY <1>10 DEF MoreAnswered, RowsInv, Sent, Idle
  <2>2. /\ allRows \in Seq(Nat) /\ authRows.asOf \in 0 .. entries
        /\ Starts(allRows, Listed(EntryMatching[authFilter], authRows.asOf))
    <3>1. authRows.data \in Seq(Nat) /\ authRows.extra \in Seq(Nat) /\ authRows.asOf \in 0 .. entries
          /\ Starts(allRows, Listed(EntryMatching[authFilter], authRows.asOf))
      BY <2>1 DEF RowsInv
    <3>2. QED
      BY <3>1, ConcatProperties DEF allRows
  <2>3. allRows # <<>>
    <3>1. /\ authRows.data \in Seq(Nat) /\ authRows.extra \in Seq(Nat)
          /\ ~(Len(authRows.data) < PageLimit)
      BY <1>10, <2>1 DEF MoreAnswered, RowsInv, Sent, Idle
    <3>2. Len(allRows) = Len(authRows.data) + Len(authRows.extra)
      BY <3>1, ConcatProperties DEF allRows
    <3>3. Len(authRows.data) \in Nat /\ Len(authRows.extra) \in Nat
      BY <3>1
    <3>4. Len(allRows) # 0
      <4>1. \A a, b, l \in Nat : ~(a < l) /\ l # 0 => a + b # 0
        OBVIOUS
      <4>2. QED
        BY <1>2, <3>1, <3>2, <3>3, <4>1
    <3>5. QED
      BY <3>4
  <2>4. PageAfter(authFilter, Last(allRows)) \in Seq(1 .. authRows.asOf)
    BY <1>1, <1>2, <2>2, <2>3, PageFollows
  <2>5. 1 .. authRows.asOf \subseteq 1 .. MaxEntries
    BY <1>1, <1>2, <2>2
  <2>6. PageAfter(authFilter, Last(allRows)) \in Seq(1 .. MaxEntries)
    BY <2>4, <2>5, WiderSeq
  <2>7. more' \in R
    BY <1>4, <1>10, <2>6 DEF MoreAnswered
  <2>8. QED
    BY <1>1, <1>3, <1>10, <2>7 DEF MoreAnswered
<1>11. CASE MoreTaken
  <2>1. more.at = "answered" => more.data \in Seq(Nat)
    <3>1. more.at = "answered" => more.data \in Seq(1 .. MaxEntries)
      BY <1>1 DEF R, Requests, Idle, Sent, Failed
    <3>2. 1 .. MaxEntries \subseteq Nat
      OBVIOUS
    <3>3. QED
      BY <3>1, <3>2, WiderSeq
  <2>2. more = Failed \/ more.at = "answered"
    BY <1>1, <1>11 DEF MoreTaken, R, Requests, Idle, Sent, Failed
  <2>3. authRows' \in Rows
    <3>1. CASE more = Failed
      BY <1>1, <1>11, <3>1 DEF MoreTaken
    <3>2. CASE more # Failed
      <4>1. more.data \in Seq(Nat) /\ authRows.extra \in Seq(Nat)
        BY <1>1, <2>1, <2>2, <3>2
      <4>2. authRows.extra \o more.data \in Seq(Nat)
        BY <4>1, ConcatProperties
      <4>3. authRows' = [authRows EXCEPT !.extra = @ \o more.data,
                                         !.end = @ \/ Len(more.data) < PageLimit]
        BY <1>11, <3>2 DEF MoreTaken
      <4>4. (authRows.end \/ Len(more.data) < PageLimit) \in BOOLEAN
        BY <1>1
      <4>5. QED
        BY <1>1, <4>2, <4>3, <4>4
    <3>3. QED
      BY <3>1, <3>2
  <2>4. QED
    BY <1>1, <1>3, <1>4, <1>11, <2>3 DEF MoreTaken
<1>12. ASSUME NEW f, Export(f) PROVE RecordTypes'
  BY <1>1, <1>3, <1>12 DEF Export
<1>13. CASE ExportPage \/ ExportFails
  BY <1>1, <1>3, <1>13, Zenon DEF ExportPage, ExportFails
<1>14. ASSUME NEW id \in 1 .. MaxEntries, OpenRecord(id) PROVE RecordTypes'
  <2>1. record' \in Rec
    BY <1>2, <1>14 DEF OpenRecord
  <2>2. QED
    BY <1>1, <1>3, <1>14, <2>1 DEF OpenRecord
<1>15. CASE RecordTaken
  <2>1. record' \in Rec
    BY <1>1, <1>15 DEF RecordTaken, Contains
  <2>2. QED
    BY <1>1, <1>3, <1>15, <2>1 DEF RecordTaken
<1>16. ASSUME NEW c \in changesLoad.calls, ChangesReplied(c) \/ ChangesTaken(c) PROVE RecordTypes'
  <2>1. changesLoad' \in Loads(D)
    <3>1. /\ \A d \in D : Replied(changesLoad, c, d) \in Loads(D)
          /\ Broke(changesLoad, c) \in Loads(D) /\ Took(changesLoad, c) \in Loads(D)
      BY <1>1, LoadsKeep
    <3>2. QED
      BY <1>16, <3>1 DEF ChangesReplied, ChangesTaken
  <2>2. QED
    BY <1>1, <1>3, <1>16, <2>1 DEF ChangesReplied, ChangesTaken
<1>17. CASE RetryChanges
  <2>1. Reload(changesLoad) \in Loads(D)
    BY <1>1, LoadsKeep
  <2>2. QED
    BY <1>1, <1>3, <1>17, <2>1 DEF RetryChanges
<1>18. CASE UNCHANGED recordsVars
  BY <1>1, <1>3, <1>18 DEF recordsVars
<1>19. QED
  BY <1>6, <1>7, <1>8, <1>9, <1>10, <1>11, <1>12, <1>13, <1>14, <1>15, <1>16, <1>17, <1>18 DEF RecordsNext

\* Every action keeps the rows a beginning of what is listed.
LEMMA RowsStep ==
  RecordTypes /\ RowsInv /\ [RecordsNext]_recordsVars => RowsInv'
<1> SUFFICES ASSUME RecordTypes, RowsInv, [RecordsNext]_recordsVars PROVE RowsInv'
  OBVIOUS
<1> DEFINE A == Listed(EntryMatching[authFilter], authRows.asOf)
<1> USE DEF authPart, csvPart
<1>1. /\ entries \in Nat /\ authFilter \in EntryFilters /\ PageLimit \in Nat \ {0}
      /\ authRows \in [data : Seq(Nat) \cup {Nothing}, extra : Seq(Nat), end : BOOLEAN, failed : BOOLEAN,
                       asOf : Nat]
      /\ more \in Requests(Seq(1 .. MaxEntries))
  BY RecordsAssumption DEF RecordTypes
<1>2. authRows.data # Nothing => allRows \in Seq(Nat)
  BY <1>1, ConcatProperties DEF allRows
<1>3. CASE UNCHANGED <<authFilter, authRows, more>> /\ (entries' = entries \/ entries' = entries + 1)
  <2>1. \A m \in 0 .. entries : m \in 0 .. entries'
    BY <1>1, <1>3
  <2>2. QED
    BY <1>3, <2>1 DEF RowsInv, allRows
<1>4. ASSUME NEW f \in EntryFilters, SetAuthFilter(f) PROVE RowsInv'
  <2>1. authRows' = NoRows /\ more' = Idle
    BY <1>4 DEF SetAuthFilter
  <2>2. QED
    BY <2>1 DEF RowsInv, NoRows
<1>5. CASE AuthRowsLoaded
  <2>1. /\ authRows.data = Nothing /\ UNCHANGED <<entries, authFilter, more>>
        /\ authRows.extra = <<>> /\ authRows.end = FALSE /\ more = Idle
    BY <1>5 DEF AuthRowsLoaded, RowsInv
  <2>2. CASE authRows' = [authRows EXCEPT !.failed = TRUE]
    BY <1>1, <2>1, <2>2 DEF RowsInv
  <2>3. CASE authRows' = [authRows EXCEPT !.data = PageAfter(authFilter, Nothing), !.asOf = entries]
    <3> DEFINE page == PageAfter(authFilter, Nothing)
               L == Listed(EntryMatching[authFilter], entries)
    <3>1. /\ page \in Seq(Nat) /\ Len(page) <= PageLimit /\ Starts(page, L)
          /\ Len(page) < PageLimit => page = L
      BY <1>1, PageFirst
    <3> HIDE DEF page, L
    <3>2. /\ authRows'.data = page /\ authRows'.asOf = entries
          /\ authRows'.extra = <<>> /\ authRows'.end = FALSE
      BY <1>1, <2>1, <2>3 DEF page
    <3>3. allRows' = page
      BY <3>1, <3>2, ConcatEmptySeq DEF allRows
    <3>4. A' = L
      BY <2>1, <3>2 DEF L
    <3>5. entries \in 0 .. entries'
      BY <1>1, <2>1
    <3>6. more'.at # "answered" /\ more' = Idle
      BY <2>1 DEF Idle
    <3>7. QED
      BY <3>1, <3>2, <3>3, <3>4, <3>5, <3>6 DEF RowsInv
  <2>4. QED
    BY <1>5, <2>2, <2>3 DEF AuthRowsLoaded
<1>6. CASE AskMore
  <2>1. /\ UNCHANGED <<entries, authFilter, authRows>> /\ more' = Sent
        /\ authRows.data # Nothing /\ Len(authRows.data) >= PageLimit
    BY <1>6 DEF AskMore, hasMore
  <2>2. ~(Len(authRows.data) < PageLimit)
    <3>1. authRows.data \in Seq(Nat)
      BY <1>1, <2>1
    <3>2. QED
      BY <1>1, <2>1, <3>1
  <2>3. more'.at # "answered"
    BY <2>1 DEF Sent
  <2>4. QED
    BY <2>1, <2>2, <2>3 DEF RowsInv, allRows
<1>7. CASE MoreAnswered
  <2>1. more = Sent /\ UNCHANGED <<entries, authFilter, authRows>>
    BY <1>7 DEF MoreAnswered
  <2>2. authRows.data # Nothing /\ ~(Len(authRows.data) < PageLimit)
    BY <2>1 DEF RowsInv, Sent, Idle
  <2>3. CASE more' = Failed
    <3>1. more'.at # "answered"
      BY <2>3 DEF Failed
    <3>2. QED
      BY <2>1, <2>2, <3>1 DEF RowsInv, allRows
  <2>4. CASE more' = Answer(PageAfter(authFilter, Last(allRows)))
    <3> DEFINE page == PageAfter(authFilter, Last(allRows))
    <3>1. allRows \in Seq(Nat) /\ allRows # <<>> /\ Starts(allRows, A) /\ authRows.asOf \in 0 .. entries
      <4>1. authRows.data \in Seq(Nat) /\ authRows.extra \in Seq(Nat)
        BY <1>1, <2>2
      <4>2. Len(allRows) = Len(authRows.data) + Len(authRows.extra)
        BY <4>1, ConcatProperties DEF allRows
      <4>3. Len(authRows.data) \in Nat /\ Len(authRows.extra) \in Nat
        BY <4>1
      <4>4. \A a, b, l \in Nat : ~(a < l) /\ l # 0 => a + b # 0
        OBVIOUS
      <4>5. Len(allRows) # 0
        BY <1>1, <2>2, <4>2, <4>3, <4>4
      <4>6. QED
        BY <1>2, <2>2, <4>5 DEF RowsInv
    <3>2. GoesOn(allRows, page, A, PageLimit)
      BY <1>1, <3>1, PageFollows
    <3> HIDE DEF page
    <3>3. more'.at = "answered" /\ more'.data = page
      BY <2>4 DEF Answer, page
    <3>4. A' = A /\ allRows' = allRows
      BY <2>1 DEF allRows
    <3>5. /\ Starts(allRows \o page, A)
          /\ Len(page) < PageLimit => allRows \o page = A
      BY <3>2 DEF GoesOn
    <3>6. QED
      BY <2>1, <2>2, <3>3, <3>4, <3>5 DEF RowsInv
  <2>5. QED
    BY <1>7, <2>3, <2>4 DEF MoreAnswered
<1>8. CASE MoreTaken
  <2>1. /\ more' = Idle /\ UNCHANGED <<entries, authFilter>> /\ more.at \in {"answered", "failed"}
        /\ authRows' = IF more = Failed THEN authRows
                       ELSE [authRows EXCEPT !.extra = @ \o more.data,
                                             !.end = @ \/ Len(more.data) < PageLimit]
    BY <1>8 DEF MoreTaken
  <2>2. more'.at # "answered" /\ more # Idle
    BY <2>1 DEF Idle
  <2>3. CASE more = Failed
    BY <2>1, <2>2, <2>3 DEF RowsInv, allRows
  <2>4. CASE more # Failed
    <3>1. more.at = "answered" /\ more.data \in Seq(Nat)
      <4>1. more.at = "answered" /\ more.data \in Seq(1 .. MaxEntries)
        BY <1>1, <2>1, <2>4 DEF Requests, Idle, Sent, Failed
      <4>2. 1 .. MaxEntries \subseteq Nat
        OBVIOUS
      <4>3. QED
        BY <4>1, <4>2, WiderSeq
    <3>2. authRows.data # Nothing /\ ~(Len(authRows.data) < PageLimit)
      BY <2>2 DEF RowsInv
    <3>3. authRows.data \in Seq(Nat) /\ authRows.extra \in Seq(Nat)
      BY <1>1, <3>2
    <3> DEFINE x == authRows.extra
               p == more.data
    <3>4. /\ authRows'.data = authRows.data /\ authRows'.extra = x \o p /\ authRows'.asOf = authRows.asOf
          /\ authRows'.end = (authRows.end \/ Len(p) < PageLimit)
      BY <1>1, <2>1, <2>4
    <3>5. x \o p \in Seq(Nat) /\ allRows' = allRows \o p
      <4>1. x \in Seq(Nat) /\ p \in Seq(Nat)
        BY <3>1, <3>3
      <4> HIDE DEF x, p
      <4>2. authRows.data \o (x \o p) = (authRows.data \o x) \o p
        BY <3>3, <4>1, PagesAssociate
      <4>3. QED
        BY <3>4, <4>1, <4>2, ConcatProperties DEF allRows, x
    <3>6. /\ Starts(allRows \o p, A) /\ (Len(p) < PageLimit => allRows \o p = A)
          /\ authRows.end => allRows = A
      BY <3>1, <3>2 DEF RowsInv
    <3>7. authRows.end => allRows \o p = A
      <4> SUFFICES ASSUME authRows.end PROVE allRows \o p = A
        OBVIOUS
      <4>1. allRows = A /\ allRows \in Seq(Nat) /\ p \in Seq(Nat)
        BY <1>2, <3>1, <3>2, <3>6
      <4> HIDE DEF p, A
      <4> DEFINE c == allRows \o p
      <4>2. c \in Seq(Nat) /\ Len(c) = Len(allRows) + Len(p)
        BY <4>1, ConcatProperties
      <4> HIDE DEF c
      <4>3. Starts(c, A)
        BY <3>6 DEF c
      <4>4. Len(c) = Len(A)
        <5>1. Len(p) \in Nat /\ Len(A) \in Nat /\ Len(c) <= Len(A) /\ Len(c) = Len(A) + Len(p)
          BY <4>1, <4>2, <4>3 DEF Starts
        <5>2. QED
          BY <5>1
      <4>5. c = A
        BY <4>1, <4>2, <4>3, <4>4, StartsIsUpto
      <4>6. QED
        BY <4>5 DEF c
    <3>8. A' = A
      BY <2>1, <3>4
    <3>9. authRows'.asOf \in 0 .. entries' /\ Len(authRows'.data) <= PageLimit
      BY <2>1, <3>2, <3>4 DEF RowsInv
    <3>10. /\ authRows'.data # Nothing /\ authRows'.data \in Seq(Nat) /\ authRows'.extra \in Seq(Nat)
           /\ ~(Len(authRows'.data) < PageLimit)
      BY <3>2, <3>3, <3>4, <3>5
    <3>11. Starts(allRows, A)' /\ (authRows'.end => allRows' = A')
      BY <3>4, <3>5, <3>6, <3>7, <3>8
    <3>12. QED
      BY <2>2, <3>9, <3>10, <3>11 DEF RowsInv
  <2>5. QED
    BY <2>3, <2>4
<1>9. CASE EntryRecorded
  BY <1>3, <1>9 DEF EntryRecorded
<1>10. ASSUME NEW f, Export(f) PROVE RowsInv'
  BY <1>3, <1>10 DEF Export
<1>11. CASE ExportPage \/ ExportFails \/ RecordTaken
  BY <1>3, <1>11 DEF ExportPage, ExportFails, RecordTaken
<1>12. ASSUME NEW id, OpenRecord(id) PROVE RowsInv'
  BY <1>3, <1>12 DEF OpenRecord
<1>13. ASSUME NEW c, ChangesReplied(c) \/ ChangesTaken(c) PROVE RowsInv'
  BY <1>3, <1>13 DEF ChangesReplied, ChangesTaken
<1>14. CASE RetryChanges \/ UNCHANGED recordsVars
  BY <1>3, <1>14 DEF RetryChanges, recordsVars
<1>15. QED
  BY <1>4, <1>5, <1>6, <1>7, <1>8, <1>9, <1>10, <1>11, <1>12, <1>13, <1>14 DEF RecordsNext

\* Every action keeps the export a beginning of its list.
LEMMA CsvStep ==
  RecordTypes /\ CsvInv /\ FileIsExact /\ [RecordsNext]_recordsVars => CsvInv' /\ FileIsExact'
<1> SUFFICES ASSUME RecordTypes, CsvInv, FileIsExact, [RecordsNext]_recordsVars
             PROVE  CsvInv' /\ FileIsExact'
  OBVIOUS
<1> USE DEF authPart, csvPart
<1>1. entries \in Nat /\ PageLimit \in Nat \ {0} /\ CsvMax \in Nat /\ Nothing \notin Nat
  BY RecordsAssumption DEF RecordTypes
<1>2. CASE UNCHANGED <<csv, file>> /\ (entries' = entries \/ entries' = entries + 1)
  <2>1. \A m \in 0 .. entries : m \in 0 .. entries'
    BY <1>1, <1>2
  <2>2. QED
    BY <1>2, <2>1 DEF CsvInv, FileIsExact
<1>3. CASE csv' = Nothing /\ file' = file
  BY <1>3 DEF CsvInv, FileIsExact
<1>4. ASSUME NEW f \in EntryFilters, Export(f) PROVE CsvInv' /\ FileIsExact'
  <2>1. csv' = [filter |-> f, all |-> <<>>, asOf |-> Nothing] /\ file' = file
    BY <1>4 DEF Export
  <2>2. QED
    BY <2>1 DEF CsvInv, FileIsExact
<1>5. CASE ExportPage
  <2> DEFINE f == csv.filter
             page == PageAfter(f, IF csv.all = <<>> THEN Nothing ELSE Last(csv.all))
             all == csv.all \o page
             asOf == IF csv.asOf = Nothing THEN entries ELSE csv.asOf
             L == Listed(EntryMatching[f], asOf)
  <2>1. csv # Nothing /\ UNCHANGED entries
    BY <1>5 DEF ExportPage
  <2>2. /\ csv \in [filter : EntryFilters, all : Seq(Nat), asOf : Nat \cup {Nothing}]
        /\ f \in EntryFilters /\ csv.all \in Seq(Nat)
    BY <2>1 DEF CsvInv
  <2>3. /\ all \in Seq(Nat) /\ Starts(all, L) /\ asOf \in 0 .. entries
        /\ Len(page) < PageLimit => all = L
        /\ ~(Len(page) < PageLimit) => all # <<>>
    <3>1. CASE csv.all = <<>>
      <4>1. page = PageAfter(f, Nothing) /\ asOf = entries
        BY <2>1, <3>1 DEF CsvInv
      <4> HIDE DEF page, asOf
      <4>2. /\ page \in Seq(Nat) /\ Starts(page, L) /\ (Len(page) < PageLimit => page = L)
        BY <1>1, <2>2, <4>1, PageFirst
      <4>3. all = page
        BY <3>1, <4>2, ConcatEmptySeq
      <4>4. ~(Len(page) < PageLimit) => page # <<>>
        BY <1>1
      <4>5. QED
        BY <1>1, <4>1, <4>2, <4>3, <4>4
    <3>2. CASE csv.all # <<>>
      <4>1. /\ page = PageAfter(f, Last(csv.all)) /\ asOf = csv.asOf /\ csv.asOf \in 0 .. entries
            /\ Starts(csv.all, Listed(EntryMatching[f], csv.asOf))
        BY <2>1, <3>2 DEF CsvInv
      <4> HIDE DEF page, asOf, f
      <4>2. GoesOn(csv.all, page, L, PageLimit)
        BY <1>1, <2>2, <3>2, <4>1, PageFollows
      <4>3. all # <<>>
        <5>1. Len(all) = Len(csv.all) + Len(page) /\ Len(csv.all) \in Nat /\ Len(csv.all) # 0
          BY <2>2, <3>2, <4>2 DEF GoesOn
        <5>2. Len(page) \in Nat
          <6>1. page \in Seq(1 .. csv.asOf)
            BY <1>1, <2>2, <3>2, <4>1, PageFollows
          <6>2. QED
            BY <6>1
        <5>3. Len(all) # 0
          BY <5>1, <5>2
        <5>4. QED
          BY <5>3
      <4>4. QED
        BY <4>1, <4>2, <4>3 DEF GoesOn
    <3>3. QED
      BY <3>1, <3>2
  <2>4. CASE ShortPage(page) \/ Len(all) >= CsvMax
    <3>1. csv' = Nothing /\ file' = [filter |-> f, rows |-> Upto(all, CsvMax), asOf |-> asOf]
      BY <1>5, <2>4 DEF ExportPage
    <3>2. file'.filter = f /\ file'.asOf = asOf /\ file'.rows = Upto(all, CsvMax)
      BY <3>1
    <3>3. Upto(all, CsvMax) = Upto(L, CsvMax)
      <4> HIDE DEF page, asOf, f, all
      <4>1. CASE ShortPage(page)
        BY <2>3, <4>1 DEF ShortPage
      <4>2. CASE Len(all) >= CsvMax
        <5> HIDE DEF L
        <5>1. L \in Seq(Nat)
          BY <1>1, <2>3, ListedFacts DEF L
        <5>2. QED
          BY <1>1, <2>3, <4>2, <5>1, StartsIsUpto
      <4>3. QED
        BY <2>4, <4>1, <4>2
    <3> HIDE DEF all, asOf, f
    <3>4. QED
      BY <3>1, <3>2, <3>3 DEF CsvInv, FileIsExact
  <2>5. CASE ~(ShortPage(page) \/ Len(all) >= CsvMax)
    <3>1. csv' = [csv EXCEPT !.all = all, !.asOf = asOf] /\ UNCHANGED file
      BY <1>5, <2>5 DEF ExportPage
    <3>2. ~(Len(page) < PageLimit)
      BY <2>5 DEF ShortPage
    <3>3. csv'.filter = f /\ csv'.all = all /\ csv'.asOf = asOf
      BY <2>2, <3>1
    <3> HIDE DEF page, asOf, f, all
    <3>4. asOf # Nothing /\ asOf \in Nat
      BY <1>1, <2>3
    <3>5. csv' \in [filter : EntryFilters, all : Seq(Nat), asOf : Nat \cup {Nothing}]
      BY <2>2, <2>3, <3>1, <3>4
    <3>6. QED
      BY <2>1, <2>3, <3>1, <3>2, <3>3, <3>4, <3>5 DEF CsvInv, FileIsExact
  <2>6. QED
    BY <2>4, <2>5
<1>6. CASE ExportFails
  BY <1>3, <1>6 DEF ExportFails
<1>7. CASE EntryRecorded
  BY <1>2, <1>7 DEF EntryRecorded
<1>8. ASSUME NEW f, SetAuthFilter(f) PROVE CsvInv' /\ FileIsExact'
  BY <1>2, <1>8 DEF SetAuthFilter
<1>9. CASE AuthRowsLoaded \/ AskMore \/ MoreAnswered
  BY <1>2, <1>9 DEF AuthRowsLoaded, AskMore, MoreAnswered
<1>10. CASE MoreTaken \/ RecordTaken
  BY <1>2, <1>10 DEF MoreTaken, RecordTaken
<1>11. ASSUME NEW id, OpenRecord(id) PROVE CsvInv' /\ FileIsExact'
  BY <1>2, <1>11 DEF OpenRecord
<1>12. ASSUME NEW c, ChangesReplied(c) \/ ChangesTaken(c) PROVE CsvInv' /\ FileIsExact'
  BY <1>2, <1>12 DEF ChangesReplied, ChangesTaken
<1>13. CASE RetryChanges \/ UNCHANGED recordsVars
  BY <1>2, <1>13 DEF RetryChanges, recordsVars
<1>14. QED
  BY <1>4, <1>5, <1>6, <1>7, <1>8, <1>9, <1>10, <1>11, <1>12, <1>13 DEF RecordsNext

\* So all of it always holds.
LEMMA RecordsInvariant == RecordsSpec => []RecordsInv
<1>1. RecordsInit => RecordsInv
  <2> SUFFICES ASSUME RecordsInit PROVE RecordsInv
    OBVIOUS
  <2>1. RecordTypes
    <3>1. NoRows \in [data : Seq(Nat) \cup {Nothing}, extra : Seq(Nat), end : BOOLEAN, failed : BOOLEAN,
                      asOf : Nat]
      BY DEF NoRows
    <3>2. NewLoad \in Loads({<<>>, <<1>>})
      BY DEF NewLoad, Loads, OneCall, Requests
    <3>3. Idle \in Requests(Seq(1 .. MaxEntries))
      BY DEF Requests
    <3>4. QED
      BY <3>1, <3>2, <3>3, RecordsAssumption DEF RecordsInit, RecordTypes
  <2>2. RowsInv
    BY DEF RecordsInit, RowsInv, NoRows
  <2>3. CsvInv /\ FileIsExact
    BY DEF RecordsInit, CsvInv, FileIsExact
  <2>4. QED
    BY <2>1, <2>2, <2>3 DEF RecordsInv
<1>2. RecordsInv /\ [RecordsNext]_recordsVars => RecordsInv'
  BY RecordTypesStep, RowsStep, CsvStep DEF RecordsInv
<1>3. QED
  BY <1>1, <1>2, PTL DEF RecordsSpec

\* The types of the records read page by page; a first page is never longer
\* than it was asked for.
THEOREM RecordsTypes == RecordsSpec => []RecordsTypeOK
<1>1. RecordsInv => RecordsTypeOK
  BY DEF RecordsInv, RecordTypes, RowsInv, RecordsTypeOK
<1>2. QED
  BY <1>1, RecordsInvariant, PTL

\* The rows of the sign-in log have no hole and no double, and "more" is gone
\* only at the end (AuthAuditRows), however long the pages and the log are.
THEOREM NoHole == RecordsSpec => []ListLeavesNoHole
<1>1. RecordsInv => ListLeavesNoHole
  <2> SUFFICES ASSUME RecordsInv, authRows.data # Nothing
               PROVE  LET all == Listed(EntryMatching[authFilter], authRows.asOf)
                      IN allRows = Upto(all, Len(allRows)) /\ (~hasMore => allRows = all)
    BY DEF ListLeavesNoHole
  <2> DEFINE all == Listed(EntryMatching[authFilter], authRows.asOf)
  <2>1. /\ authRows.data \in Seq(Nat) /\ authRows.extra \in Seq(Nat) /\ authRows.asOf \in Nat
        /\ Starts(allRows, all) /\ (Len(authRows.data) < PageLimit => allRows = all)
        /\ (authRows.end => allRows = all) /\ PageLimit \in Nat
    BY RecordsAssumption DEF RecordsInv, RecordTypes, RowsInv
  <2>2. allRows \in Seq(Nat) /\ all \in Seq(Nat)
    BY <2>1, ConcatProperties, ListedFacts DEF allRows
  <2> HIDE DEF all
  <2>3. allRows = Upto(all, Len(allRows))
    BY <2>1, <2>2, StartsIsUpto
  <2>4. ~hasMore => allRows = all
    <3>1. Len(authRows.data) \in Nat
      BY <2>1
    <3>2. QED
      BY <2>1, <3>1 DEF hasMore
  <2>5. QED
    BY <2>3, <2>4 DEF all
<1>2. QED
  BY <1>1, RecordsInvariant, PTL

\* The downloaded file holds the newest entries of its filter as of its first
\* page (ExportCsv), for every page size and maximum.
THEOREM ExactFile == RecordsSpec => []FileIsExact
<1>1. RecordsInv => FileIsExact
  BY DEF RecordsInv
<1>2. QED
  BY <1>1, RecordsInvariant, PTL

-----------------------------------------------------------------------------
(***************************************************************************)
(* Toast: a message and its timer. The age of a message and what its timer *)
(* has left make up the whole time: a step either moves one unit from one  *)
(* to the other or starts both anew.                                       *)
(***************************************************************************)

ToastInv == ToastTypeOK /\ ToastsStayTheirTime

\* No message, no timer.
LEMMA ToastStart == ToastInit => ToastInv
<1> SUFFICES ASSUME ToastInit PROVE ToastInv
  OBVIOUS
<1>1. toasts = <<>> /\ timers = <<>> /\ lastToast = 0
  BY DEF ToastInit
<1>2. toasts \in Seq(ToastItem) /\ Len(toasts) = 0 /\ DOMAIN toasts = {} /\ DOMAIN timers = {}
  BY <1>1
<1>3. ToastTypeOK
  BY <1>1, <1>2, ToastAssumption DEF ToastTypeOK
<1>4. ToastsStayTheirTime
  BY <1>2 DEF ToastsStayTheirTime, Ids
<1>5. QED
  BY <1>3, <1>4 DEF ToastInv

\* What the invariant says of the messages, one by one.
LEMMA ToastFacts ==
  ASSUME ToastInv
  PROVE  /\ toasts \in Seq(ToastItem) /\ DOMAIN toasts = 1 .. Len(toasts) /\ Len(toasts) \in Nat
         /\ Len(toasts) <= MaxShown
         /\ \A i \in DOMAIN toasts :
              /\ toasts[i] \in ToastItem /\ toasts[i].id \in ToastIds /\ toasts[i].age \in 0 .. ToastTime
              /\ toasts[i].id \in DOMAIN timers /\ toasts[i].age + timers[toasts[i].id] >= ToastTime
         /\ DOMAIN timers = Ids(toasts) /\ DOMAIN timers \subseteq ToastIds
         /\ \A id \in DOMAIN timers : timers[id] \in 0 .. ToastTime
         /\ lastToast \in Nat /\ lastToast <= MaxToasts
<1>1. toasts \in Seq(ToastItem)
  BY DEF ToastInv, ToastTypeOK
<1>2. /\ DOMAIN toasts = 1 .. Len(toasts) /\ Len(toasts) \in Nat
      /\ \A i \in DOMAIN toasts : toasts[i] \in ToastItem
  BY <1>1
<1>3. \A i \in DOMAIN toasts : toasts[i].id \in ToastIds /\ toasts[i].age \in 0 .. ToastTime
  BY <1>2 DEF ToastItem
<1>4. /\ DOMAIN timers = Ids(toasts)
      /\ \A i \in DOMAIN toasts : toasts[i].age + timers[toasts[i].id] >= ToastTime
  BY DEF ToastInv, ToastsStayTheirTime
<1>5. \A i \in DOMAIN toasts : toasts[i].id \in DOMAIN timers
  BY <1>4 DEF Ids
<1>6. QED
  BY <1>1, <1>2, <1>3, <1>4, <1>5, ToastAssumption DEF ToastInv, ToastTypeOK

\* A message of a key that is shown starts its time anew.
LEMMA ToastAgainKeeps ==
  ASSUME ToastInv, NEW i \in DOMAIN toasts, ToastAgain(i)
  PROVE  ToastInv'
<1> DEFINE new == [toasts[i] EXCEPT !.n = @ + 1, !.age = 0]
<1>1. /\ toasts[i].n < MaxToasts /\ timers' = Armed(timers, toasts[i].id) /\ lastToast' = lastToast
      /\ toasts' = [toasts EXCEPT ![i].n = @ + 1, ![i].age = 0]
  BY DEF ToastAgain
<1>2. /\ toasts[i] \in ToastItem /\ toasts[i].n \in Nat /\ toasts[i].n >= 1 /\ ToastTime \in Nat /\ MaxToasts \in Nat
  BY ToastFacts, ToastAssumption DEF ToastItem, ToastIds
<1>3. new \in ToastItem /\ new.id = toasts[i].id /\ new.age = 0
  BY <1>1, <1>2 DEF ToastItem, ToastIds
<1>4. toasts' = [toasts EXCEPT ![i] = new]
  BY <1>1, ToastFacts
<1> HIDE DEF new
<1>5. /\ toasts' \in Seq(ToastItem) /\ Len(toasts') = Len(toasts) /\ DOMAIN toasts' = DOMAIN toasts
      /\ \A j \in DOMAIN toasts : toasts'[j] = IF j = i THEN new ELSE toasts[j]
  BY <1>3, <1>4, ToastFacts, ExceptSeq
<1>6. Ids(toasts') = Ids(toasts) /\ \A j \in DOMAIN toasts : toasts'[j].id = toasts[j].id
  BY <1>3, <1>5 DEF Ids
<1>7. DOMAIN timers' = DOMAIN timers /\ \A id \in DOMAIN timers :
         timers'[id] = IF id = toasts[i].id THEN ToastTime ELSE timers[id]
  BY <1>1, ToastFacts DEF Armed
<1>8. ToastTypeOK'
  BY <1>1, <1>2, <1>5, <1>7, ToastFacts DEF ToastTypeOK
<1>9. ToastsStayTheirTime'
  <2>1. DOMAIN timers' = Ids(toasts')
    BY <1>6, <1>7, ToastFacts
  <2>2. ASSUME NEW j \in DOMAIN toasts' PROVE toasts'[j].age + timers'[toasts'[j].id] >= ToastTime
    <3>1. /\ toasts[j].id \in DOMAIN timers /\ toasts[j].age \in Nat /\ timers[toasts[j].id] \in Nat
          /\ toasts[j].age + timers[toasts[j].id] >= ToastTime
      BY <1>2, <1>5, ToastFacts
    <3>2. CASE j = i
      BY <1>2, <1>3, <1>5, <1>6, <1>7, <3>1, <3>2
    <3>3. CASE j # i
      BY <1>2, <1>5, <1>7, <3>1, <3>3
    <3>4. QED
      BY <3>2, <3>3
  <2>3. QED
    BY <2>1, <2>2 DEF ToastsStayTheirTime
<1>10. QED
  BY <1>8, <1>9 DEF ToastInv

\* A new message comes last; the oldest ones go with their timers.
LEMMA ToastNewKeeps ==
  ASSUME ToastInv, NEW k \in ToastKeys \cup {NoKey}, ToastNew(k)
  PROVE  ToastInv'
<1> DEFINE item == [id |-> lastToast + 1, key |-> k, n |-> 1, age |-> 0]
           new == Append(toasts, item)
           kept == IF Len(new) > MaxShown THEN SubSeq(new, Len(new) - MaxShown + 1, Len(new)) ELSE new
<1>1. /\ lastToast < MaxToasts /\ lastToast' = lastToast + 1 /\ toasts' = kept
      /\ timers' = Armed(Restrict(timers, Ids(kept) \cap DOMAIN timers), lastToast + 1)
  BY DEF ToastNew
<1>2. MaxToasts \in Nat /\ lastToast \in Nat /\ ToastTime \in Nat /\ MaxShown \in Nat /\ MaxShown >= 1
  BY ToastFacts, ToastAssumption
<1>3. item \in ToastItem /\ item.id = lastToast + 1 /\ item.age = 0
  BY <1>1, <1>2 DEF ToastItem, ToastIds
<1> HIDE DEF item
<1>4. /\ new \in Seq(ToastItem) /\ Len(new) = Len(toasts) + 1 /\ Len(toasts) \in Nat
      /\ new[Len(toasts) + 1] = item
      /\ \A i \in 1 .. Len(toasts) : new[i] = toasts[i]
  BY <1>3, ToastFacts
<1> HIDE DEF new
\* Every message kept is the new one or was there.
<1>5. /\ kept \in Seq(ToastItem) /\ Len(kept) <= MaxShown
      /\ Len(kept) \in DOMAIN kept /\ kept[Len(kept)] = item
      /\ \A i \in DOMAIN kept : kept[i] = item \/ \E j \in DOMAIN toasts : kept[i] = toasts[j]
  <2>1. CASE Len(new) > MaxShown
    <3> DEFINE from == Len(new) - MaxShown + 1
    <3>1. from \in 1 .. Len(new) + 1 /\ Len(new) \in Nat /\ from <= Len(new) /\ Len(new) - from + 1 = MaxShown
      BY <1>2, <1>4, <2>1
    <3>2. /\ kept \in Seq(ToastItem) /\ Len(kept) = MaxShown
          /\ \A i \in 1 .. MaxShown : kept[i] = new[from + i - 1]
      BY <1>4, <2>1, <3>1, SubSeqProperties, SMTT(20)
    <3>3. \A i \in 1 .. MaxShown : from + i - 1 \in 1 .. Len(toasts) + 1
      BY <1>2, <1>4, <2>1
    <3>4. from + MaxShown - 1 = Len(toasts) + 1 /\ MaxShown \in 1 .. MaxShown
      BY <1>2, <1>4
    <3> HIDE DEF kept, from
    <3>5. \A i \in 1 .. Len(toasts) + 1 : new[i] = item \/ (i \in DOMAIN toasts /\ new[i] = toasts[i])
      BY <1>4, ToastFacts
    <3>6. DOMAIN kept = 1 .. MaxShown
      BY <3>2
    <3>7. kept[MaxShown] = item
      BY <1>4, <3>2, <3>4
    <3>8. QED
      BY <1>2, <3>2, <3>3, <3>4, <3>5, <3>6, <3>7
  <2>2. CASE ~(Len(new) > MaxShown)
    <3>1. kept = new
      BY <2>2
    <3> HIDE DEF kept
    <3>2. DOMAIN kept = 1 .. Len(toasts) + 1 /\ Len(kept) = Len(toasts) + 1
      BY <1>4, <3>1
    <3>3. \A i \in 1 .. Len(toasts) + 1 : i = Len(toasts) + 1 \/ i \in 1 .. Len(toasts)
      BY <1>4
    <3>4. QED
      BY <1>2, <1>4, <2>2, <3>1, <3>2, <3>3, ToastFacts
  <2>3. QED
    BY <2>1, <2>2
<1> HIDE DEF kept
<1>6. lastToast + 1 \in Ids(kept)
  BY <1>3, <1>5 DEF Ids
<1>7. Ids(kept) \subseteq DOMAIN timers \cup {lastToast + 1}
  <2> SUFFICES ASSUME NEW i \in DOMAIN kept PROVE kept[i].id \in DOMAIN timers \cup {lastToast + 1}
    BY DEF Ids
  <2>1. QED
    BY <1>3, <1>5, ToastFacts
<1>8. /\ DOMAIN timers' = Ids(kept)
      /\ \A id \in DOMAIN timers' :
           timers'[id] = IF id = lastToast + 1 THEN ToastTime ELSE timers[id]
  <2> DEFINE r == Restrict(timers, Ids(kept) \cap DOMAIN timers)
  <2>1. DOMAIN r = Ids(kept) \cap DOMAIN timers /\ \A id \in DOMAIN r : r[id] = timers[id]
    BY DEF Restrict
  <2> HIDE DEF r
  <2>2. /\ timers' = Armed(r, lastToast + 1)
    BY <1>1 DEF r
  <2>3. DOMAIN timers' = DOMAIN r \cup {lastToast + 1}
        /\ \A id \in DOMAIN timers' : timers'[id] = IF id = lastToast + 1 THEN ToastTime ELSE r[id]
    BY <2>2 DEF Armed
  <2>4. QED
    BY <1>6, <1>7, <2>1, <2>3
<1>9. ToastTypeOK'
  <2>1. DOMAIN timers' \subseteq ToastIds
    BY <1>1, <1>2, <1>7, <1>8, ToastFacts DEF ToastIds
  <2>2. \A id \in DOMAIN timers' : timers'[id] \in 0 .. ToastTime
    BY <1>2, <1>7, <1>8, ToastFacts
  <2>3. lastToast' \in 0 .. MaxToasts
    BY <1>1, <1>2
  <2>4. QED
    BY <1>1, <1>5, <2>1, <2>2, <2>3 DEF ToastTypeOK
<1>10. ToastsStayTheirTime'
  <2>1. ASSUME NEW i \in DOMAIN kept PROVE kept[i].age + timers'[kept[i].id] >= ToastTime
    <3>1. kept[i].id \in DOMAIN timers'
      BY <1>8 DEF Ids
    <3>2. CASE kept[i] = item
      BY <1>2, <1>3, <1>8, <3>1, <3>2
    <3>3. CASE \E j \in DOMAIN toasts : kept[i] = toasts[j]
      <4>1. PICK j \in DOMAIN toasts : kept[i] = toasts[j]
        BY <3>3
      <4>2. /\ toasts[j].id \in DOMAIN timers /\ toasts[j].age \in Nat /\ timers[toasts[j].id] \in Nat
            /\ toasts[j].age + timers[toasts[j].id] >= ToastTime
        BY <1>2, ToastFacts
      <4>3. QED
        BY <1>2, <1>8, <3>1, <4>1, <4>2
    <3>4. QED
      BY <1>5, <3>2, <3>3
  <2>2. QED
    BY <1>1, <1>8, <2>1 DEF ToastsStayTheirTime
<1>11. QED
  BY <1>9, <1>10 DEF ToastInv

\* A message goes with its timer.
LEMMA ToastClosesKeeps ==
  ASSUME ToastInv, NEW id, Closes(id)
  PROVE  ToastInv'
<1> DEFINE others == {x \in Range(toasts) : x.id # id}
<1>1. /\ timers' = Restrict(timers, DOMAIN timers \ {id}) /\ lastToast' = lastToast
      /\ toasts' = Filtered(toasts, others)
  BY DEF Closes, Without
<1>2. /\ toasts' \in Seq(ToastItem) /\ Range(toasts') = Range(toasts) \cap others
      /\ Len(toasts') <= Len(toasts)
  BY <1>1, ToastFacts, FilteredRange, FilteredLen
<1>3. Range(toasts') = others
  BY <1>2
<1>4. DOMAIN timers' = DOMAIN timers \ {id} /\ \A x \in DOMAIN timers' : timers'[x] = timers[x]
  BY <1>1 DEF Restrict
<1>5. ASSUME NEW i \in DOMAIN toasts'
      PROVE  /\ toasts'[i].id # id
             /\ \E j \in DOMAIN toasts : toasts'[i] = toasts[j]
  BY <1>3 DEF Range
<1>6. ASSUME NEW j \in DOMAIN toasts, toasts[j].id # id
      PROVE  \E i \in DOMAIN toasts' : toasts'[i] = toasts[j]
  BY <1>3, <1>6 DEF Range
<1>7. Ids(toasts') = Ids(toasts) \ {id}
  <2>1. \A x \in Ids(toasts') : x \in Ids(toasts) \ {id}
    BY <1>5 DEF Ids
  <2>2. \A x \in Ids(toasts) \ {id} : x \in Ids(toasts')
    BY <1>6 DEF Ids
  <2>3. QED
    BY <2>1, <2>2
<1>8. ToastTypeOK'
  <2>1. Len(toasts') \in Nat /\ MaxShown \in Nat
    BY <1>2, ToastAssumption
  <2>2. Len(toasts') <= MaxShown
    BY <1>2, <2>1, ToastFacts
  <2>3. DOMAIN timers' \subseteq ToastIds /\ \A x \in DOMAIN timers' : timers'[x] \in 0 .. ToastTime
    BY <1>4, ToastFacts
  <2>4. lastToast' \in 0 .. MaxToasts
    BY <1>1 DEF ToastInv, ToastTypeOK
  <2>5. QED
    BY <1>2, <2>2, <2>3, <2>4 DEF ToastTypeOK
<1>9. ToastsStayTheirTime'
  <2>1. ASSUME NEW i \in DOMAIN toasts' PROVE toasts'[i].age + timers'[toasts'[i].id] >= ToastTime
    <3>1. PICK j \in DOMAIN toasts : toasts'[i] = toasts[j]
      BY <1>5
    <3>2. toasts[j].id \in DOMAIN timers' 
      BY <1>4, <1>5, <3>1, ToastFacts
    <3>3. QED
      BY <1>4, <3>1, <3>2, ToastFacts
  <2>2. QED
    BY <1>4, <1>7, <2>1, ToastFacts DEF ToastsStayTheirTime
<1>10. QED
  BY <1>8, <1>9 DEF ToastInv

\* As time passes a message loses from its timer what it gains in age.
LEMMA ToastTickKeeps ==
  ASSUME ToastInv, ToastTick
  PROVE  ToastInv'
<1> DEFINE older(x) == [x EXCEPT !.age = IF @ = ToastTime THEN @ ELSE @ + 1]
<1>1. /\ timers' = [id \in DOMAIN timers |-> IF timers[id] = 0 THEN 0 ELSE timers[id] - 1]
      /\ toasts' = [i \in DOMAIN toasts |-> older(toasts[i])] /\ lastToast' = lastToast
  BY DEF ToastTick
<1>2. ToastTime \in Nat
  BY ToastAssumption
<1>3. ASSUME NEW i \in DOMAIN toasts
      PROVE  /\ older(toasts[i]) \in ToastItem /\ older(toasts[i]).id = toasts[i].id
             /\ older(toasts[i]).age = IF toasts[i].age = ToastTime THEN ToastTime ELSE toasts[i].age + 1
  <2>1. toasts[i] \in ToastItem
    BY ToastFacts
  <2>2. QED
    BY <1>2, <2>1 DEF ToastItem
<1> HIDE DEF older
<1>4. /\ toasts' \in Seq(ToastItem) /\ Len(toasts') = Len(toasts) /\ DOMAIN toasts' = DOMAIN toasts
      /\ \A i \in DOMAIN toasts : toasts'[i] = older(toasts[i])
  BY <1>1, <1>3, ToastFacts
<1>5. Ids(toasts') = Ids(toasts)
  BY <1>3, <1>4 DEF Ids
<1>6. ToastTypeOK'
  BY <1>1, <1>2, <1>4, ToastFacts DEF ToastTypeOK
<1>7. ToastsStayTheirTime'
  <2>1. ASSUME NEW i \in DOMAIN toasts PROVE toasts'[i].age + timers'[toasts'[i].id] >= ToastTime
    <3> DEFINE id == toasts[i].id
               age == toasts[i].age
    <3>1. /\ id \in DOMAIN timers /\ age \in 0 .. ToastTime /\ timers[id] \in 0 .. ToastTime
          /\ age + timers[id] >= ToastTime
      BY ToastFacts
    <3>2. /\ toasts'[i].id = id
          /\ toasts'[i].age = IF age = ToastTime THEN ToastTime ELSE age + 1
      BY <1>3, <1>4
    <3>3. timers'[id] = IF timers[id] = 0 THEN 0 ELSE timers[id] - 1
      BY <1>1, <3>1
    <3> HIDE DEF id, age
    <3>4. QED
      BY <1>2, <3>1, <3>2, <3>3
  <2>2. QED
    BY <1>1, <1>4, <1>5, <2>1, ToastFacts DEF ToastsStayTheirTime
<1>8. QED
  BY <1>6, <1>7 DEF ToastInv

\* Every action keeps the messages and their timers.
LEMMA ToastStep == ToastInv /\ [ToastNext]_toastVars => ToastInv'
<1> SUFFICES ASSUME ToastInv, [ToastNext]_toastVars PROVE ToastInv'
  OBVIOUS
<1>1. CASE ToastTick
  BY <1>1, ToastTickKeeps
<1>2. ASSUME NEW k \in ToastKeys \cup {NoKey}, ToastNew(k) PROVE ToastInv'
  BY <1>2, ToastNewKeeps
<1>3. ASSUME NEW i \in DOMAIN toasts, ToastAgain(i) PROVE ToastInv'
  BY <1>3, ToastAgainKeeps
<1>4. ASSUME NEW id \in ToastIds, ToastClosed(id) \/ ToastTimer(id) PROVE ToastInv'
  <2>1. Closes(id)
    BY <1>4 DEF ToastClosed, ToastTimer
  <2>2. QED
    BY <2>1, ToastClosesKeeps
<1>5. CASE UNCHANGED toastVars
  BY <1>5 DEF toastVars, ToastInv, ToastTypeOK, ToastsStayTheirTime, Ids
<1>6. QED
  BY <1>1, <1>2, <1>3, <1>4, <1>5 DEF ToastNext

\* The messages and their timers keep their kinds, and no more than MAX
\* messages are ever on the screen (ToastProvider).
THEOREM ToastTypes == ToastSpec => []ToastTypeOK
<1>1. ToastInv => ToastTypeOK
  BY DEF ToastInv
<1>2. QED
  BY <1>1, ToastStart, ToastStep, PTL DEF ToastSpec

\* Exactly the messages on the screen have a timer, and none is taken down by
\* it before its time (arm and close of ToastProvider): the time a message was
\* there and what its timer has left make up its whole time, because a repeat
\* starts both anew and a message that makes room takes its timer with it.
THEOREM ToastTimes == ToastSpec => []ToastsStayTheirTime
<1>1. ToastInv => ToastsStayTheirTime
  BY DEF ToastInv
<1>2. QED
  BY <1>1, ToastStart, ToastStep, PTL DEF ToastSpec

-----------------------------------------------------------------------------
(***************************************************************************)
(* Sortable: one drag over all lists, and orders that have each item once. *)
(* The order a list draws is the one it drags or the one it stored, merged *)
(* with the default; both are kept to be orders of its items through every *)
(* step (EachOnce), which also makes the drag a value of its own kind and  *)
(* never Nothing.                                                          *)
(***************************************************************************)

\* A list has at least the items its ids are looked up in.
LEMMA HasWhatItHas ==
  ASSUME NEW X, NEW s \in Seq(X), NEW e
  PROVE  Contains(s, e) <=> e \in Range(s)
BY DEF Contains, Range

\* The nearest item before, if there is one, is in the order.
LEMMA PlaceOfType ==
  ASSUME NEW X, NEW d \in Seq(X), NEW out \in Seq(X), NEW id \in Range(d)
  PROVE  PlaceOf(id, out, d) \in 1 .. Len(out) + 1
<1> DEFINE i == CHOOSE k \in DOMAIN d : d[k] = id
           before == {k \in 1 .. i - 1 : Contains(out, d[k])}
           last == CHOOSE k \in before : \A n \in before : n <= k
           p == CHOOSE p \in DOMAIN out : out[p] = d[last]
<1>1. Len(d) \in Nat /\ DOMAIN d = 1 .. Len(d) /\ Len(out) \in Nat /\ DOMAIN out = 1 .. Len(out)
  OBVIOUS
<1>2. i \in DOMAIN d
  BY DEF Range
<1> HIDE DEF i
<1>3. CASE before = {}
  BY <1>1, <1>3 DEF PlaceOf, i
<1>4. CASE before # {}
  <2>1. i - 1 \in Nat /\ before \subseteq 1 .. i - 1
    BY <1>1, <1>2
  <2> HIDE DEF before
  <2>2. \E k \in before : \A n \in before : n <= k
    BY <1>4, <2>1, LargestOf
  <2>3. last \in before
    BY <2>2
  <2> HIDE DEF last
  <2>4. Contains(out, d[last])
    BY <2>3 DEF before
  <2>5. p \in DOMAIN out
    BY <1>1, <2>4 DEF Contains
  <2>6. PlaceOf(id, out, d) = 1 + p
    BY <1>4 DEF PlaceOf, i, before, last
  <2> HIDE DEF p
  <2>7. QED
    BY <1>1, <2>5, <2>6
<1>5. QED
  BY <1>3, <1>4

\* Insert adds an item that is missing, and nothing else.
LEMMA InsertAdds ==
  ASSUME NEW X, NEW d \in Seq(X), NEW out \in Seq(X), IsInjective(out), NEW id \in Range(d)
  PROVE  /\ Insert(out, id, d) \in Seq(X) /\ IsInjective(Insert(out, id, d))
         /\ Range(Insert(out, id, d)) = Range(out) \cup {id}
<1>1. CASE id \in Range(out)
  <2>1. Insert(out, id, d) = out
    BY <1>1, HasWhatItHas DEF Insert
  <2>2. QED
    BY <1>1, <2>1
<1>2. CASE id \notin Range(out)
  <2>1. id \in X \ Range(out)
    BY <1>2 DEF Range
  <2>2. Insert(out, id, d) = InsertAt(out, PlaceOf(id, out, d), id)
    BY <1>2, HasWhatItHas DEF Insert
  <2>3. PlaceOf(id, out, d) \in 1 .. Len(out) + 1
    BY PlaceOfType
  <2> DEFINE p == PlaceOf(id, out, d)
  <2> HIDE DEF p
  <2>4. p \in 1 .. Len(out) + 1 /\ Insert(out, id, d) = InsertAt(out, p, id)
    BY <2>2, <2>3 DEF p
  <2>5. /\ InsertAt(out, p, id) \in Seq(X)
        /\ Range(InsertAt(out, p, id)) = Range(out) \cup {id}
    BY <2>1, <2>4, InsertAtRange
  <2>6. IsInjective(InsertAt(out, p, id))
    BY <2>1, <2>4, InsertAtApart
  <2>7. QED
    BY <2>4, <2>5, <2>6
<1>3. QED
  BY <1>1, <1>2

\* The first places of the ids of s that are known hold different known ids.
LEMMA KnownIdsDiffer ==
  ASSUME NEW X, NEW d \in Seq(X), NEW Y, NEW s \in Seq(Y)
  PROVE  /\ KnownIds(s, d) \in Seq(X) /\ IsInjective(KnownIds(s, d))
         /\ Range(KnownIds(s, d)) \subseteq Range(d)
<1> DEFINE firsts == {i \in DOMAIN s : Contains(d, s[i]) /\ \A j \in 1 .. i - 1 : s[j] # s[i]}
           all == [i \in 1 .. Len(s) |-> i]
           places == Filtered(all, firsts)
           known == [k \in 1 .. Len(places) |-> s[places[k]]]
<1>1. Len(s) \in Nat /\ DOMAIN s = 1 .. Len(s)
  OBVIOUS
<1>2. all \in Seq(1 .. Len(s)) /\ IsInjective(all)
  BY <1>1 DEF IsInjective
<1>3. places \in Seq(1 .. Len(s)) /\ Range(places) = Range(all) \cap firsts /\ IsInjective(places)
  BY <1>2, FilteredRange, FilteredApart
<1>4. KnownIds(s, d) = known
  BY DEF KnownIds
<1> HIDE DEF all, places
<1>5. /\ Len(places) \in Nat /\ DOMAIN places = 1 .. Len(places)
      /\ \A k \in 1 .. Len(places) : places[k] \in firsts
  BY <1>3 DEF Range
<1>6. \A k \in 1 .. Len(places) : s[places[k]] \in Range(d)
  BY <1>5, HasWhatItHas
<1>7. Range(d) \subseteq X
  BY DEF Range
<1>8. known \in Seq(X) /\ Range(known) \subseteq Range(d)
  <2>1. known \in Seq(Range(d))
    BY <1>5, <1>6
  <2>2. QED
    BY <1>5, <1>6, <1>7 DEF Range
<1>9. IsInjective(known)
  <2> SUFFICES ASSUME NEW a \in 1 .. Len(places), NEW b \in 1 .. Len(places), s[places[a]] = s[places[b]]
               PROVE  a = b
    BY DEF IsInjective
  <2>1. /\ places[a] \in 1 .. Len(s) /\ places[b] \in 1 .. Len(s)
        /\ \A j \in 1 .. places[a] - 1 : s[j] # s[places[a]]
        /\ \A j \in 1 .. places[b] - 1 : s[j] # s[places[b]]
    BY <1>1, <1>5
  <2>2. ~(places[a] < places[b]) /\ ~(places[b] < places[a])
    BY <1>1, <2>1
  <2>3. places[a] = places[b]
    BY <1>1, <2>1, <2>2
  <2>4. QED
    BY <1>3, <1>5, <2>3 DEF IsInjective
<1>10. QED
  BY <1>4, <1>8, <1>9

\* What a stored order becomes: an order with each item of the list once.
LEMMA MergedOnce ==
  ASSUME NEW X, NEW d \in Seq(X), IsInjective(d), NEW Y, NEW s \in Seq(Y), s # Nothing
  PROVE  /\ mergeLayout(s, d) \in Seq(X) /\ IsInjective(mergeLayout(s, d))
         /\ Range(mergeLayout(s, d)) = Range(d)
<1> DEFINE T == {o \in Seq(X) : IsInjective(o)}
           base == KnownIds(s, d)
           F == [i \in 1 .. Len(d) |-> [t \in T |-> Insert(t, d[i], d)]]
           step(k) == [n \in 0 .. Len(d) |-> IF n = 0 THEN base ELSE Insert(k[n - 1], d[n], d)]
           merged == CHOOSE k : k = step(k)
<1>1. Len(d) \in Nat /\ DOMAIN d = 1 .. Len(d) /\ \A i \in 1 .. Len(d) : d[i] \in Range(d)
  BY DEF Range
<1>2. mergeLayout(s, d) = merged[Len(d)]
  BY DEF mergeLayout
<1>3. base \in T /\ Range(base) \subseteq Range(d)
  BY KnownIdsDiffer
<1> HIDE DEF base
<1>4. ASSUME NEW t \in T, NEW i \in 1 .. Len(d)
      PROVE  Insert(t, d[i], d) \in T /\ Range(Insert(t, d[i], d)) = Range(t) \cup {d[i]}
  BY <1>1, InsertAdds
<1>5. F \in [1 .. Len(d) -> [T -> T]]
  BY <1>4
<1> HIDE DEF F, T
<1>6. PICK k : Iterates(k, T, Len(d), base, F)
  BY <1>1, <1>3, <1>5, Recursion
<1>7. k \in [0 .. Len(d) -> T] /\ k[0] = base
  BY <1>6 DEF Iterates
<1>8. ASSUME NEW i \in 1 .. Len(d) PROVE k[i] = Insert(k[i - 1], d[i], d) /\ k[i - 1] \in T
  <2>1. k[i - 1] \in T
    BY <1>1, <1>7
  <2>2. k[i] = F[i][k[i - 1]]
    BY <1>6 DEF Iterates
  <2>3. QED
    BY <2>1, <2>2 DEF F
<1>9. k = step(k)
  <2>1. \A n \in 0 .. Len(d) : n = 0 \/ n \in 1 .. Len(d)
    BY <1>1
  <2>2. \A n \in 0 .. Len(d) : k[n] = step(k)[n]
    BY <1>7, <1>8, <2>1
  <2>3. QED
    BY <1>7, <2>2
<1>10. merged = step(merged)
  <2> HIDE DEF step
  <2>1. QED
    BY <1>9
<1> HIDE DEF merged
<1>11. merged[0] = base /\ \A i \in 1 .. Len(d) : merged[i] = Insert(merged[i - 1], d[i], d)
  <2>1. \A n \in 0 .. Len(d) : merged[n] = IF n = 0 THEN base ELSE Insert(merged[n - 1], d[n], d)
    BY <1>10
  <2>2. \A i \in 1 .. Len(d) : i \in 0 .. Len(d) /\ i # 0
    BY <1>1
  <2>3. QED
    BY <1>1, <2>1, <2>2
<1> DEFINE P == {n \in Nat : n <= Len(d) => /\ merged[n] \in T
                                            /\ Range(merged[n]) = Range(base) \cup {d[i] : i \in 1 .. n}}
<1>12. 0 \in P
  BY <1>3, <1>11
<1>13. ASSUME NEW n \in Nat, n \in P PROVE n + 1 \in P
  <2> SUFFICES ASSUME n + 1 <= Len(d)
               PROVE  /\ merged[n + 1] \in T
                      /\ Range(merged[n + 1]) = Range(base) \cup {d[i] : i \in 1 .. n + 1}
    OBVIOUS
  <2>1. n + 1 \in 1 .. Len(d) /\ (n + 1) - 1 = n
    BY <1>1
  <2>2. merged[n] \in T /\ Range(merged[n]) = Range(base) \cup {d[i] : i \in 1 .. n}
    BY <1>1, <1>13
  <2>3. merged[n + 1] = Insert(merged[n], d[n + 1], d)
    BY <1>11, <2>1
  <2>4. merged[n + 1] \in T /\ Range(merged[n + 1]) = Range(merged[n]) \cup {d[n + 1]}
    BY <1>4, <2>1, <2>2, <2>3
  <2>5. {d[i] : i \in 1 .. n + 1} = {d[i] : i \in 1 .. n} \cup {d[n + 1]}
    <3>1. 1 .. n + 1 = (1 .. n) \cup {n + 1}
      OBVIOUS
    <3>2. QED
      BY <3>1
  <2>6. QED
    BY <2>2, <2>4, <2>5
<1>14. Len(d) \in P
  <2> HIDE DEF P
  <2>1. QED
    BY <1>1, <1>12, <1>13, Induction
<1>15. {d[i] : i \in 1 .. Len(d)} = Range(d)
  BY <1>1 DEF Range
<1>16. merged[Len(d)] \in T /\ Range(merged[Len(d)]) = Range(base) \cup {d[i] : i \in 1 .. Len(d)}
  BY <1>1, <1>14
<1>17. merged[Len(d)] \in Seq(X) /\ IsInjective(merged[Len(d)])
  BY <1>16 DEF T
<1>18. QED
  BY <1>2, <1>3, <1>15, <1>16, <1>17

\* Taking an item out of an order and putting it back at a place of the order
\* leaves an order.
LEMMA MovedOnce ==
  ASSUME NEW l \in SortLists, NEW o, EachOnce(l, o), NEW id \in Range(Defaults[l]),
         NEW p \in Nat, p >= 1, p <= Len(o)
  PROVE  EachOnce(l, Moved(o, id, p))
<1> DEFINE X == Range(Defaults[l])
           rest == Range(o) \ {id}
           f == Filtered(o, rest)
           r == InsertAt(f, p, id)
<1>1. o \in Seq(X) /\ Range(o) = X /\ IsInjective(o)
  BY DEF EachOnce
<1> HIDE DEF X
<1>2. id \in X
  BY DEF X
<1>3. f \in Seq(X) /\ Range(f) = X \ {id} /\ IsInjective(f)
  BY <1>1, FilteredRange, FilteredApart
<1>4. Moved(o, id, p) = r
  BY DEF Moved
<1> HIDE DEF f
<1>5. Len(o) = Len(f) + 1
  <2>1. IsFiniteSet(X) /\ Cardinality(X) = Len(o) /\ Cardinality(X \ {id}) = Len(f)
    BY <1>1, <1>3, ApartLen
  <2>2. Cardinality(X \ {id}) = Cardinality(X) - 1
    BY <1>2, <2>1, FS_RemoveElement
  <2>3. Len(o) \in Nat /\ Len(f) \in Nat
    BY <1>1, <1>3
  <2>4. QED
    BY <2>1, <2>2, <2>3
<1>6. Len(f) \in Nat /\ p \in 1 .. Len(f) + 1 /\ id \in X \ Range(f)
  BY <1>2, <1>3, <1>5
<1>7. r \in Seq(X) /\ Range(r) = X /\ IsInjective(r)
  <2>1. r \in Seq(X) /\ Range(r) = Range(f) \cup {id}
    BY <1>2, <1>3, <1>6, InsertAtRange
  <2>2. IsInjective(r)
    BY <1>3, <1>6, InsertAtApart
  <2>3. QED
    BY <1>2, <1>3, <2>1, <2>2
<1>8. QED
  BY <1>4, <1>7 DEF EachOnce, X

\* What the browser holds of a list, and a list read or wrote.
IsStored(x) == x = Nothing \/ x \in Seq(Range(x))

SortInv ==
  /\ SortableTypeOK /\ OneDrag
  /\ DOMAIN layouts = SortLists /\ DOMAIN orders = SortLists /\ DOMAIN live = SortLists /\ DOMAIN drag = SortLists
  /\ \A l \in SortLists : IsStored(layouts[l]) /\ IsStored(orders[l])
  /\ \A l \in SortLists : drag[l] # Nothing /\ drag[l].cancelled => drag[l].picked

\* A list without a drag draws the order it has stored.
LEMMA OrderIsStored ==
  ASSUME NEW l \in SortLists, NEW o, EachOnce(l, o)
  PROVE  IsStored(o) /\ o # Nothing
<1>1. o \in Seq(Range(Defaults[l]))
  BY DEF EachOnce
<1>2. o \in Seq(Range(o))
  BY <1>1 DEF Range
<1>3. QED
  BY <1>1, <1>2, SortableAssumption DEF IsStored

\* What a list draws when nothing is dragged.
LEMMA StoredIsDrawn ==
  ASSUME NEW l \in SortLists, NEW s, IsStored(s)
  PROVE  EachOnce(l, mergeLayout(s, Defaults[l]))
<1> DEFINE X == Range(Defaults[l])
<1>1. Defaults[l] \in Seq(X) /\ IsInjective(Defaults[l])
  BY SortableAssumption
<1>2. CASE s = Nothing
  <2>1. mergeLayout(s, Defaults[l]) = Defaults[l]
    BY <1>2 DEF mergeLayout
  <2>2. QED
    BY <1>1, <2>1 DEF EachOnce
<1>3. CASE s # Nothing
  <2>1. s \in Seq(Range(s))
    BY <1>3 DEF IsStored
  <2> DEFINE m == mergeLayout(s, Defaults[l])
  <2> HIDE DEF X
  <2>2. m \in Seq(X) /\ IsInjective(m) /\ Range(m) = Range(Defaults[l])
    BY <1>1, <1>3, <2>1, MergedOnce
  <2>3. QED
    BY <2>2 DEF EachOnce, X
<1>4. QED
  BY <1>2, <1>3

\* All of it holds of the page as it is opened.
LEMMA SortStart == SortableInit => SortInv
<1> SUFFICES ASSUME SortableInit PROVE SortInv
  OBVIOUS
<1>1. /\ layouts \in [SortLists -> StoredLayouts] /\ orders = layouts
      /\ live = [l \in SortLists |-> Nothing] /\ drag = [l \in SortLists |-> Nothing]
      /\ active = Nothing /\ sorting = FALSE /\ swallow = FALSE /\ mounted = SortLists
  BY DEF SortableInit
<1>2. \A l \in SortLists : IsStored(layouts[l]) /\ IsStored(orders[l])
  BY <1>1, SortableAssumption DEF IsStored
<1>3. \A l \in SortLists : EachOnce(l, OrderOf(l))
  BY <1>1, <1>2, StoredIsDrawn DEF OrderOf
<1>4. OneDrag
  BY <1>1, SortableAssumption DEF OneDrag
<1>5. SortableTypeOK
  BY <1>1, <1>3 DEF SortableTypeOK
<1>6. \A l \in SortLists : drag[l] = Nothing /\ DOMAIN drag = SortLists
  BY <1>1
<1>7. /\ DOMAIN layouts = SortLists /\ DOMAIN orders = SortLists /\ DOMAIN live = SortLists
      /\ DOMAIN drag = SortLists
  BY <1>1
<1>8. QED
  BY <1>2, <1>4, <1>5, <1>6, <1>7 DEF SortInv

\* What a list draws depends on its own order only.
LEMMA SameDrawn ==
  ASSUME NEW l \in SortLists, SortInv, live'[l] = live[l], orders'[l] = orders[l]
  PROVE  EachOnce(l, OrderOf(l)')
BY DEF SortInv, SortableTypeOK, OrderOf

\* When the drag is over, what a list draws is what was stored last.
LEMMA StoredDrawn ==
  ASSUME NEW l \in SortLists, live'[l] = Nothing, IsStored(orders'[l])
  PROVE  EachOnce(l, OrderOf(l)')
BY StoredIsDrawn DEF OrderOf

\* A drag of a list is one of its items and no other value.
LEMMA DragFacts ==
  ASSUME SortInv, NEW l \in SortLists, drag[l] # Nothing
  PROVE  /\ drag[l] \in Drag(l) /\ active = l
         /\ drag[l].id \in Range(Defaults[l]) /\ drag[l].picked \in BOOLEAN /\ drag[l].cancelled \in BOOLEAN
         /\ (sorting <=> drag[l].picked /\ ~drag[l].cancelled)
         /\ \A m \in SortLists \ {l} : drag[m] = Nothing /\ live[m] = Nothing
         /\ ~sorting => live[l] = Nothing
<1>1. drag[l] \in Drag(l) /\ active = l
  BY DEF SortInv, SortableTypeOK, OneDrag
<1>2. active # Nothing
  BY <1>1, SortableAssumption
<1>3. /\ (sorting <=> drag[l].picked /\ ~drag[l].cancelled)
  BY <1>1, <1>2 DEF SortInv, OneDrag
<1>4. /\ \A m \in SortLists \ {l} : drag[m] = Nothing /\ live[m] = Nothing
      /\ ~sorting => live[l] = Nothing
  BY <1>1 DEF SortInv, OneDrag
<1>5. drag[l].id \in Range(Defaults[l]) /\ drag[l].picked \in BOOLEAN /\ drag[l].cancelled \in BOOLEAN
  BY <1>1 DEF Drag
<1>6. QED
  BY <1>1, <1>3, <1>4, <1>5

\* A drag that ends leaves no drag, and every list draws what it has stored.
LEMMA EndKeeps ==
  ASSUME SortInv, NEW l \in SortLists, drag[l] # Nothing, Ends(l),
         DOMAIN live' = SortLists, \A m \in SortLists : live'[m] = Nothing,
         DOMAIN layouts' = SortLists, DOMAIN orders' = SortLists,
         \A m \in SortLists : IsStored(layouts'[m]) /\ IsStored(orders'[m]),
         swallow' \in BOOLEAN, mounted' \subseteq SortLists
  PROVE  SortInv'
<1>1. /\ drag' = [drag EXCEPT ![l] = Nothing] /\ sorting' = FALSE /\ active' = Nothing
      /\ DOMAIN drag = SortLists
  BY DEF Ends, SortInv
<1>2. DOMAIN drag' = SortLists /\ \A m \in SortLists : drag'[m] = Nothing
  BY <1>1, DragFacts
<1>3. \A m \in SortLists : EachOnce(m, OrderOf(m)')
  BY StoredDrawn
<1>4. OneDrag'
  BY <1>1, <1>2, SortableAssumption DEF OneDrag
<1>5. SortableTypeOK'
  BY <1>1, <1>2, <1>3 DEF SortableTypeOK, EachOnce
<1>6. QED
  BY <1>2, <1>4, <1>5 DEF SortInv, IsStored

\* A press is a drag that is not picked yet.
LEMMA SortDownKeeps ==
  ASSUME SortInv, NEW l \in SortLists, NEW id \in Range(Defaults[l]), SortDown(l, id)
  PROVE  SortInv'
<1> DEFINE d == [id |-> id, picked |-> FALSE, cancelled |-> FALSE, from |-> <<>>]
<1>1. /\ active = Nothing /\ active' = l /\ swallow' = FALSE /\ drag' = [drag EXCEPT ![l] = d]
      /\ UNCHANGED <<layouts, orders, live, sorting, mounted>>
  BY DEF SortDown
<1>2. d \in Drag(l) /\ d # Nothing
  <2>1. <<>> \in Seq(Range(Defaults[l]))
    OBVIOUS
  <2>2. d \in Drag(l)
    BY <2>1 DEF Drag
  <2>3. QED
    BY <2>2, DragAssumption
<1>3. ~sorting /\ \A m \in SortLists : drag[m] = Nothing /\ live[m] = Nothing
  BY <1>1, SortableAssumption DEF SortInv, OneDrag
<1>4. /\ DOMAIN drag' = SortLists
      /\ \A m \in SortLists : drag'[m] = IF m = l THEN d ELSE Nothing
  BY <1>1, <1>3 DEF SortInv
<1>5. d.picked = FALSE /\ d.cancelled = FALSE
  OBVIOUS
<1> HIDE DEF d
<1>6. OneDrag'
  <2>1. \A m \in SortLists : drag'[m] # Nothing <=> active' = m
    BY <1>1, <1>2, <1>4
  <2>2. ~drag'[active'].picked
    BY <1>1, <1>4, <1>5
  <2>3. QED
    BY <1>1, <1>3, <2>1, <2>2 DEF OneDrag
<1>7. \A m \in SortLists : EachOnce(m, OrderOf(m)')
  BY <1>1, SameDrawn
<1>8. SortableTypeOK'
  BY <1>1, <1>2, <1>4, <1>7 DEF SortInv, SortableTypeOK, EachOnce, Drag
<1>9. QED
  BY <1>1, <1>4, <1>5, <1>6, <1>8 DEF SortInv, IsStored

\* The picked item's list starts from the order it draws.
LEMMA SortPickKeeps ==
  ASSUME SortInv, NEW l \in SortLists, SortPick(l)
  PROVE  SortInv'
<1>1. drag[l] # Nothing /\ ~drag[l].picked /\ UNCHANGED <<layouts, orders, swallow, mounted>>
  BY DEF SortPick
<1>2. /\ drag[l] \in Drag(l) /\ active = l /\ ~sorting
      /\ \A m \in SortLists : live[m] = Nothing
      /\ \A m \in SortLists \ {l} : drag[m] = Nothing
  BY <1>1, DragFacts
<1>3. CASE l \in mounted
  <2> DEFINE d == [drag[l] EXCEPT !.picked = TRUE, !.from = OrderOf(l)]
  <2>1. /\ drag' = [drag EXCEPT ![l].picked = TRUE, ![l].from = OrderOf(l)]
        /\ live' = [live EXCEPT ![l] = OrderOf(l)] /\ sorting' = TRUE /\ active' = active
    BY <1>3 DEF SortPick
  <2>2. EachOnce(l, OrderOf(l))
    BY DEF SortInv, SortableTypeOK
  <2>3. d \in Drag(l) /\ d.picked = TRUE /\ d.cancelled = drag[l].cancelled /\ d # Nothing
    <3>1. OrderOf(l) \in Seq(Range(Defaults[l]))
      BY <2>2 DEF EachOnce
    <3> DEFINE o == OrderOf(l)
    <3> HIDE DEF o
    <3>2. [drag[l] EXCEPT !.picked = TRUE, !.from = o] \in Drag(l)
      BY <1>2, <3>1 DEF Drag, o
    <3>3. QED
      BY <1>2, <3>2, DragAssumption DEF Drag, o
  <2>4. /\ DOMAIN drag' = SortLists
        /\ \A m \in SortLists : drag'[m] = IF m = l THEN d ELSE drag[m]
    BY <2>1 DEF SortInv
  <2>5. /\ DOMAIN live' = SortLists
        /\ \A m \in SortLists : live'[m] = IF m = l THEN OrderOf(l) ELSE Nothing
    BY <1>2, <2>1 DEF SortInv
  <2>6. \A m \in SortLists : EachOnce(m, OrderOf(m)')
    <3>1. ASSUME NEW m \in SortLists, m # l PROVE EachOnce(m, OrderOf(m)')
      BY <1>1, <1>2, <2>5, <3>1, SameDrawn
    <3>2. EachOnce(l, OrderOf(l)')
      <4>1. OrderOf(l) # Nothing
        BY <2>2, OrderIsStored
      <4>2. OrderOf(l)' = OrderOf(l)
        BY <2>5, <4>1 DEF OrderOf
      <4>3. QED
        BY <2>2, <4>2
    <3>3. QED
      BY <3>1, <3>2
  <2>7. ~drag[l].cancelled
    BY <1>1 DEF SortInv
  <2> HIDE DEF d
  <2>8. OneDrag'
    <3>1. \A m \in SortLists : drag'[m] # Nothing <=> active' = m
      BY <1>2, <2>1, <2>3, <2>4
    <3>2. active' # Nothing /\ drag'[active'].picked /\ ~drag'[active'].cancelled
      BY <1>2, <2>1, <2>3, <2>4, <2>7, SortableAssumption
    <3>3. \A m \in SortLists : live'[m] # Nothing => active' = m /\ sorting'
      BY <1>2, <2>1, <2>5
    <3>4. QED
      BY <2>1, <3>1, <3>2, <3>3 DEF OneDrag
  <2>9. \A m \in SortLists : drag'[m] \in Drag(m) \cup {Nothing}
    BY <1>2, <2>3, <2>4
  <2>10. SortableTypeOK'
    BY <1>1, <2>1, <2>6, <2>9 DEF SortInv, SortableTypeOK, EachOnce, Drag
  <2>11. QED
    BY <1>1, <1>2, <2>3, <2>4, <2>5, <2>8, <2>10 DEF SortInv, IsStored
<1>4. CASE l \notin mounted
  <2>1. Ends(l) /\ live' = live
    BY <1>4 DEF SortPick
  <2>2. QED
    BY <1>1, <1>2, <2>1, EndKeeps DEF SortInv, SortableTypeOK
<1>5. QED
  BY <1>3, <1>4

\* A press that slips is over; so is a drag the browser takes away.
LEMMA SortSlipsKeeps ==
  ASSUME SortInv, NEW l \in SortLists, SortSlips(l)
  PROVE  SortInv'
<1>1. /\ drag[l] # Nothing /\ ~drag[l].picked /\ Ends(l)
      /\ UNCHANGED <<layouts, orders, live, swallow, mounted>>
  BY DEF SortSlips
<1>2. \A m \in SortLists : live[m] = Nothing
  BY <1>1, DragFacts
<1>3. QED
  BY <1>1, <1>2, EndKeeps DEF SortInv, SortableTypeOK

\* A cancelled pointer.
LEMMA SortCancelKeeps ==
  ASSUME SortInv, NEW l \in SortLists, SortCancel(l)
  PROVE  SortInv'
<1>1. /\ drag[l] # Nothing /\ Ends(l) /\ live' = [live EXCEPT ![l] = Nothing]
      /\ UNCHANGED <<layouts, orders, swallow, mounted>>
  BY DEF SortCancel
<1>2. DOMAIN live' = SortLists /\ \A m \in SortLists : live'[m] = Nothing
  BY <1>1, DragFacts DEF SortInv
<1>3. QED
  BY <1>1, <1>2, EndKeeps DEF SortInv, SortableTypeOK

\* The item let go stays where it was dragged to.
LEMMA SortUpKeeps ==
  ASSUME SortInv, NEW l \in SortLists, SortUp(l)
  PROVE  SortInv'
<1>1. /\ drag[l] # Nothing /\ Ends(l) /\ mounted' = mounted
      /\ swallow' = (swallow \/ drag[l].picked \/ drag[l].cancelled)
  BY DEF SortUp
<1>2. swallow' \in BOOLEAN /\ mounted' \subseteq SortLists
  BY <1>1, DragFacts DEF SortInv, SortableTypeOK
<1>3. CASE drag[l].picked /\ ~drag[l].cancelled
  <2>1. /\ layouts' = IF OrderOf(l) = drag[l].from THEN layouts ELSE [layouts EXCEPT ![l] = OrderOf(l)]
        /\ orders' = [orders EXCEPT ![l] = OrderOf(l)]
        /\ live' = [live EXCEPT ![l] = Nothing]
    BY <1>3 DEF SortUp
  <2>2. IsStored(OrderOf(l))
    BY OrderIsStored DEF SortInv, SortableTypeOK
  <2> DEFINE o == OrderOf(l)
  <2> HIDE DEF o
  <2>3. /\ DOMAIN layouts' = SortLists /\ DOMAIN orders' = SortLists
        /\ \A m \in SortLists : /\ layouts'[m] = layouts[m] \/ layouts'[m] = o
                                /\ orders'[m] = orders[m] \/ orders'[m] = o
    BY <2>1 DEF SortInv, o
  <2>4. \A m \in SortLists : IsStored(layouts'[m]) /\ IsStored(orders'[m])
    BY <2>2, <2>3 DEF SortInv, o
  <2>5. DOMAIN live' = SortLists /\ \A m \in SortLists : live'[m] = Nothing
    BY <1>1, <2>1, DragFacts DEF SortInv
  <2>6. QED
    BY <1>1, <1>2, <2>3, <2>4, <2>5, EndKeeps
<1>4. CASE ~(drag[l].picked /\ ~drag[l].cancelled)
  <2>1. UNCHANGED <<layouts, orders, live>>
    BY <1>4 DEF SortUp
  <2>2. \A m \in SortLists : live'[m] = Nothing
    BY <1>1, <1>4, <2>1, DragFacts
  <2>3. QED
    BY <1>1, <1>2, <2>1, <2>2, EndKeeps DEF SortInv
<1>5. QED
  BY <1>3, <1>4

\* Only what a list draws while it is dragged changes.
LEMMA SortMoveKeeps ==
  ASSUME SortInv, NEW l \in SortLists, NEW p \in DOMAIN Defaults[l], SortMove(l, p)
  PROVE  SortInv'
<1> DEFINE o == Moved(OrderOf(l), drag[l].id, p)
<1>1. /\ drag[l] # Nothing /\ drag[l].picked /\ ~drag[l].cancelled
      /\ live' = [live EXCEPT ![l] = o]
      /\ UNCHANGED <<layouts, orders, drag, active, sorting, swallow, mounted>>
  BY DEF SortMove
<1>2. /\ active = l /\ sorting /\ drag[l].id \in Range(Defaults[l])
      /\ \A m \in SortLists \ {l} : live[m] = Nothing
  BY <1>1, DragFacts
<1>3. EachOnce(l, OrderOf(l))
  BY DEF SortInv, SortableTypeOK
<1>4. p \in Nat /\ p >= 1 /\ p <= Len(OrderOf(l))
  <2> DEFINE X == Range(Defaults[l])
  <2>1. Defaults[l] \in Seq(X) /\ IsInjective(Defaults[l]) /\ OrderOf(l) \in Seq(X)
        /\ IsInjective(OrderOf(l)) /\ Range(OrderOf(l)) = X
    BY <1>3, SortableAssumption DEF EachOnce
  <2>2. Len(Defaults[l]) = Len(OrderOf(l))
    BY <2>1, ApartLen
  <2>3. QED
    BY <2>1, <2>2
<1>5. EachOnce(l, o) /\ o # Nothing
  BY <1>2, <1>3, <1>4, MovedOnce, OrderIsStored
<1> HIDE DEF o
<1>6. /\ DOMAIN live' = SortLists
      /\ \A m \in SortLists : live'[m] = IF m = l THEN o ELSE live[m]
  BY <1>1 DEF SortInv
<1>7. \A m \in SortLists : EachOnce(m, OrderOf(m)')
  <2>1. ASSUME NEW m \in SortLists, m # l PROVE EachOnce(m, OrderOf(m)')
    BY <1>1, <1>6, <2>1, SameDrawn
  <2>2. OrderOf(l)' = o
    BY <1>5, <1>6 DEF OrderOf
  <2>3. QED
    BY <1>5, <2>1, <2>2
<1>8. OneDrag'
  BY <1>1, <1>2, <1>6 DEF SortInv, OneDrag
<1>9. SortableTypeOK'
  BY <1>1, <1>7 DEF SortInv, SortableTypeOK, EachOnce, Drag
<1>10. QED
  BY <1>1, <1>6, <1>8, <1>9 DEF SortInv, IsStored

\* Escape takes the order back, or ends a press.
LEMMA SortEscapeKeeps ==
  ASSUME SortInv, SortEscape
  PROVE  SortInv'
<1>1. active # Nothing /\ ~drag[active].cancelled /\ UNCHANGED <<layouts, orders, swallow, mounted>>
  BY DEF SortEscape
<1>2. PICK l \in SortLists : l = active
  BY <1>1 DEF SortInv, SortableTypeOK
<1>3. /\ drag[l] # Nothing
      /\ \A m \in SortLists \ {l} : drag[m] = Nothing /\ live[m] = Nothing
  <2>1. drag[l] # Nothing
    BY <1>2 DEF SortInv, OneDrag
  <2>2. QED
    BY <2>1, DragFacts
<1>4. CASE drag[l].picked
  <2> DEFINE d == [drag[l] EXCEPT !.cancelled = TRUE]
  <2>1. /\ drag' = [drag EXCEPT ![l].cancelled = TRUE]
        /\ live' = [live EXCEPT ![l] = Nothing] /\ sorting' = FALSE /\ active' = active
    BY <1>2, <1>4 DEF SortEscape
  <2>2. d \in Drag(l) /\ d.cancelled = TRUE /\ d.picked = drag[l].picked /\ d # Nothing
    BY <1>3, DragFacts, DragAssumption DEF Drag
  <2>3. /\ DOMAIN drag' = SortLists
        /\ \A m \in SortLists : drag'[m] = IF m = l THEN d ELSE drag[m]
    BY <2>1 DEF SortInv
  <2> HIDE DEF d
  <2>4. DOMAIN live' = SortLists /\ \A m \in SortLists : live'[m] = Nothing
    BY <1>3, <2>1 DEF SortInv
  <2>5. \A m \in SortLists : EachOnce(m, OrderOf(m)')
    BY <1>1, <2>4, StoredDrawn DEF SortInv
  <2>6. OneDrag'
    <3>1. \A m \in SortLists : drag'[m] # Nothing <=> active' = m
      BY <1>2, <1>3, <2>1, <2>2, <2>3
    <3>2. drag'[active'].cancelled
      BY <1>2, <2>1, <2>2, <2>3
    <3>3. QED
      BY <2>1, <2>4, <3>1, <3>2 DEF OneDrag
  <2>7. \A m \in SortLists : drag'[m] \in Drag(m) \cup {Nothing}
    BY <1>3, <2>2, <2>3
  <2>8. SortableTypeOK'
    BY <1>1, <2>1, <2>5, <2>7 DEF SortInv, SortableTypeOK, EachOnce, Drag
  <2>9. QED
    BY <1>1, <1>3, <1>4, <2>2, <2>3, <2>4, <2>6, <2>8 DEF SortInv, IsStored
<1>5. CASE ~drag[l].picked
  <2>1. Ends(l) /\ live' = live
    BY <1>2, <1>5 DEF SortEscape
  <2>2. \A m \in SortLists : live[m] = Nothing
    BY <1>3, <1>5, DragFacts
  <2>3. QED
    BY <1>1, <1>3, <2>1, <2>2, EndKeeps DEF SortInv, SortableTypeOK
<1>6. QED
  BY <1>4, <1>5

\* The rest keeps the drags as they are.
LEMMA QuietKeeps ==
  ASSUME SortInv, UNCHANGED <<live, drag, active, sorting>>,
         DOMAIN layouts' = SortLists, DOMAIN orders' = SortLists,
         \A m \in SortLists : IsStored(layouts'[m]) /\ IsStored(orders'[m]),
         swallow' \in BOOLEAN, mounted' \subseteq SortLists
  PROVE  SortInv'
<1>1. ASSUME NEW m \in SortLists PROVE EachOnce(m, OrderOf(m)')
  <2>1. CASE live[m] = Nothing
    BY <2>1, StoredDrawn
  <2>2. CASE live[m] # Nothing
    <3>1. OrderOf(m)' = OrderOf(m)
      BY <2>2 DEF OrderOf
    <3>2. QED
      BY <3>1 DEF SortInv, SortableTypeOK
  <2>3. QED
    BY <2>1, <2>2
<1>2. OneDrag'
  BY DEF SortInv, OneDrag
<1>3. SortableTypeOK'
  BY <1>1 DEF SortInv, SortableTypeOK, EachOnce, Drag
<1>4. QED
  BY <1>2, <1>3 DEF SortInv, IsStored

\* An item goes one place up or down.
LEMMA SortKeyKeeps ==
  ASSUME SortInv, NEW l \in SortLists, NEW id \in Range(Defaults[l]), NEW up \in BOOLEAN, SortKey(l, id, up)
  PROVE  SortInv'
<1> DEFINE o == OrderOf(l)
           i == CHOOSE k \in DOMAIN o : o[k] = id
           j == IF up THEN i - 1 ELSE i + 1
           n == Moved(o, id, j)
<1>1. /\ j \in DOMAIN o
      /\ layouts' = [layouts EXCEPT ![l] = n] /\ orders' = [orders EXCEPT ![l] = n]
      /\ UNCHANGED <<live, drag, active, sorting, swallow, mounted>>
  BY DEF SortKey
<1>2. EachOnce(l, o)
  BY DEF SortInv, SortableTypeOK
<1> HIDE DEF o, j
<1>3. j \in Nat /\ j >= 1 /\ j <= Len(o)
  <2>1. o \in Seq(Range(Defaults[l]))
    BY <1>2 DEF EachOnce
  <2>2. QED
    BY <1>1, <2>1
<1>4. IsStored(n)
  BY <1>2, <1>3, MovedOnce, OrderIsStored
<1> HIDE DEF n
<1>5. /\ DOMAIN layouts' = SortLists /\ DOMAIN orders' = SortLists
      /\ \A m \in SortLists : /\ layouts'[m] = layouts[m] \/ layouts'[m] = n
                              /\ orders'[m] = orders[m] \/ orders'[m] = n
  BY <1>1 DEF SortInv
<1>6. \A m \in SortLists : IsStored(layouts'[m]) /\ IsStored(orders'[m])
  BY <1>4, <1>5 DEF SortInv
<1>7. QED
  BY <1>1, <1>5, <1>6, QuietKeeps DEF SortInv, SortableTypeOK

\* The click behind a drag.
LEMMA SortClickKeeps ==
  ASSUME SortInv, SortClick
  PROVE  SortInv'
BY QuietKeeps DEF SortInv, SortableTypeOK, SortClick

\* The stored order thrown away.
LEMMA LayoutResetKeeps ==
  ASSUME SortInv, LayoutReset
  PROVE  SortInv'
<1>1. /\ DOMAIN layouts' = SortLists /\ DOMAIN orders' = SortLists
      /\ \A m \in SortLists : layouts'[m] = Nothing /\ (orders'[m] = Nothing \/ orders'[m] = orders[m])
      /\ UNCHANGED <<live, drag, active, sorting, swallow, mounted>>
  BY DEF LayoutReset
<1>2. \A m \in SortLists : IsStored(layouts'[m]) /\ IsStored(orders'[m])
  BY <1>1 DEF SortInv, IsStored
<1>3. QED
  BY <1>1, <1>2, QuietKeeps DEF SortInv, SortableTypeOK

\* A list taken off the page.
LEMMA SortLeaveKeeps ==
  ASSUME SortInv, NEW l \in SortLists, SortLeave(l)
  PROVE  SortInv'
<1>1. mounted' \subseteq SortLists /\ UNCHANGED <<layouts, orders, live, drag, active, sorting, swallow>>
  BY DEF SortLeave, SortInv, SortableTypeOK
<1>2. QED
  BY <1>1, QuietKeeps DEF SortInv, SortableTypeOK

\* A list that comes back.
LEMMA SortReturnKeeps ==
  ASSUME SortInv, NEW l \in SortLists, SortReturn(l)
  PROVE  SortInv'
<1>1. /\ mounted' = mounted \cup {l} /\ orders' = [orders EXCEPT ![l] = layouts[l]]
      /\ UNCHANGED <<layouts, live, drag, active, sorting, swallow>>
  BY DEF SortReturn
<1>2. /\ mounted' \subseteq SortLists /\ DOMAIN orders' = SortLists
      /\ \A m \in SortLists : IsStored(layouts'[m]) /\ IsStored(orders'[m])
  BY <1>1 DEF SortInv, SortableTypeOK, IsStored
<1>3. QED
  BY <1>1, <1>2, QuietKeeps DEF SortInv, SortableTypeOK

\* Every action keeps all of it.
LEMMA SortStep == SortInv /\ [SortableNext]_sortVars => SortInv'
<1> SUFFICES ASSUME SortInv, [SortableNext]_sortVars PROVE SortInv'
  OBVIOUS
<1>1. CASE SortEscape \/ SortClick \/ LayoutReset
  BY <1>1, SortEscapeKeeps, SortClickKeeps, LayoutResetKeeps
<1>2. ASSUME NEW l \in SortLists,
             SortPick(l) \/ SortSlips(l) \/ SortUp(l) \/ SortCancel(l) \/ SortLeave(l) \/ SortReturn(l)
      PROVE  SortInv'
  BY <1>2, SortPickKeeps, SortSlipsKeeps, SortUpKeeps, SortCancelKeeps, SortLeaveKeeps, SortReturnKeeps
<1>3. ASSUME NEW l \in SortLists, NEW p \in DOMAIN Defaults[l], SortMove(l, p) PROVE SortInv'
  BY <1>3, SortMoveKeeps
<1>4. ASSUME NEW l \in SortLists, NEW id \in Range(Defaults[l]), SortDown(l, id) PROVE SortInv'
  BY <1>4, SortDownKeeps
<1>5. ASSUME NEW l \in SortLists, NEW id \in Range(Defaults[l]), NEW up \in BOOLEAN, SortKey(l, id, up)
      PROVE  SortInv'
  BY <1>5, SortKeyKeeps
<1>6. CASE UNCHANGED sortVars
  <2>1. UNCHANGED <<layouts, orders, live, drag, active, sorting, swallow, mounted>>
    BY <1>6 DEF sortVars
  <2>2. QED
    BY <2>1, QuietKeeps DEF SortInv, SortableTypeOK
<1>7. QED
  BY <1>1, <1>2, <1>3, <1>4, <1>5, <1>6 DEF SortableNext

\* The state of the sortable lists keeps its kinds (useSortable, mergeLayout);
\* above all, whatever the browser held and however items were dragged, moved
\* by key, reset or left, each list draws every item of it exactly once.
THEOREM SortableTypes == SortableSpec => []SortableTypeOK
<1>1. SortInv => SortableTypeOK
  BY DEF SortInv
<1>2. QED
  BY <1>1, SortStart, SortStep, PTL DEF SortableSpec

\* The one drag of all lists (active) is the drag of the list that has one, for
\* any number of lists: a list that is left, a cancelled drag and an escape
\* never leave the page in the state of sorting or another list blocked.
THEOREM OneDragOnly == SortableSpec => []OneDrag
<1>1. SortInv => OneDrag
  BY DEF SortInv
<1>2. QED
  BY <1>1, SortStart, SortStep, PTL DEF SortableSpec

-----------------------------------------------------------------------------
(***************************************************************************)
(* Chat: questions and answers in turns. At most one request is answered   *)
(* at a time; it belongs to the last question of the conversation, or the  *)
(* conversation it belongs to was thrown away and the one on the screen is *)
(* empty until the request is over (ChatInv).                              *)
(***************************************************************************)

\* Behind an even number of messages comes a question.
LEMMA Parity ==
  ASSUME NEW a \in Nat, NEW b \in Nat, a % 2 = 0
  PROVE  /\ (a + b) % 2 = b % 2 /\ (a + 2) % 2 = 0 /\ (a + 1) % 2 = 1
         /\ (b <= a /\ b % 2 = 0 => (a - b) % 2 = 0)
OBVIOUS

\* Before an answer comes a question.
LEMMA ParityOdd ==
  ASSUME NEW a \in Nat
  PROVE  (a % 2 = 0 \/ a % 2 = 1) /\ (a % 2 = 1 => a >= 1 /\ (a - 1) % 2 = 0)
         /\ (a % 2 = 0 /\ a # 0 => a >= 2 /\ (a - 1) % 2 = 1)
OBVIOUS

\* Where the last n of s begin.
Skipped(s, n) == IF n < Len(s) THEN Len(s) - n ELSE 0

\* The last messages of a conversation are messages.
LEMMA LastOfType ==
  ASSUME NEW X, NEW s \in Seq(X), NEW n \in Nat
  PROVE  /\ LastOf(s, n) \in Seq(X) /\ Len(LastOf(s, n)) = Len(s) - Skipped(s, n)
         /\ Skipped(s, n) \in Nat /\ Skipped(s, n) <= Len(s)
         /\ \A i \in DOMAIN LastOf(s, n) :
              LastOf(s, n)[i] = s[Skipped(s, n) + i] /\ Skipped(s, n) + i \in DOMAIN s
<1> DEFINE from == Skipped(s, n) + 1
           t == SubSeq(s, from, Len(s))
<1>1. Len(s) \in Nat /\ DOMAIN s = 1 .. Len(s)
  OBVIOUS
<1>2. Skipped(s, n) \in Nat /\ Skipped(s, n) <= Len(s) /\ from \in 1 .. Len(s) + 1
  BY <1>1 DEF Skipped
<1>3. LastOf(s, n) = t
  BY <1>1 DEF LastOf, Skipped
<1> DEFINE k == Skipped(s, n)
<1> HIDE DEF k
<1>4. k \in Nat /\ k <= Len(s) /\ t = SubSeq(s, k + 1, Len(s)) /\ k + 1 \in 1 .. Len(s) + 1
  BY <1>1, <1>2 DEF k
<1> HIDE DEF t
<1>10. k + 1 \in Int /\ Len(s) \in Int /\ \A i \in k + 1 .. Len(s) : s[i] \in X
  BY <1>1, <1>4
<1>5. /\ t \in Seq(X) /\ Len(t) = IF k + 1 <= Len(s) THEN Len(s) - (k + 1) + 1 ELSE 0
      /\ \A i \in 1 .. Len(s) - (k + 1) + 1 : t[i] = s[(k + 1) + i - 1]
  BY <1>4, <1>10, SubSeqProperties
<1>11. Len(t) = Len(s) - k
  <2>1. \A a, b \in Nat : b <= a => (IF b + 1 <= a THEN a - (b + 1) + 1 ELSE 0) = a - b
    OBVIOUS
  <2>2. (IF k + 1 <= Len(s) THEN Len(s) - (k + 1) + 1 ELSE 0) = Len(s) - k
    BY <1>1, <1>4, <2>1
  <2>3. QED
    BY <1>5, <2>2
<1>6. DOMAIN t = 1 .. Len(s) - k
  BY <1>5, <1>11
<1>7. ASSUME NEW i \in 1 .. Len(s) - k PROVE t[i] = s[k + i] /\ k + i \in DOMAIN s
  <2>1. i \in 1 .. Len(s) - (k + 1) + 1 /\ (k + 1) + i - 1 = k + i
    BY <1>1, <1>4
  <2>2. QED
    BY <1>1, <1>4, <1>5, <2>1
<1>9. QED
  BY <1>2, <1>3, <1>5, <1>6, <1>7, <1>11 DEF k

\* The last messages of a conversation in turns are in turns.
LEMMA LastInTurns ==
  ASSUME NEW s \in Seq(Msg), InTurns(s)
  PROVE  InTurns(LastOf(s, ChatKeep))
<1> DEFINE t == LastOf(s, ChatKeep)
           k == Skipped(s, ChatKeep)
<1>1. ChatKeep \in Nat /\ ChatKeep % 2 = 0 /\ Len(s) \in Nat /\ Len(s) % 2 = 0
  BY ChatKeepAssumption DEF InTurns
<1>2. /\ t \in Seq(Msg) /\ Len(t) = Len(s) - k /\ k \in Nat /\ k <= Len(s)
      /\ \A i \in DOMAIN t : t[i] = s[k + i] /\ k + i \in DOMAIN s
  BY <1>1, LastOfType
<1>3. k % 2 = 0
  <2>1. CASE ChatKeep < Len(s)
    <3>1. (Len(s) - ChatKeep) % 2 = 0
      BY <1>1, <2>1, Parity
    <3>2. QED
      BY <2>1, <3>1 DEF Skipped
  <2>2. CASE ~(ChatKeep < Len(s))
    BY <2>2 DEF Skipped
  <2>3. QED
    BY <2>1, <2>2
<1> HIDE DEF t, k
<1>4. Len(t) % 2 = 0
  BY <1>1, <1>2, <1>3, Parity
<1>5. ASSUME NEW i \in DOMAIN t
      PROVE  IF i % 2 = 1 THEN t[i].role = "user"
             ELSE t[i].role = "assistant" /\ t[i].tokens \subseteq {t[i - 1].q}
  <2>1. i \in Nat /\ i >= 1 /\ i <= Len(t)
    BY <1>2
  <2>2. (k + i) % 2 = i % 2 /\ t[i] = s[k + i] /\ k + i \in DOMAIN s
    BY <1>2, <1>3, <2>1, Parity
  <2>3. CASE i % 2 = 1
    BY <2>2, <2>3 DEF InTurns
  <2>4. CASE i % 2 # 1
    <3>1. i >= 2
      BY <2>1, <2>4, ParityOdd
    <3>2. i - 1 >= 1 /\ i - 1 \in DOMAIN t /\ k + (i - 1) = (k + i) - 1
      BY <1>2, <2>1, <3>1
    <3>3. t[i - 1] = s[(k + i) - 1]
      BY <1>2, <3>2
    <3>4. QED
      BY <2>2, <2>4, <3>3 DEF InTurns
  <2>5. QED
    BY <2>3, <2>4
<1>6. QED
  BY <1>4, <1>5 DEF InTurns, t

\* s without its last element.
LEMMA FrontType ==
  ASSUME NEW X, NEW s \in Seq(X), s # <<>>
  PROVE  /\ Front(s) \in Seq(X) /\ Len(Front(s)) = Len(s) - 1
         /\ \A i \in 1 .. Len(s) - 1 : Front(s)[i] = s[i]
<1> DEFINE n == Len(s) - 1
           t == SubSeq(s, 1, n)
<1>1. Len(s) \in Nat /\ Len(s) >= 1 /\ n \in Nat
  OBVIOUS
<1>2. 1 \in Int /\ n \in Int /\ \A i \in 1 .. n : s[i] \in X
  BY <1>1
<1>3. Front(s) = t
  BY DEF Front
<1> HIDE DEF n
<1>4. /\ t \in Seq(X) /\ Len(t) = IF 1 <= n THEN n - 1 + 1 ELSE 0
      /\ \A i \in 1 .. n - 1 + 1 : t[i] = s[1 + i - 1]
  BY <1>2, SubSeqProperties
<1> HIDE DEF t
<1>5. n - 1 + 1 = n
  BY <1>1
<1>6. Len(t) = n /\ \A i \in 1 .. n : t[i] = s[i]
  BY <1>1, <1>4, <1>5
<1>7. QED
  BY <1>3, <1>4, <1>6 DEF n

\* s with another last element.
LEMMA OtherLast ==
  ASSUME NEW X, NEW s \in Seq(X), s # <<>>, NEW e \in X
  PROVE  /\ Append(Front(s), e) \in Seq(X) /\ Len(Append(Front(s), e)) = Len(s)
         /\ Append(Front(s), e)[Len(s)] = e
         /\ \A i \in 1 .. Len(s) - 1 : Append(Front(s), e)[i] = s[i]
<1>1. Len(s) \in Nat /\ Len(s) >= 1
  OBVIOUS
<1>2. /\ Front(s) \in Seq(X) /\ Len(Front(s)) = Len(s) - 1
      /\ \A i \in 1 .. Len(s) - 1 : Front(s)[i] = s[i]
  BY FrontType
<1> DEFINE f == Front(s)
<1> HIDE DEF f
<1>3. f \in Seq(X) /\ Len(f) = Len(s) - 1 /\ \A i \in 1 .. Len(s) - 1 : f[i] = s[i]
  BY <1>2 DEF f
<1>4. Append(f, e) \in Seq(X) /\ Len(Append(f, e)) = Len(s) /\ Append(f, e)[Len(s)] = e
      /\ \A i \in 1 .. Len(s) - 1 : Append(f, e)[i] = s[i]
  BY <1>1, <1>3
<1>5. QED
  BY <1>4 DEF f

ChatInv ==
  /\ ChatTypeOK /\ InTurns(chatLog) /\ InTurns(chatSaved)
  /\ \A i \in DOMAIN chatSaved : ~chatSaved[i].pending
  /\ \A i \in DOMAIN chatLog :
       chatLog[i].pending => i = Len(chatLog) /\ \E r \in chatAsks : r.gen = chatGen
  /\ ~chatBusy => chatAsks = {}
  /\ chatBusy => \E r \in chatAsks : chatAsks = {r}
  /\ \A r \in chatAsks :
       /\ r.gen <= chatGen
       /\ r.gen = chatGen => Len(chatLog) >= 2 /\ chatLog[Len(chatLog) - 1].q = r.q
       /\ r.gen # chatGen => chatLog = <<>>

\* It says what the property asks for.
LEMMA ChatInvEnough == ChatInv => AnswersFollowQuestions
<1> SUFFICES ASSUME ChatInv PROVE AnswersFollowQuestions
  OBVIOUS
<1>1. ASSUME NEW i \in DOMAIN chatLog, bubbleOf(chatLog[i]) = "thinking"
      PROVE  i = Len(chatLog) /\ \E r \in chatAsks : r.q = chatLog[i - 1].q
  <2>1. chatLog[i].pending
    BY <1>1 DEF bubbleOf
  <2>2. i = Len(chatLog) /\ \E r \in chatAsks : r.gen = chatGen
    BY <2>1 DEF ChatInv
  <2>3. QED
    BY <2>2 DEF ChatInv
<1>2. QED
  BY <1>1 DEF ChatInv, AnswersFollowQuestions

\* All of it holds of the page as it is opened.
LEMMA ChatStart == ChatInit => ChatInv
<1> SUFFICES ASSUME ChatInit PROVE ChatInv
  OBVIOUS
<1>1. /\ chatLog = <<>> /\ chatSaved = <<>> /\ chatAsks = {} /\ chatBusy = FALSE
      /\ chatGen = 0 /\ chatText = 0 /\ chatNotice = FALSE /\ madeUp = 0
  BY DEF ChatInit
<1>2. ChatTypeOK
  <2>1. <<>> \in Seq(Msg)
    OBVIOUS
  <2>2. 0 \in 0 .. MaxClears /\ 0 \in 0 .. MaxQuestions
    BY ChatKeepAssumption
  <2>3. QED
    BY <1>1, <2>1, <2>2 DEF ChatTypeOK
<1>3. <<>> \in Seq(Msg) /\ Len(<<>>) = 0 /\ DOMAIN <<>> = {} /\ 0 % 2 = 0
  OBVIOUS
<1>4. InTurns(<<>>)
  BY <1>3 DEF InTurns
<1>5. QED
  BY <1>1, <1>2, <1>3, <1>4 DEF ChatInv

\* The request that is answered, if there is one.
LEMMA ChatRequestFacts ==
  ASSUME ChatInv, NEW r \in chatAsks
  PROVE  /\ chatBusy /\ chatAsks = {r} /\ r \in ChatRequest /\ r.q \in Questions
         /\ r.gen \in Nat /\ chatGen \in Nat /\ r.gen <= chatGen
BY ChatKeepAssumption DEF ChatInv, ChatTypeOK, ChatRequest

\* A conversation in turns, as far as the last message.
LEMMA TurnFacts ==
  ASSUME NEW s \in Seq(Msg), InTurns(s), s # <<>>
  PROVE  /\ Len(s) \in Nat /\ Len(s) >= 2 /\ Len(s) % 2 = 0 /\ Len(s) \in DOMAIN s
         /\ Last(s) = s[Len(s)] /\ Last(s) \in Msg
         /\ Last(s).role = "assistant" /\ Last(s).tokens \subseteq {s[Len(s) - 1].q}
<1>1. Len(s) \in Nat /\ Len(s) # 0 /\ Len(s) % 2 = 0 /\ DOMAIN s = 1 .. Len(s)
  BY DEF InTurns
<1>2. Len(s) >= 2 /\ Len(s) \in DOMAIN s
  BY <1>1, ParityOdd
<1>3. s[Len(s)].role = "assistant" /\ s[Len(s)].tokens \subseteq {s[Len(s) - 1].q}
  BY <1>1, <1>2 DEF InTurns
<1>4. QED
  BY <1>1, <1>2, <1>3 DEF Last

\* Another answer to the same question leaves the conversation in turns.
LEMMA OtherAnswer ==
  ASSUME NEW s \in Seq(Msg), InTurns(s), s # <<>>,
         NEW m \in Msg, m.role = "assistant", m.tokens \subseteq {s[Len(s) - 1].q}
  PROVE  /\ InTurns(Append(Front(s), m)) /\ Append(Front(s), m) \in Seq(Msg)
         /\ Len(Append(Front(s), m)) = Len(s) /\ Append(Front(s), m)[Len(s)] = m
         /\ \A i \in 1 .. Len(s) - 1 : Append(Front(s), m)[i] = s[i]
<1> DEFINE t == Append(Front(s), m)
<1>1. /\ t \in Seq(Msg) /\ Len(t) = Len(s) /\ t[Len(s)] = m
      /\ \A i \in 1 .. Len(s) - 1 : t[i] = s[i]
  BY OtherLast
<1> HIDE DEF t
<1>2. Len(s) \in Nat /\ Len(s) >= 2 /\ Len(s) % 2 = 0 /\ DOMAIN s = 1 .. Len(s) /\ DOMAIN t = 1 .. Len(s)
  BY <1>1, TurnFacts
<1>3. ASSUME NEW i \in DOMAIN t
      PROVE  IF i % 2 = 1 THEN t[i].role = "user"
             ELSE t[i].role = "assistant" /\ t[i].tokens \subseteq {t[i - 1].q}
  <2>1. CASE i = Len(s)
    <3>1. i % 2 # 1 /\ t[i - 1] = s[Len(s) - 1]
      BY <1>1, <1>2, <2>1
    <3>2. QED
      BY <1>1, <2>1, <3>1
  <2>2. CASE i # Len(s)
    <3>1. i \in 1 .. Len(s) - 1 /\ t[i] = s[i] /\ i \in DOMAIN s
      BY <1>1, <1>2, <2>2
    <3>2. i % 2 # 1 => i - 1 \in 1 .. Len(s) - 1
      BY <1>2, <3>1, ParityOdd
    <3>3. i % 2 # 1 => t[i - 1] = s[i - 1]
      BY <1>1, <3>2
    <3>4. QED
      BY <3>1, <3>3 DEF InTurns
  <2>3. QED
    BY <2>1, <2>2
<1>4. InTurns(t)
  BY <1>1, <1>2, <1>3 DEF InTurns
<1>5. QED
  BY <1>1, <1>4 DEF t

\* What is kept is in turns and waits for nothing.
LEMMA KeptSaved ==
  ASSUME ChatInv, Keeps, chatBusy' \in BOOLEAN,
         chatLog' \in Seq(Msg), InTurns(chatLog'),
         chatBusy' \/ \A i \in DOMAIN chatLog' : ~chatLog'[i].pending
  PROVE  /\ chatSaved' \in Seq(Msg) /\ InTurns(chatSaved')
         /\ \A i \in DOMAIN chatSaved' : ~chatSaved'[i].pending
<1>1. CASE chatBusy'
  <2>1. chatSaved' = chatSaved
    BY <1>1 DEF Keeps
  <2>2. QED
    BY <2>1 DEF ChatInv, ChatTypeOK
<1>2. CASE ~chatBusy'
  <2>1. chatSaved' = LastOf(chatLog', ChatKeep)
    BY <1>2 DEF Keeps
  <2>2. ChatKeep \in Nat
    BY ChatKeepAssumption
  <2> DEFINE new == chatLog'
             kept == LastOf(new, ChatKeep)
  <2> HIDE DEF new
  <2>3. new \in Seq(Msg) /\ InTurns(new) /\ \A i \in DOMAIN new : ~new[i].pending
    BY <1>2 DEF new
  <2>4. /\ kept \in Seq(Msg)
        /\ \A i \in DOMAIN kept : kept[i] = new[Skipped(new, ChatKeep) + i] /\ Skipped(new, ChatKeep) + i \in DOMAIN new
    BY <2>2, <2>3, LastOfType
  <2>5. InTurns(kept)
    BY <2>3, LastInTurns
  <2>6. \A i \in DOMAIN kept : ~kept[i].pending
    BY <2>3, <2>4
  <2>7. chatSaved' = kept
    BY <2>1 DEF new
  <2>8. QED
    BY <2>4, <2>5, <2>6, <2>7
<1>3. QED
  BY <1>1, <1>2

\* What can be made of the answer of request r: an answer to its question.
AnswerOf(r, m) ==
  LET old == Last(chatLog)
  IN m \in Msg /\ m.role = old.role /\ m.tokens \subseteq old.tokens \cup {r.q} /\ ~m.pending

\* A patch changes the last answer only, and no answer is waited for after it.
LEMMA PatchKeeps ==
  ASSUME ChatInv, NEW r \in chatAsks, NEW m,
         r.gen = chatGen => AnswerOf(r, m)
  PROVE  LET new == PatchedLog(r, m) IN
         /\ new \in Seq(Msg) /\ InTurns(new) /\ \A i \in DOMAIN new : ~new[i].pending
         /\ r.gen = chatGen => Len(new) >= 2 /\ new[Len(new) - 1].q = r.q
         /\ r.gen # chatGen => new = <<>>
<1> DEFINE new == PatchedLog(r, m)
<1>1. chatLog \in Seq(Msg) /\ InTurns(chatLog)
  BY DEF ChatInv, ChatTypeOK
<1>2. CASE r.gen # chatGen
  <2>1. new = chatLog /\ chatLog = <<>>
    BY <1>2 DEF PatchedLog, ChatInv
  <2> HIDE DEF new
  <2>2. \A i \in DOMAIN new : ~new[i].pending
    BY <2>1
  <2>3. QED
    BY <1>1, <1>2, <2>1, <2>2 DEF new
<1>3. CASE r.gen = chatGen
  <2>1. Len(chatLog) >= 2 /\ chatLog[Len(chatLog) - 1].q = r.q
    BY <1>3 DEF ChatInv
  <2>2. chatLog # <<>>
    BY <2>1
  <2>3. /\ Len(chatLog) \in Nat /\ Last(chatLog).role = "assistant"
        /\ Last(chatLog).tokens \subseteq {r.q} /\ DOMAIN chatLog = 1 .. Len(chatLog)
    BY <1>1, <2>1, <2>2, TurnFacts
  <2>4. m \in Msg /\ m.role = "assistant" /\ m.tokens \subseteq {chatLog[Len(chatLog) - 1].q} /\ ~m.pending
    BY <1>3, <2>1, <2>3 DEF AnswerOf
  <2>5. new = Append(Front(chatLog), m)
    BY <1>3, <2>2, <2>3 DEF PatchedLog
  <2> HIDE DEF new
  <2>6. /\ new \in Seq(Msg) /\ InTurns(new) /\ Len(new) = Len(chatLog) /\ new[Len(chatLog)] = m
        /\ \A i \in 1 .. Len(chatLog) - 1 : new[i] = chatLog[i]
    BY <1>1, <2>2, <2>4, <2>5, OtherAnswer
  <2>7. ASSUME NEW i \in DOMAIN new PROVE ~new[i].pending
    <3>1. i \in 1 .. Len(chatLog)
      BY <2>3, <2>6
    <3>2. CASE i = Len(chatLog)
      BY <2>4, <2>6, <3>2
    <3>3. CASE i # Len(chatLog)
      <4>1. i \in 1 .. Len(chatLog) - 1 /\ i \in DOMAIN chatLog
        BY <2>3, <3>1, <3>3
      <4>2. QED
        BY <2>6, <3>3, <4>1 DEF ChatInv
    <3>4. QED
      BY <3>2, <3>3
  <2>8. new[Len(new) - 1].q = r.q /\ Len(new) >= 2
    BY <2>1, <2>3, <2>6
  <2>9. QED
    BY <1>3, <2>6, <2>7, <2>8 DEF new
<1>4. QED
  BY <1>2, <1>3

\* A question typed.
LEMMA ChatTypesKeeps ==
  ASSUME ChatInv, ChatTypes
  PROVE  ChatInv'
<1>1. /\ madeUp < MaxQuestions /\ madeUp' = madeUp + 1 /\ chatText' = madeUp + 1
      /\ UNCHANGED <<chatLog, chatSaved, chatAsks, chatBusy, chatGen, chatNotice>>
  BY DEF ChatTypes
<1>2. madeUp' \in 0 .. MaxQuestions /\ chatText' \in 0 .. MaxQuestions
  BY <1>1, ChatKeepAssumption DEF ChatInv, ChatTypeOK
<1>3. ChatTypeOK'
  BY <1>1, <1>2 DEF ChatInv, ChatTypeOK
<1>4. QED
  BY <1>1, <1>3 DEF ChatInv, InTurns

\* A question and the place of its answer come last.
LEMMA AsksKeeps ==
  ASSUME ChatInv, ~chatBusy, NEW q \in Questions, Asks(q), madeUp' \in 0 .. MaxQuestions
  PROVE  ChatInv'
<1> DEFINE r == [q |-> q, gen |-> chatGen, pieces |-> 0, aborted |-> FALSE, context |-> History(chatLog)]
           new == chatLog \o <<User(q), Waiting>>
           n == Len(chatLog)
<1>1. /\ chatAsks' = chatAsks \cup {r} /\ chatLog' = new /\ chatBusy' = TRUE /\ chatNotice' = FALSE
      /\ chatText' = 0 /\ Keeps /\ chatGen' = chatGen
  BY DEF Asks
<1>2. /\ chatLog \in Seq(Msg) /\ InTurns(chatLog) /\ chatAsks = {} /\ chatGen \in 0 .. MaxClears /\ chatGen \in Nat
      /\ \A i \in DOMAIN chatLog : ~chatLog[i].pending
  BY ChatKeepAssumption DEF ChatInv, ChatTypeOK
<1>3. History(chatLog) \in Seq(Msg)
  <2> DEFINE said == Filtered(chatLog, {m \in Range(chatLog) : m.role = "user" \/ m.tokens # {}})
  <2>1. said \in Seq(Msg)
    BY <1>2, FilteredRange
  <2> HIDE DEF said
  <2>2. ChatHistory \in Nat
    BY ChatKeepAssumption
  <2>3. LastOf(said, ChatHistory) \in Seq(Msg)
    BY <2>1, <2>2, LastOfType
  <2>4. QED
    BY <2>3 DEF History, said
<1>4. r \in ChatRequest /\ r.q = q /\ r.gen = chatGen
  BY <1>2, <1>3, ChatKeepAssumption DEF ChatRequest
<1>5. User(q) \in Msg /\ Waiting \in Msg
  BY DEF User, Waiting, Msg, MsgEnds
<1>6. /\ n \in Nat /\ n % 2 = 0 /\ DOMAIN chatLog = 1 .. n
      /\ new \in Seq(Msg) /\ Len(new) = n + 2
      /\ \A i \in 1 .. n : new[i] = chatLog[i]
      /\ new[n + 1] = User(q) /\ new[n + 2] = Waiting
  <2>1. n \in Nat /\ DOMAIN chatLog = 1 .. n /\ n % 2 = 0
    BY <1>2 DEF InTurns
  <2> DEFINE two == <<User(q), Waiting>>
  <2>2. two \in Seq(Msg) /\ Len(two) = 2 /\ two[1] = User(q) /\ two[2] = Waiting
    BY <1>5
  <2> HIDE DEF two
  <2>3. /\ chatLog \o two \in Seq(Msg) /\ Len(chatLog \o two) = n + 2
        /\ \A i \in 1 .. n + 2 : (chatLog \o two)[i] = IF i <= n THEN chatLog[i] ELSE two[i - n]
    <3>1. /\ chatLog \o two \in Seq(Msg) /\ Len(chatLog \o two) = Len(chatLog) + Len(two)
          /\ \A i \in 1 .. Len(chatLog) + Len(two) :
               (chatLog \o two)[i] = IF i <= Len(chatLog) THEN chatLog[i] ELSE two[i - Len(chatLog)]
      BY <1>2, <2>2, ConcatProperties
    <3>2. QED
      BY <2>2, <3>1
  <2>4. new = chatLog \o two
    BY DEF two
  <2> HIDE DEF new
  <2>5. n + 1 \in 1 .. n + 2 /\ n + 2 \in 1 .. n + 2 /\ ~(n + 1 <= n) /\ ~(n + 2 <= n)
        /\ (n + 1) - n = 1 /\ (n + 2) - n = 2
    BY <2>1
  <2>6. \A i \in 1 .. n : i \in 1 .. n + 2 /\ i <= n
    BY <2>1
  <2>7. QED
    BY <2>1, <2>2, <2>3, <2>4, <2>5, <2>6
<1>7. User(q).role = "user" /\ User(q).q = q /\ ~User(q).pending
      /\ Waiting.role = "assistant" /\ Waiting.tokens = {} /\ Waiting.pending
  BY DEF User, Waiting
<1> HIDE DEF r, new, n
<1>8. InTurns(new)
  <2>1. Len(new) % 2 = 0 /\ DOMAIN new = 1 .. n + 2 /\ (n + 1) % 2 = 1 /\ (n + 2) % 2 # 1
    BY <1>6, Parity
  <2>2. ASSUME NEW i \in DOMAIN new
        PROVE  IF i % 2 = 1 THEN new[i].role = "user"
               ELSE new[i].role = "assistant" /\ new[i].tokens \subseteq {new[i - 1].q}
    <3>1. CASE i = n + 1
      BY <1>6, <1>7, <2>1, <3>1
    <3>2. CASE i = n + 2
      BY <1>6, <1>7, <2>1, <3>2
    <3>3. CASE i \in 1 .. n
      <4>1. new[i] = chatLog[i]
        BY <1>6, <3>3
      <4>2. i % 2 # 1 => i - 1 \in 1 .. n
        BY <1>6, <3>3, ParityOdd
      <4>3. i % 2 # 1 => new[i - 1] = chatLog[i - 1]
        BY <1>6, <4>2
      <4>4. QED
        BY <1>2, <1>6, <3>3, <4>1, <4>3 DEF InTurns
    <3>4. QED
      BY <1>6, <2>1, <3>1, <3>2, <3>3
  <2>3. QED
    BY <2>1, <2>2 DEF InTurns
<1>9. ASSUME NEW i \in DOMAIN new, new[i].pending PROVE i = Len(new)
  <2>1. i \in 1 .. n \/ i = n + 1 \/ i = n + 2
    BY <1>6
  <2>2. QED
    BY <1>2, <1>6, <1>7, <1>9, <2>1
<1>10. new[Len(new) - 1].q = q /\ Len(new) >= 2
  BY <1>6, <1>7
<1>11. chatSaved' = chatSaved
  BY <1>1 DEF Keeps
<1>12. ChatTypeOK'
  <2>1. chatAsks' \subseteq ChatRequest /\ chatLog' \in Seq(Msg) /\ chatSaved' \in Seq(Msg)
    BY <1>1, <1>2, <1>4, <1>6, <1>11 DEF ChatInv, ChatTypeOK
  <2>2. chatText' \in 0 .. MaxQuestions /\ chatGen' \in 0 .. MaxClears
    BY <1>1, <1>2, ChatKeepAssumption
  <2>3. QED
    BY <1>1, <2>1, <2>2 DEF ChatTypeOK
<1>13. chatAsks' = {r}
  BY <1>1, <1>2
<1>14. QED
  BY <1>1, <1>2, <1>4, <1>8, <1>9, <1>10, <1>11, <1>12, <1>13 DEF ChatInv

\* A question asked.
LEMMA ChatAskKeeps ==
  ASSUME ChatInv, ChatAsk
  PROVE  ChatInv'
<1>1. chatText # 0 /\ ~chatBusy /\ Asks(chatText) /\ madeUp' = madeUp
  BY DEF ChatAsk
<1>2. chatText \in Questions /\ madeUp' \in 0 .. MaxQuestions
  BY <1>1, ChatKeepAssumption DEF ChatInv, ChatTypeOK, Questions
<1>3. QED
  BY <1>1, <1>2, AsksKeeps

\* A suggested question.
LEMMA ChatSuggestKeeps ==
  ASSUME ChatInv, ChatSuggest
  PROVE  ChatInv'
<1>1. ~chatBusy /\ madeUp < MaxQuestions /\ madeUp' = madeUp + 1 /\ Asks(madeUp + 1)
  BY DEF ChatSuggest
<1>2. madeUp + 1 \in Questions /\ madeUp' \in 0 .. MaxQuestions
  BY <1>1, ChatKeepAssumption DEF ChatInv, ChatTypeOK, Questions
<1>3. QED
  BY <1>1, <1>2, AsksKeeps

\* The request that is answered is given up.
GivenUp == {[r EXCEPT !.aborted = TRUE] : r \in chatAsks}

\* What stopping does to the conversation and its requests.
LEMMA GivenUpFacts ==
  ASSUME ChatInv
  PROVE  /\ GivenUp \subseteq ChatRequest
         /\ ~chatBusy => GivenUp = {}
         /\ chatBusy => \E r \in GivenUp : GivenUp = {r}
         /\ \A x \in GivenUp : \E r \in chatAsks : x.gen = r.gen /\ x.q = r.q
         /\ \A r \in chatAsks : \E x \in GivenUp : x.gen = r.gen /\ x.q = r.q
<1>1. ASSUME NEW r \in chatAsks
      PROVE  LET x == [r EXCEPT !.aborted = TRUE]
             IN x \in ChatRequest /\ x.gen = r.gen /\ x.q = r.q
  <2>1. r \in ChatRequest
    BY ChatRequestFacts
  <2>2. QED
    BY <2>1 DEF ChatRequest
<1>2. CASE chatBusy
  <2>1. PICK r \in chatAsks : chatAsks = {r}
    BY <1>2 DEF ChatInv
  <2>2. GivenUp = {[r EXCEPT !.aborted = TRUE]}
    BY <2>1 DEF GivenUp
  <2>3. QED
    BY <1>1, <1>2, <2>1, <2>2
<1>3. CASE ~chatBusy
  <2>1. chatAsks = {} /\ GivenUp = {}
    BY <1>3 DEF ChatInv, GivenUp
  <2>2. QED
    BY <1>3, <2>1
<1>4. QED
  BY <1>2, <1>3

\* An answer stopped.
LEMMA ChatStopKeeps ==
  ASSUME ChatInv, ChatStop
  PROVE  ChatInv'
<1>1. /\ chatAsks' = GivenUp
      /\ UNCHANGED <<chatLog, chatSaved, chatBusy, chatGen, chatText, chatNotice, madeUp>>
  BY DEF ChatStop, GivenUp
<1>2. ChatTypeOK'
  BY <1>1, GivenUpFacts DEF ChatInv, ChatTypeOK
<1>3. /\ ~chatBusy' => chatAsks' = {}
      /\ chatBusy' => \E r \in chatAsks' : chatAsks' = {r}
  BY <1>1, GivenUpFacts
<1>4. ASSUME NEW x \in chatAsks'
      PROVE  /\ x.gen <= chatGen
             /\ x.gen = chatGen => Len(chatLog) >= 2 /\ chatLog[Len(chatLog) - 1].q = x.q
             /\ x.gen # chatGen => chatLog = <<>>
  <2>1. PICK r \in chatAsks : x.gen = r.gen /\ x.q = r.q
    BY <1>1, GivenUpFacts
  <2>2. QED
    BY <2>1 DEF ChatInv
<1>5. ASSUME NEW i \in DOMAIN chatLog, chatLog[i].pending
      PROVE  i = Len(chatLog) /\ \E x \in chatAsks' : x.gen = chatGen
  <2>1. i = Len(chatLog) /\ \E r \in chatAsks : r.gen = chatGen
    BY <1>5 DEF ChatInv
  <2>2. PICK r \in chatAsks : r.gen = chatGen
    BY <2>1
  <2>3. \E x \in GivenUp : x.gen = r.gen
    BY GivenUpFacts
  <2>4. QED
    BY <1>1, <2>1, <2>2, <2>3
<1>6. QED
  BY <1>1, <1>2, <1>3, <1>4, <1>5 DEF ChatInv, InTurns

\* A conversation thrown away: what is still answered is for another one.
LEMMA ChatClearKeeps ==
  ASSUME ChatInv, ChatClear
  PROVE  ChatInv'
<1>1. /\ chatGen < MaxClears /\ chatGen' = chatGen + 1 /\ chatAsks' = GivenUp
      /\ chatLog' = <<>> /\ chatNotice' = FALSE /\ UNCHANGED <<chatBusy, chatText, madeUp>> /\ Keeps
  BY DEF ChatClear, GivenUp
<1>2. chatGen \in Nat /\ chatGen' \in 0 .. MaxClears /\ chatBusy' \in BOOLEAN
  BY <1>1, ChatKeepAssumption DEF ChatInv, ChatTypeOK
<1>3. chatLog' \in Seq(Msg) /\ InTurns(chatLog') /\ \A i \in DOMAIN chatLog' : ~chatLog'[i].pending
  <2>1. <<>> \in Seq(Msg) /\ Len(<<>>) = 0 /\ DOMAIN <<>> = {} /\ 0 % 2 = 0
    OBVIOUS
  <2>2. QED
    BY <1>1, <2>1 DEF InTurns
<1>4. /\ chatSaved' \in Seq(Msg) /\ InTurns(chatSaved')
      /\ \A i \in DOMAIN chatSaved' : ~chatSaved'[i].pending
  BY <1>1, <1>2, <1>3, KeptSaved
<1>5. ASSUME NEW x \in chatAsks' PROVE x.gen <= chatGen' /\ x.gen # chatGen'
  <2>1. PICK r \in chatAsks : x.gen = r.gen
    BY <1>1, GivenUpFacts
  <2>2. r.gen \in Nat /\ r.gen <= chatGen
    BY ChatRequestFacts
  <2>3. QED
    BY <1>1, <1>2, <2>1, <2>2
<1>6. ChatTypeOK'
  BY <1>1, <1>2, <1>3, <1>4, GivenUpFacts DEF ChatInv, ChatTypeOK
<1>7. /\ ~chatBusy' => chatAsks' = {}
      /\ chatBusy' => \E r \in chatAsks' : chatAsks' = {r}
  BY <1>1, GivenUpFacts
<1>8. InTurns(chatLog)' /\ InTurns(chatSaved)'
  BY <1>3, <1>4 DEF InTurns
<1>9. QED
  BY <1>1, <1>3, <1>4, <1>5, <1>6, <1>7, <1>8 DEF ChatInv

\* The conversation is the one the tab remembered, and nothing is answered.
LEMMA ChatReloadKeeps ==
  ASSUME ChatInv, ChatReload
  PROVE  ChatInv'
<1>1. /\ chatGen < MaxClears /\ chatGen' = chatGen + 1
      /\ chatLog' = chatSaved /\ chatAsks' = {} /\ chatBusy' = FALSE
      /\ chatText' = 0 /\ chatNotice' = FALSE /\ UNCHANGED <<chatSaved, madeUp>>
  BY DEF ChatReload
<1>2. chatGen' \in 0 .. MaxClears /\ chatText' \in 0 .. MaxQuestions
  BY <1>1, ChatKeepAssumption DEF ChatInv, ChatTypeOK
<1>3. ChatTypeOK'
  BY <1>1, <1>2 DEF ChatInv, ChatTypeOK
<1>4. InTurns(chatLog)' /\ InTurns(chatSaved)'
  BY <1>1 DEF ChatInv, InTurns
<1>5. QED
  BY <1>1, <1>3, <1>4 DEF ChatInv

\* A piece of the answer.
LEMMA ChatTokenKeeps ==
  ASSUME ChatInv, NEW r \in chatAsks, ChatToken(r)
  PROVE  ChatInv'
<1> DEFINE x == [r EXCEPT !.pieces = @ + 1]
           m == [Last(chatLog) EXCEPT !.tokens = @ \cup {r.q}, !.pending = FALSE]
           new == PatchedLog(r, m)
<1>1. /\ r.pieces < MaxTokens /\ chatAsks' = (chatAsks \ {r}) \cup {x} /\ chatLog' = new
      /\ UNCHANGED <<chatSaved, chatBusy, chatGen, chatText, chatNotice, madeUp>>
  BY DEF ChatToken
<1>2. /\ chatBusy /\ chatAsks = {r} /\ r \in ChatRequest /\ r.q \in Questions
  BY ChatRequestFacts
<1>3. x \in ChatRequest /\ x.gen = r.gen /\ x.q = r.q
  BY <1>1, <1>2, ChatKeepAssumption DEF ChatRequest
<1>4. r.gen = chatGen => AnswerOf(r, m)
  <2>1. SUFFICES ASSUME r.gen = chatGen PROVE AnswerOf(r, m)
    OBVIOUS
  <2>2. chatLog # <<>> /\ chatLog \in Seq(Msg) /\ InTurns(chatLog)
    BY <2>1 DEF ChatInv, ChatTypeOK
  <2>3. Last(chatLog) \in Msg
    BY <2>2, TurnFacts
  <2> DEFINE old == Last(chatLog)
  <2> HIDE DEF old
  <2>4. [old EXCEPT !.tokens = @ \cup {r.q}, !.pending = FALSE] \in Msg
    BY <1>2, <2>3 DEF Msg, old
  <2>5. QED
    BY <2>3, <2>4 DEF AnswerOf, Msg, old
<1> HIDE DEF x, m
<1>5. /\ new \in Seq(Msg) /\ InTurns(new) /\ \A i \in DOMAIN new : ~new[i].pending
      /\ r.gen = chatGen => Len(new) >= 2 /\ new[Len(new) - 1].q = r.q
      /\ r.gen # chatGen => new = <<>>
  BY <1>4, PatchKeeps
<1> HIDE DEF new
<1>6. chatAsks' = {x}
  BY <1>1, <1>2
<1>7. ChatTypeOK'
  BY <1>1, <1>3, <1>5, <1>6 DEF ChatInv, ChatTypeOK
<1>8. InTurns(chatLog)' /\ InTurns(chatSaved)'
  BY <1>1, <1>5 DEF ChatInv, InTurns
<1>9. x.gen <= chatGen
  BY <1>3, ChatRequestFacts
<1>10. QED
  BY <1>1, <1>2, <1>3, <1>5, <1>6, <1>7, <1>8, <1>9 DEF ChatInv

\* A request that is over leaves a conversation in which nothing is waited for.
LEMMA OverKeeps ==
  ASSUME ChatInv, NEW r \in chatAsks, Over(r),
         chatLog' \in Seq(Msg), InTurns(chatLog'), \A i \in DOMAIN chatLog' : ~chatLog'[i].pending,
         chatGen' = chatGen, madeUp' = madeUp,
         chatText' \in 0 .. MaxQuestions, chatNotice' \in BOOLEAN
  PROVE  ChatInv'
<1>1. chatAsks' = {} /\ chatBusy' = FALSE /\ Keeps
  BY ChatRequestFacts DEF Over
<1>2. /\ chatSaved' \in Seq(Msg) /\ InTurns(chatSaved')
      /\ \A i \in DOMAIN chatSaved' : ~chatSaved'[i].pending
  BY <1>1, KeptSaved
<1>3. ChatTypeOK'
  BY <1>1, <1>2 DEF ChatInv, ChatTypeOK
<1>4. InTurns(chatLog)' /\ InTurns(chatSaved)'
  BY <1>2 DEF InTurns
<1>5. QED
  BY <1>1, <1>2, <1>3, <1>4 DEF ChatInv

\* An answer ends, whole, broken or stopped.
LEMMA EndedAnswer ==
  ASSUME ChatInv, NEW r \in chatAsks, r.gen = chatGen, NEW end \in MsgEnds
  PROVE  AnswerOf(r, [Last(chatLog) EXCEPT !.pending = FALSE, !.end = end])
<1>1. chatLog # <<>> /\ chatLog \in Seq(Msg) /\ InTurns(chatLog)
  BY DEF ChatInv, ChatTypeOK
<1>2. Last(chatLog) \in Msg
  BY <1>1, TurnFacts
<1> DEFINE old == Last(chatLog)
           m == [old EXCEPT !.pending = FALSE, !.end = end]
<1> HIDE DEF old
<1>3. m \in Msg /\ m.role = old.role /\ m.tokens = old.tokens /\ ~m.pending
  BY <1>2 DEF Msg, old
<1>4. QED
  BY <1>3 DEF AnswerOf, old

\* An answer that is complete.
LEMMA ChatDoneKeeps ==
  ASSUME ChatInv, NEW r \in chatAsks, ChatDone(r)
  PROVE  ChatInv'
<1>1. PICK end \in {"", "error"} :
        chatLog' = PatchedLog(r, [Last(chatLog) EXCEPT !.pending = FALSE, !.end = end])
  BY DEF ChatDone
<1>2. Over(r) /\ chatGen' = chatGen /\ chatText' = chatText /\ chatNotice' = chatNotice /\ madeUp' = madeUp
  BY DEF ChatDone
<1> DEFINE m == [Last(chatLog) EXCEPT !.pending = FALSE, !.end = end]
<1>3. r.gen = chatGen => AnswerOf(r, m)
  BY EndedAnswer DEF MsgEnds
<1> HIDE DEF m
<1>4. LET new == PatchedLog(r, m) IN
        new \in Seq(Msg) /\ InTurns(new) /\ \A i \in DOMAIN new : ~new[i].pending
  BY <1>3, PatchKeeps
<1>5. chatLog' = PatchedLog(r, m)
  BY <1>1 DEF m
<1>6. QED
  BY <1>2, <1>4, <1>5, OverKeeps DEF ChatInv, ChatTypeOK

\* A request that was given up.
LEMMA ChatAbortedKeeps ==
  ASSUME ChatInv, NEW r \in chatAsks, ChatAborted(r)
  PROVE  ChatInv'
<1> DEFINE m == [Last(chatLog) EXCEPT !.pending = FALSE, !.end = "stopped"]
<1>1. /\ chatLog' = PatchedLog(r, m)
      /\ Over(r) /\ chatGen' = chatGen /\ chatText' = chatText /\ chatNotice' = chatNotice /\ madeUp' = madeUp
  BY DEF ChatAborted
<1>2. r.gen = chatGen => AnswerOf(r, m)
  BY EndedAnswer DEF MsgEnds
<1> HIDE DEF m
<1>3. LET new == PatchedLog(r, m) IN
        new \in Seq(Msg) /\ InTurns(new) /\ \A i \in DOMAIN new : ~new[i].pending
  BY <1>2, PatchKeeps
<1>4. QED
  BY <1>1, <1>3, OverKeeps DEF ChatInv, ChatTypeOK

\* A refused question leaves the conversation with the place of its answer.
LEMMA ChatRefusedKeeps ==
  ASSUME ChatInv, NEW r \in chatAsks, ChatRefused(r)
  PROVE  ChatInv'
<1> DEFINE new == IF r.gen = chatGen /\ Len(chatLog) >= 2 THEN Front(Front(chatLog)) ELSE chatLog
<1>1. /\ chatLog' = new /\ chatText' = r.q /\ chatNotice' = TRUE
      /\ Over(r) /\ chatGen' = chatGen /\ madeUp' = madeUp
  BY DEF ChatRefused
<1>2. chatLog \in Seq(Msg) /\ InTurns(chatLog) /\ Len(chatLog) \in Nat /\ Len(chatLog) % 2 = 0
  BY DEF ChatInv, ChatTypeOK, InTurns
<1>3. new \in Seq(Msg) /\ InTurns(new) /\ \A i \in DOMAIN new : ~new[i].pending
  <2>1. CASE r.gen = chatGen
    <3> DEFINE f == Front(chatLog)
               ff == Front(f)
    <3>1. Len(chatLog) >= 2 /\ chatLog # <<>>
      BY <2>1 DEF ChatInv
    <3>2. /\ f \in Seq(Msg) /\ Len(f) = Len(chatLog) - 1
          /\ \A i \in 1 .. Len(chatLog) - 1 : f[i] = chatLog[i]
      BY <1>2, <3>1, FrontType
    <3>3. new = ff
      BY <2>1, <3>1
    <3> HIDE DEF f
    <3>4. f # <<>>
      BY <1>2, <3>1, <3>2
    <3>5. /\ ff \in Seq(Msg) /\ Len(ff) = Len(f) - 1
          /\ \A i \in 1 .. Len(f) - 1 : ff[i] = f[i]
      BY <3>2, <3>4, FrontType
    <3> HIDE DEF ff, new
    <3>6. /\ Len(ff) = Len(chatLog) - 2 /\ DOMAIN ff = 1 .. Len(chatLog) - 2
          /\ DOMAIN chatLog = 1 .. Len(chatLog)
          /\ \A i \in 1 .. Len(chatLog) - 2 : ff[i] = chatLog[i] /\ i \in DOMAIN chatLog /\ i # Len(chatLog)
      BY <1>2, <3>1, <3>2, <3>5
    <3>7. Len(ff) % 2 = 0
      BY <1>2, <3>1, <3>6, Parity
    <3>8. \A i \in DOMAIN ff : ~ff[i].pending
      BY <3>6 DEF ChatInv
    <3>9. ASSUME NEW i \in DOMAIN ff
          PROVE  IF i % 2 = 1 THEN ff[i].role = "user"
                 ELSE ff[i].role = "assistant" /\ ff[i].tokens \subseteq {ff[i - 1].q}
      <4>1. ff[i] = chatLog[i] /\ i \in DOMAIN chatLog
        BY <3>6
      <4>5. i \in Nat /\ i >= 1 /\ i <= Len(chatLog) - 2
        BY <1>2, <3>6
      <4>6. i % 2 # 1 => i >= 2
        BY <4>5, ParityOdd
      <4>2. i % 2 # 1 => i - 1 \in 1 .. Len(chatLog) - 2
        BY <1>2, <4>5, <4>6
      <4>3. i % 2 # 1 => ff[i - 1] = chatLog[i - 1]
        BY <3>6, <4>2
      <4>4. QED
        BY <1>2, <4>1, <4>3 DEF InTurns
    <3>10. InTurns(ff)
      BY <3>7, <3>9 DEF InTurns
    <3>11. QED
      BY <3>3, <3>5, <3>8, <3>10
  <2>2. CASE r.gen # chatGen
    <3>1. new = chatLog /\ chatLog = <<>>
      BY <2>2 DEF ChatInv
    <3> HIDE DEF new
    <3>2. QED
      BY <1>2, <3>1
  <2>3. QED
    BY <2>1, <2>2
<1> HIDE DEF new
<1>4. chatText' \in 0 .. MaxQuestions
  BY <1>1, ChatRequestFacts, ChatKeepAssumption DEF Questions
<1>5. QED
  BY <1>1, <1>3, <1>4, OverKeeps

\* Every action keeps all of it.
LEMMA ChatStep == ChatInv /\ [ChatNext]_chatVars => ChatInv'
<1> SUFFICES ASSUME ChatInv, [ChatNext]_chatVars PROVE ChatInv'
  OBVIOUS
<1>1. CASE ChatTypes \/ ChatAsk \/ ChatSuggest \/ ChatStop \/ ChatClear \/ ChatReload
  BY <1>1, ChatTypesKeeps, ChatAskKeeps, ChatSuggestKeeps, ChatStopKeeps, ChatClearKeeps, ChatReloadKeeps
<1>2. ASSUME NEW r \in chatAsks, ChatToken(r) \/ ChatDone(r) \/ ChatAborted(r) \/ ChatRefused(r)
      PROVE  ChatInv'
  BY <1>2, ChatTokenKeeps, ChatDoneKeeps, ChatAbortedKeeps, ChatRefusedKeeps
<1>3. CASE UNCHANGED chatVars
  <2>1. UNCHANGED <<chatLog, chatSaved, chatAsks, chatBusy, chatGen, chatText, chatNotice, madeUp>>
    BY <1>3 DEF chatVars
  <2>2. ChatTypeOK' /\ InTurns(chatLog)' /\ InTurns(chatSaved)'
    BY <2>1 DEF ChatInv, ChatTypeOK, InTurns
  <2>3. QED
    BY <2>1, <2>2 DEF ChatInv
<1>4. QED
  BY <1>1, <1>2, <1>3 DEF ChatNext

\* The conversation, what the tab remembers of it and the request that is
\* answered keep their kinds (ChatPanel).
THEOREM ChatTypesOK == ChatSpec => []ChatTypeOK
<1>1. ChatInv => ChatTypeOK
  BY DEF ChatInv
<1>2. QED
  BY <1>1, ChatStart, ChatStep, PTL DEF ChatSpec

\* Questions and answers alternate on the screen and in what the tab remembers,
\* an answer holds only what was generated for its question, and one is waited
\* for only while its request runs (ask, patch, clear and save of ChatPanel): at
\* most one request is answered at a time, and one whose conversation was thrown
\* away finds the conversation empty until it is over.
THEOREM AnswersInTurn == ChatSpec => []AnswersFollowQuestions
<1>1. QED
  BY ChatInvEnough, ChatStart, ChatStep, PTL DEF ChatSpec

-----------------------------------------------------------------------------
(***************************************************************************)
(* EventText: chunks. What the loop of push and the reading letter by      *)
(* letter do is first stated as steps (LinesSteps, ByLetterSteps). Where a *)
(* line starts both have given the same (LineStarts); a letter that ends   *)
(* no line is put to it (LineGrows), one that does starts the next behind  *)
(* both halves of the end (LineEnds). So what waits between two chunks is  *)
(* exactly the text behind the last line (LineWaits), wherever the chunk   *)
(* was cut.                                                                *)
(***************************************************************************)

\* What the lines so far gave; the text read letter by letter; the loop of push.
Given == [fields : Fields, out : Seq(Fields)]
Nobody == [fields |-> NoFields, out |-> <<>>]
Reading == [line : Seq(Letters), at : Given]
Pass == [start : Nat \ {0}, at : Given]

LEMMA NobodyTyped == Nobody \in Given /\ NoFields \in Fields
BY DEF Nobody, Given, Fields, NoFields

\* A line keeps what was given.
LEMMA AfterLineFacts ==
  ASSUME NEW s \in Given, NEW l \in Seq(Letters)
  PROVE  AfterLine(s, l) \in Given /\ Starts(s.out, AfterLine(s, l).out)
<1>1. /\ s.fields \in Fields /\ s.out \in Seq(Fields)
      /\ s.fields.event \in Seq(Letters) /\ s.fields.data \in Seq(Seq(Letters))
  BY DEF Given, Fields
<1>2. CASE l = <<>>
  <2>1. Append(s.out, s.fields) \in Seq(Fields) /\ Starts(s.out, Append(s.out, s.fields))
    BY <1>1 DEF Starts
  <2>2. Starts(s.out, s.out)
    BY <1>1 DEF Starts
  <2>3. AfterLine(s, l) = [fields |-> NoFields,
                           out |-> IF s.fields.data = <<>> THEN s.out ELSE Append(s.out, s.fields)]
    BY <1>2 DEF AfterLine
  <2>4. QED
    BY <1>1, <2>1, <2>2, <2>3, NobodyTyped DEF Given
<1>3. CASE l # <<>> /\ Head(l) = "d"
  <2>1. Tail(l) \in Seq(Letters)
    BY <1>3
  <2>2. Append(s.fields.data, Tail(l)) \in Seq(Seq(Letters))
    BY <1>1, <2>1
  <2>3. AfterLine(s, l) = [s EXCEPT !.fields.data = Append(@, Tail(l))]
    BY <1>3 DEF AfterLine
  <2>4. AfterLine(s, l) = [fields |-> [event |-> s.fields.event, data |-> Append(s.fields.data, Tail(l))],
                           out |-> s.out]
    BY <2>3 DEF Given, Fields
  <2>5. AfterLine(s, l) \in Given /\ AfterLine(s, l).out = s.out
    BY <1>1, <2>2, <2>4 DEF Given, Fields
  <2>6. QED
    BY <1>1, <2>5 DEF Starts
<1>4. CASE l # <<>> /\ Head(l) = "e"
  <2>1. Tail(l) \in Seq(Letters)
    BY <1>4
  <2>3. AfterLine(s, l) = [s EXCEPT !.fields.event = Tail(l)]
    BY <1>4 DEF AfterLine
  <2>4. AfterLine(s, l) = [fields |-> [event |-> Tail(l), data |-> s.fields.data], out |-> s.out]
    BY <2>3 DEF Given, Fields
  <2>5. AfterLine(s, l) \in Given /\ AfterLine(s, l).out = s.out
    BY <1>1, <2>1, <2>4 DEF Given, Fields
  <2>6. QED
    BY <1>1, <2>5 DEF Starts
<1>5. CASE l # <<>> /\ Head(l) # "d" /\ Head(l) # "e"
  <2>1. AfterLine(s, l) = s
    BY <1>5 DEF AfterLine
  <2>2. QED
    BY <1>1, <2>1 DEF Starts
<1>6. QED
  BY <1>2, <1>3, <1>4, <1>5

\* An empty line behind an empty line gives nothing.
LEMMA TwoEmpty ==
  ASSUME NEW s \in Given
  PROVE  AfterLine(AfterLine(s, <<>>), <<>>) = AfterLine(s, <<>>)
<1> DEFINE a == AfterLine(s, <<>>)
<1>1. a = [fields |-> NoFields, out |-> IF s.fields.data = <<>> THEN s.out ELSE Append(s.out, s.fields)]
  BY DEF AfterLine
<1>2. a.fields = NoFields /\ NoFields.data = <<>>
  BY <1>1 DEF NoFields
<1>3. AfterLine(a, <<>>) = [fields |-> NoFields,
                            out |-> IF a.fields.data = <<>> THEN a.out ELSE Append(a.out, a.fields)]
  BY DEF AfterLine
<1>4. QED
  BY <1>1, <1>2, <1>3

\* Beginnings of beginnings.
LEMMA StartsTransitive ==
  ASSUME NEW X, NEW a \in Seq(X), NEW b \in Seq(X), NEW c \in Seq(X), Starts(a, b), Starts(b, c)
  PROVE  Starts(a, c)
BY DEF Starts

-----------------------------------------------------------------------------
\* The steps of the reading letter by letter.
LEMMA ByLetterSteps ==
  ASSUME NEW t \in Seq(Letters)
  PROVE  /\ ByLetter(t) \in [0 .. Len(t) -> Reading]
         /\ ByLetter(t)[0] = [line |-> <<>>, at |-> Nobody]
         /\ \A i \in 1 .. Len(t) :
              LET r == ByLetter(t)[i - 1]
              IN ByLetter(t)[i] = IF SecondHalf(t, i) THEN r
                                  ELSE IF t[i] \in {"n", "r"}
                                  THEN [line |-> <<>>, at |-> AfterLine(r.at, r.line)]
                                  ELSE [line |-> Append(r.line, t[i]), at |-> r.at]
<1> DEFINE D(i, r) == IF SecondHalf(t, i) THEN r
                      ELSE IF t[i] \in {"n", "r"}
                      THEN [line |-> <<>>, at |-> AfterLine(r.at, r.line)]
                      ELSE [line |-> Append(r.line, t[i]), at |-> r.at]
           base == [line |-> <<>>, at |-> Nobody]
           F == [i \in 1 .. Len(t) |-> [r \in Reading |-> D(i, r)]]
           step(k) == [i \in 0 .. Len(t) |-> IF i = 0 THEN base ELSE D(i, k[i - 1])]
           read == CHOOSE k : k = step(k)
<1>1. F \in [1 .. Len(t) -> [Reading -> Reading]] 
  <2>1. ASSUME NEW i \in 1 .. Len(t), NEW r \in Reading PROVE D(i, r) \in Reading
    <3>1. r.line \in Seq(Letters) /\ r.at \in Given /\ t[i] \in Letters
      BY <2>1 DEF Reading
    <3>2. AfterLine(r.at, r.line) \in Given
      BY <3>1, AfterLineFacts
    <3>3. Append(r.line, t[i]) \in Seq(Letters) /\ <<>> \in Seq(Letters)
      BY <3>1
    <3>4. QED
      BY <3>1, <3>2, <3>3 DEF Reading
  <2> HIDE DEF D
  <2>2. QED
    BY <2>1
<1>2. base \in Reading /\ Len(t) \in Nat
  BY NobodyTyped DEF Reading
<1> HIDE DEF F, D
<1>3. PICK k : Iterates(k, Reading, Len(t), base, F)
  <2> HIDE DEF base
  <2>1. QED
    BY <1>1, <1>2, Recursion
<1>4. k \in [0 .. Len(t) -> Reading] /\ k[0] = base
  BY <1>3 DEF Iterates
<1>5. ASSUME NEW i \in 1 .. Len(t) PROVE k[i] = D(i, k[i - 1])
  <2>1. k[i - 1] \in Reading
    BY <1>2, <1>4
  <2>2. k[i] = F[i][k[i - 1]]
    BY <1>3 DEF Iterates
  <2>3. QED
    BY <2>1, <2>2 DEF F
<1> HIDE DEF base
<1>6. k = step(k)
  <2>1. \A n \in 0 .. Len(t) : n = 0 \/ n \in 1 .. Len(t)
    BY <1>2
  <2>2. \A n \in 0 .. Len(t) : k[n] = step(k)[n]
    BY <1>4, <1>5, <2>1
  <2>3. QED
    BY <1>4, <2>2
<1>7. read = step(read)
  <2> HIDE DEF step
  <2>1. QED
    BY <1>6
<1>8. /\ read = [i \in 0 .. Len(t) |-> read[i]] /\ read[0] = base
      /\ \A i \in 1 .. Len(t) : read[i] = D(i, read[i - 1])
  <2> HIDE DEF read
  <2>1. \A n \in 0 .. Len(t) : read[n] = IF n = 0 THEN base ELSE D(n, read[n - 1])
    BY <1>7
  <2>2. \A i \in 1 .. Len(t) : i \in 0 .. Len(t) /\ i # 0
    BY <1>2
  <2>3. read[0] = base
    BY <1>2, <2>1
  <2>4. \A i \in 1 .. Len(t) : read[i] = D(i, read[i - 1])
    BY <2>1, <2>2
  <2>5. read = [i \in 0 .. Len(t) |-> read[i]]
    BY <1>7
  <2>6. QED
    BY <2>3, <2>4, <2>5
<1>9. read \in [0 .. Len(t) -> Reading]
  <2> DEFINE P == {n \in Nat : n <= Len(t) => read[n] = k[n]}
  <2> HIDE DEF read
  <2>1. 0 \in P
    BY <1>2, <1>4, <1>8
  <2>2. ASSUME NEW n \in Nat, n \in P PROVE n + 1 \in P
    <3> SUFFICES ASSUME n + 1 <= Len(t) PROVE read[n + 1] = k[n + 1]
      OBVIOUS
    <3>1. n + 1 \in 1 .. Len(t) /\ (n + 1) - 1 = n
      BY <1>2
    <3>2. read[n] = k[n]
      BY <1>2, <2>2
    <3>3. QED
      BY <1>5, <1>8, <3>1, <3>2
  <2>3. Nat \subseteq P
    <3> HIDE DEF P
    <3>1. QED
      BY <2>1, <2>2, Induction
  <2>4. \A n \in 0 .. Len(t) : read[n] \in Reading
    BY <1>4, <2>3
  <2>5. QED
    BY <1>8, <2>4
<1>10. ByLetter(t) = read
  BY DEF ByLetter, D, base, Nobody
<1>11. QED
  <2> HIDE DEF read
  <2>1. QED
    BY <1>8, <1>9, <1>10 DEF D, base

\* A piece of a text is a text.
LEMMA PieceTyped ==
  ASSUME NEW X, NEW b \in Seq(X), NEW m \in Nat \ {0}, NEW n \in Nat, n <= Len(b)
  PROVE  /\ SubSeq(b, m, n) \in Seq(X)
         /\ Len(SubSeq(b, m, n)) = IF m <= n THEN n - m + 1 ELSE 0
         /\ \A i \in 1 .. n - m + 1 : SubSeq(b, m, n)[i] = b[m + i - 1]
<1>1. \A i \in m .. n : b[i] \in X
  OBVIOUS
<1>2. QED
  BY <1>1, SubSeqProperties

\* The steps of the loop of push.
LEMMA LinesSteps ==
  ASSUME NEW b \in Seq(Letters), NEW s \in Given
  PROVE  LET f == Lines(b, WholeEnds(b), s)
         IN /\ f \in [0 .. Len(b) -> Pass]
            /\ f[0] = [start |-> 1, at |-> s]
            /\ \A i \in 1 .. Len(b) :
                 f[i] = IF i \notin WholeEnds(b) THEN f[i - 1]
                        ELSE [start |-> NextLine(b, i),
                              at |-> AfterLine(f[i - 1].at, SubSeq(b, f[i - 1].start, i - 1))]
<1> DEFINE ends == WholeEnds(b)
           D(i, r) == IF i \notin ends THEN r
                      ELSE [start |-> NextLine(b, i), at |-> AfterLine(r.at, SubSeq(b, r.start, i - 1))]
           base == [start |-> 1, at |-> s]
           F == [i \in 1 .. Len(b) |-> [r \in Pass |-> D(i, r)]]
           step(k) == [i \in 0 .. Len(b) |-> IF i = 0 THEN base ELSE D(i, k[i - 1])]
           read == CHOOSE k : k = step(k)
<1>1. F \in [1 .. Len(b) -> [Pass -> Pass]] 
  <2>1. ASSUME NEW i \in 1 .. Len(b), NEW r \in Pass PROVE D(i, r) \in Pass
    <3>1. r.start \in Nat \ {0} /\ r.at \in Given /\ Len(b) \in Nat /\ i \in Nat /\ i >= 1 /\ i <= Len(b)
      BY <2>1 DEF Pass
    <3>2. SubSeq(b, r.start, i - 1) \in Seq(Letters)
      BY <3>1, PieceTyped
    <3>3. AfterLine(r.at, SubSeq(b, r.start, i - 1)) \in Given
      BY <3>1, <3>2, AfterLineFacts
    <3>4. NextLine(b, i) \in Nat \ {0}
      BY <3>1 DEF NextLine
    <3>5. QED
      BY <2>1, <3>3, <3>4 DEF Pass
  <2> HIDE DEF D
  <2>2. QED
    BY <2>1
<1>2. base \in Pass /\ Len(b) \in Nat
  BY DEF Pass
<1> HIDE DEF F, D
<1>3. PICK k : Iterates(k, Pass, Len(b), base, F)
  <2> HIDE DEF base
  <2>1. QED
    BY <1>1, <1>2, Recursion
<1>4. k \in [0 .. Len(b) -> Pass] /\ k[0] = base
  BY <1>3 DEF Iterates
<1>5. ASSUME NEW i \in 1 .. Len(b) PROVE k[i] = D(i, k[i - 1])
  <2>1. k[i - 1] \in Pass
    BY <1>2, <1>4
  <2>2. k[i] = F[i][k[i - 1]]
    BY <1>3 DEF Iterates
  <2>3. QED
    BY <2>1, <2>2 DEF F
<1> HIDE DEF base
<1>6. k = step(k)
  <2>1. \A n \in 0 .. Len(b) : n = 0 \/ n \in 1 .. Len(b)
    BY <1>2
  <2>2. \A n \in 0 .. Len(b) : k[n] = step(k)[n]
    BY <1>4, <1>5, <2>1
  <2>3. QED
    BY <1>4, <2>2
<1>7. read = step(read)
  <2> HIDE DEF step
  <2>1. QED
    BY <1>6
<1>8. /\ read = [i \in 0 .. Len(b) |-> read[i]] /\ read[0] = base
      /\ \A i \in 1 .. Len(b) : read[i] = D(i, read[i - 1])
  <2> HIDE DEF read
  <2>1. \A n \in 0 .. Len(b) : read[n] = IF n = 0 THEN base ELSE D(n, read[n - 1])
    BY <1>7
  <2>2. \A i \in 1 .. Len(b) : i \in 0 .. Len(b) /\ i # 0
    BY <1>2
  <2>3. read[0] = base
    BY <1>2, <2>1
  <2>4. \A i \in 1 .. Len(b) : read[i] = D(i, read[i - 1])
    BY <2>1, <2>2
  <2>5. read = [i \in 0 .. Len(b) |-> read[i]]
    BY <1>7
  <2>6. QED
    BY <2>3, <2>4, <2>5
<1>9. read \in [0 .. Len(b) -> Pass]
  <2> DEFINE P == {n \in Nat : n <= Len(b) => read[n] = k[n]}
  <2> HIDE DEF read
  <2>1. 0 \in P
    BY <1>2, <1>4, <1>8
  <2>2. ASSUME NEW n \in Nat, n \in P PROVE n + 1 \in P
    <3> SUFFICES ASSUME n + 1 <= Len(b) PROVE read[n + 1] = k[n + 1]
      OBVIOUS
    <3>1. n + 1 \in 1 .. Len(b) /\ (n + 1) - 1 = n
      BY <1>2
    <3>2. read[n] = k[n]
      BY <1>2, <2>2
    <3>3. QED
      BY <1>5, <1>8, <3>1, <3>2
  <2>3. Nat \subseteq P
    <3> HIDE DEF P
    <3>1. QED
      BY <2>1, <2>2, Induction
  <2>4. \A n \in 0 .. Len(b) : read[n] \in Pass
    BY <1>4, <2>3
  <2>5. QED
    BY <1>8, <2>4
<1>10. Lines(b, ends, s) = read
  BY DEF Lines, D, base
<1>11. QED
  <2> HIDE DEF read
  <2>1. QED
    BY <1>8, <1>9, <1>10 DEF D, base

-----------------------------------------------------------------------------
(* One line.                                                               *)

\* Behind p of t a line starts, when the lines so far gave s.
LineStarts(t, p, s) ==
  /\ p \in 0 .. Len(t) /\ ByLetter(t)[p] = [line |-> <<>>, at |-> s]
  /\ p + 1 \in DOMAIN t => ~SecondHalf(t, p + 1)

\* What lies between two places of t.
LEMMA PieceFacts ==
  ASSUME NEW X, NEW t \in Seq(X), NEW p \in Nat, NEW n \in Nat, p <= n, n <= Len(t)
  PROVE  /\ SubSeq(t, p + 1, n) \in Seq(X) /\ Len(SubSeq(t, p + 1, n)) = n - p
         /\ \A i \in 1 .. n - p : SubSeq(t, p + 1, n)[i] = t[p + i]
<1>1. p + 1 \in Nat \ {0} /\ n - (p + 1) + 1 = n - p /\ \A i \in 1 .. n - p : (p + 1) + i - 1 = p + i
  OBVIOUS
<1>2. (IF p + 1 <= n THEN n - (p + 1) + 1 ELSE 0) = n - p
  OBVIOUS
<1>3. QED
  BY <1>1, <1>2, PieceTyped, SMTT(20)

\* A letter more of a piece.
LEMMA PieceGrows ==
  ASSUME NEW X, NEW t \in Seq(X), NEW p \in Nat, NEW n \in Nat, p <= n, n < Len(t)
  PROVE  SubSeq(t, p + 1, n + 1) = Append(SubSeq(t, p + 1, n), t[n + 1])
<1> DEFINE a == SubSeq(t, p + 1, n)
           b == SubSeq(t, p + 1, n + 1)
<1>1. /\ a \in Seq(X) /\ Len(a) = n - p /\ \A i \in 1 .. n - p : a[i] = t[p + i]
  BY PieceFacts
<1>2. /\ b \in Seq(X) /\ Len(b) = n + 1 - p /\ \A i \in 1 .. n + 1 - p : b[i] = t[p + i]
  <2>1. n + 1 \in Nat /\ p <= n + 1 /\ n + 1 <= Len(t)
    OBVIOUS
  <2>2. QED
    BY <2>1, PieceFacts
<1>3. t[n + 1] \in X
  OBVIOUS
<1> HIDE DEF a, b
<1>4. /\ Append(a, t[n + 1]) \in Seq(X) /\ Len(Append(a, t[n + 1])) = n - p + 1
      /\ \A i \in 1 .. n - p : Append(a, t[n + 1])[i] = a[i]
      /\ Append(a, t[n + 1])[n - p + 1] = t[n + 1]
  <2> DEFINE e == t[n + 1]
  <2>1. /\ Append(a, e) \in Seq(X) /\ Len(Append(a, e)) = Len(a) + 1
        /\ \A i \in 1 .. Len(a) : Append(a, e)[i] = a[i]
        /\ Append(a, e)[Len(a) + 1] = e
    <3>1. a \in Seq(X) /\ e \in X
      BY <1>1, <1>3
    <3> HIDE DEF e
    <3>2. QED
      BY <3>1
  <2>2. QED
    BY <1>1, <2>1
<1>5. \A i \in 1 .. n + 1 - p : b[i] = Append(a, t[n + 1])[i]
  <2>1. ASSUME NEW i \in 1 .. n + 1 - p PROVE b[i] = Append(a, t[n + 1])[i]
    <3>1. CASE i \in 1 .. n - p
      BY <1>1, <1>2, <1>4, <3>1
    <3>2. CASE i = n - p + 1
      BY <1>2, <1>4, <3>2, SMTT(20)
    <3>3. i \in 1 .. n - p \/ i = n - p + 1
      BY <2>1
    <3>4. QED
      BY <3>1, <3>2, <3>3
  <2>2. QED
    BY <2>1
<1>6. b = Append(a, t[n + 1])
  BY <1>2, <1>4, <1>5, SeqEqual
<1>7. QED
  BY <1>6 DEF a, b

\* Two pieces that follow each other.
LEMMA PiecesJoin ==
  ASSUME NEW X, NEW t \in Seq(X), NEW p \in Nat, NEW m \in Nat, NEW n \in Nat,
         p <= m, m <= n, n <= Len(t)
  PROVE  SubSeq(t, p + 1, m) \o SubSeq(t, m + 1, n) = SubSeq(t, p + 1, n)
<1> DEFINE P == {k \in Nat : m + k <= n =>
                   SubSeq(t, p + 1, m) \o SubSeq(t, m + 1, m + k) = SubSeq(t, p + 1, m + k)}
<1>1. 0 \in P
  <2>1. SubSeq(t, m + 1, m + 0) = <<>>
    BY SubSeqEmpty
  <2>2. SubSeq(t, p + 1, m) \in Seq(X)
    BY PieceTyped
  <2>3. QED
    BY <2>1, <2>2, ConcatEmptySeq
<1>2. ASSUME NEW k \in Nat, k \in P PROVE k + 1 \in P
  <2> SUFFICES ASSUME m + (k + 1) <= n
               PROVE  SubSeq(t, p + 1, m) \o SubSeq(t, m + 1, m + (k + 1)) = SubSeq(t, p + 1, m + (k + 1))
    OBVIOUS
  <2> DEFINE a == SubSeq(t, p + 1, m)
             b == SubSeq(t, m + 1, m + k)
             e == t[m + k + 1]
  <2>1. a \in Seq(X) /\ b \in Seq(X) /\ e \in X
    BY PieceTyped
  <2>2. SubSeq(t, m + 1, m + (k + 1)) = Append(b, e)
    <3>1. m + k \in Nat /\ m <= m + k /\ m + k < Len(t) /\ m + (k + 1) = (m + k) + 1
      OBVIOUS
    <3>2. QED
      BY <3>1, PieceGrows
  <2>3. SubSeq(t, p + 1, m + (k + 1)) = Append(SubSeq(t, p + 1, m + k), e)
    <3>1. m + k \in Nat /\ p <= m + k /\ m + k < Len(t) /\ m + (k + 1) = (m + k) + 1
      OBVIOUS
    <3>2. QED
      BY <3>1, PieceGrows
  <2>4. a \o b = SubSeq(t, p + 1, m + k)
    BY <1>2
  <2> HIDE DEF a, b, e
  <2>5. a \o Append(b, e) = Append(a \o b, e)
    BY <2>1
  <2>6. QED
    BY <2>2, <2>3, <2>4, <2>5 DEF a
<1>3. n - m \in P
  <2> HIDE DEF P
  <2>1. QED
    BY <1>1, <1>2, Induction
<1>4. QED
  BY <1>3

\* A piece of a piece.
LEMMA PieceOfPiece ==
  ASSUME NEW X, NEW t \in Seq(X), NEW p \in Nat, NEW n \in Nat, p <= n, n <= Len(t),
         NEW m \in Nat \ {0}, NEW k \in Nat, m <= k + 1, k <= n - p
  PROVE  SubSeq(SubSeq(t, p + 1, n), m, k) = SubSeq(t, p + m, p + k)
<1> DEFINE u == SubSeq(t, p + 1, n)
           a == SubSeq(u, m, k)
           b == SubSeq(t, p + m, p + k)
<1>1. u \in Seq(X) /\ Len(u) = n - p /\ \A i \in 1 .. n - p : u[i] = t[p + i]
  BY PieceFacts
<1> HIDE DEF u
<1>2. a \in Seq(X) /\ Len(a) = k + 1 - m /\ \A i \in 1 .. k + 1 - m : a[i] = u[m + i - 1]
  <2>1. k <= Len(u) /\ k - m + 1 = k + 1 - m /\ (IF m <= k THEN k - m + 1 ELSE 0) = k + 1 - m
    BY <1>1
  <2>2. QED
    BY <1>1, <2>1, PieceTyped
<1>3. b \in Seq(X) /\ Len(b) = k + 1 - m /\ \A i \in 1 .. k + 1 - m : b[i] = t[p + m + i - 1]
  <2>1. /\ p + k <= Len(t) /\ p + m \in Nat \ {0} /\ p + k \in Nat /\ (p + k) - (p + m) + 1 = k + 1 - m
        /\ (IF p + m <= p + k THEN (p + k) - (p + m) + 1 ELSE 0) = k + 1 - m
        /\ \A i \in 1 .. k + 1 - m : (p + m) + i - 1 = p + m + i - 1
    OBVIOUS
  <2>2. QED
    BY <2>1, PieceTyped
<1> HIDE DEF a, b
<1>4. \A i \in 1 .. k + 1 - m : a[i] = b[i]
  <2>1. \A i \in 1 .. k + 1 - m : m + i - 1 \in 1 .. n - p /\ p + (m + i - 1) = p + m + i - 1
    OBVIOUS
  <2>2. QED
    BY <1>1, <1>2, <1>3, <2>1
<1>5. a = b
  BY <1>2, <1>3, <1>4, SeqEqual
<1>6. QED
  BY <1>5 DEF a, b, u

\* The letters of a line are put to it.
LEMMA LineGrows ==
  ASSUME NEW t \in Seq(Letters), NEW p, NEW s, LineStarts(t, p, s), NEW n \in Nat, p <= n, n <= Len(t),
         \A i \in p + 1 .. n : t[i] \notin {"n", "r"}
  PROVE  ByLetter(t)[n] = [line |-> SubSeq(t, p + 1, n), at |-> s]
<1> DEFINE P == {k \in Nat : p + k <= n =>
                   ByLetter(t)[p + k] = [line |-> SubSeq(t, p + 1, p + k), at |-> s]}
<1>1. p \in Nat /\ p <= Len(t) /\ Len(t) \in Nat /\ ByLetter(t)[p] = [line |-> <<>>, at |-> s]
  BY DEF LineStarts
<1>2. 0 \in P
  <2>1. SubSeq(t, p + 1, p + 0) = <<>> /\ p + 0 = p
    BY <1>1, SubSeqEmpty
  <2>2. QED
    BY <1>1, <2>1
<1>3. ASSUME NEW k \in Nat, k \in P PROVE k + 1 \in P
  <2> SUFFICES ASSUME p + (k + 1) <= n
               PROVE  ByLetter(t)[p + (k + 1)] = [line |-> SubSeq(t, p + 1, p + (k + 1)), at |-> s]
    OBVIOUS
  <2> DEFINE i == p + k + 1
  <2>1. i \in 1 .. Len(t) /\ i - 1 = p + k /\ p + (k + 1) = i /\ i \in p + 1 .. n
    BY <1>1
  <2>2. t[i] \notin {"n", "r"} /\ ~SecondHalf(t, i)
    BY <2>1 DEF SecondHalf
  <2>3. ByLetter(t)[i - 1] = [line |-> SubSeq(t, p + 1, p + k), at |-> s]
    BY <1>1, <1>3, <2>1
  <2>4. ByLetter(t)[i] = [line |-> Append(SubSeq(t, p + 1, p + k), t[i]), at |-> s]
    <3> HIDE DEF i
    <3>1. LET r == ByLetter(t)[i - 1]
          IN ByLetter(t)[i] = IF SecondHalf(t, i) THEN r
                              ELSE IF t[i] \in {"n", "r"}
                              THEN [line |-> <<>>, at |-> AfterLine(r.at, r.line)]
                              ELSE [line |-> Append(r.line, t[i]), at |-> r.at]
      BY <2>1, ByLetterSteps
    <3>2. QED
      BY <2>2, <2>3, <3>1
  <2>5. SubSeq(t, p + 1, p + k + 1) = Append(SubSeq(t, p + 1, p + k), t[i])
    <3>1. p + k \in Nat /\ p <= p + k /\ p + k < Len(t)
      BY <1>1
    <3>2. QED
      BY <1>1, <3>1, PieceGrows
  <2>6. QED
    BY <2>1, <2>4, <2>5
<1>4. n - p \in P
  <2> HIDE DEF P
  <2>1. n - p \in Nat
    BY <1>1
  <2>2. QED
    BY <1>2, <1>3, <2>1, Induction
<1>5. p + (n - p) = n /\ p + (n - p) <= n
  BY <1>1
<1>6. ByLetter(t)[p + (n - p)] = [line |-> SubSeq(t, p + 1, p + (n - p)), at |-> s]
  BY <1>4, <1>5
<1>7. QED
  BY <1>5, <1>6

\* Where a line ends the next one starts, behind both halves of the end.
LEMMA LineEnds ==
  ASSUME NEW t \in Seq(Letters), NEW p, NEW s \in Given, LineStarts(t, p, s), NEW e \in p + 1 .. Len(t),
         t[e] \in {"n", "r"}, \A i \in p + 1 .. e - 1 : t[i] \notin {"n", "r"}
  PROVE  LET q == IF t[e] = "r" /\ e < Len(t) /\ t[e + 1] = "n" THEN e + 1 ELSE e
         IN LineStarts(t, q, AfterLine(s, SubSeq(t, p + 1, e - 1)))
<1> DEFINE l == SubSeq(t, p + 1, e - 1)
           q == IF t[e] = "r" /\ e < Len(t) /\ t[e + 1] = "n" THEN e + 1 ELSE e
<1>1. /\ p \in Nat /\ p <= Len(t) /\ Len(t) \in Nat /\ e \in Nat /\ p < e /\ e <= Len(t)
      /\ DOMAIN t = 1 .. Len(t)
  BY DEF LineStarts
<1>2. ByLetter(t)[e - 1] = [line |-> l, at |-> s]
  <2>1. e - 1 \in Nat /\ p <= e - 1 /\ e - 1 <= Len(t)
    BY <1>1
  <2>2. QED
    BY <2>1, LineGrows
<1>3. ~SecondHalf(t, e)
  <2>1. CASE e = p + 1
    BY <1>1, <2>1 DEF LineStarts
  <2>2. CASE e # p + 1
    <3>1. e - 1 \in p + 1 .. e - 1
      BY <1>1, <2>2
    <3>2. QED
      BY <3>1 DEF SecondHalf
  <2>3. QED
    BY <2>1, <2>2
<1> HIDE DEF l
<1>4. ByLetter(t)[e] = [line |-> <<>>, at |-> AfterLine(s, l)]
  BY <1>1, <1>2, <1>3, ByLetterSteps
<1>5. CASE q = e + 1
  <2>1. e < Len(t) /\ t[e] = "r" /\ t[e + 1] = "n"
    BY <1>1, <1>5
  <2>2. SecondHalf(t, e + 1) /\ ~SecondHalf(t, e + 1 + 1) /\ e + 1 \in 1 .. Len(t) /\ (e + 1) - 1 = e
    BY <1>1, <2>1 DEF SecondHalf
  <2>3. ByLetter(t)[e + 1] = ByLetter(t)[e]
    BY <2>2, ByLetterSteps
  <2>4. QED
    BY <1>1, <1>4, <1>5, <2>1, <2>2, <2>3 DEF LineStarts, l
<1>6. CASE q = e
  <2>1. e + 1 \in DOMAIN t => ~SecondHalf(t, e + 1)
    BY <1>1, <1>6 DEF SecondHalf
  <2>2. QED
    BY <1>1, <1>4, <1>6, <2>1 DEF LineStarts, l
<1>7. QED
  BY <1>5, <1>6

-----------------------------------------------------------------------------
(* A chunk.                                                                *)

\* What the loop of push has read of b, which goes on behind p, at its i-th letter.
Scanned(t, p, b, f, i) ==
  /\ f.start \in 1 .. Len(b) + 1 /\ f.start <= i + 2 /\ f.at \in Given
  /\ LineStarts(t, p + f.start - 1, f.at)
  /\ f.start = i + 2 => i + 1 \notin EndsIn(b)
  /\ \A j \in f.start .. i : j \notin WholeEnds(b)

\* What is no end of a line that has started is another letter.
LEMMA NoEnd ==
  ASSUME NEW t \in Seq(Letters), NEW b \in Seq(Letters), NEW p \in Nat, p + Len(b) <= Len(t),
         \A j \in 1 .. Len(b) : b[j] = t[p + j],
         NEW from \in 1 .. Len(b) + 1, NEW s, LineStarts(t, p + from - 1, s),
         NEW i \in Nat, i <= Len(b), \A j \in from .. i : j \notin EndsIn(b)
  PROVE  \A j \in from .. i : b[j] \notin {"n", "r"} /\ t[p + j] \notin {"n", "r"}
<1> SUFFICES ASSUME NEW j \in from .. i PROVE b[j] \notin {"n", "r"}
  <2>1. from .. i \subseteq 1 .. Len(b)
    OBVIOUS
  <2>2. QED
    BY <2>1
<1>1. /\ Len(b) \in Nat /\ DOMAIN b = 1 .. Len(b) /\ DOMAIN t = 1 .. Len(t) /\ Len(t) \in Nat
      /\ from \in Nat /\ j \in Nat /\ j \in DOMAIN b /\ from >= 1 /\ from <= j /\ j <= i
  OBVIOUS
<1>2. b[j] # "r" /\ (b[j] = "n" => j > 1 /\ b[j - 1] = "r")
  BY <1>1 DEF EndsIn
<1>3. CASE b[j] = "n" /\ j = from
  <2>1. p + from \in DOMAIN t /\ (p + from - 1) + 1 = p + from /\ p + from > 1
        /\ from - 1 \in 1 .. Len(b) /\ p + (from - 1) = p + from - 1
    BY <1>1, <1>2, <1>3
  <2>2. t[p + from] = "n" /\ t[p + from - 1] = "r"
    BY <1>1, <1>2, <1>3, <2>1
  <2>3. SecondHalf(t, p + from)
    BY <2>1, <2>2 DEF SecondHalf
  <2>4. QED
    BY <2>1, <2>3 DEF LineStarts
<1>4. CASE b[j] = "n" /\ j # from
  <2>1. j - 1 \in from .. i /\ j - 1 \in DOMAIN b
    BY <1>1, <1>4
  <2>2. j - 1 \in EndsIn(b)
    BY <1>2, <1>4, <2>1 DEF EndsIn
  <2>3. QED
    BY <2>1, <2>2
<1>5. QED
  BY <1>2, <1>3, <1>4

\* The loop of push under names of its parts.
LEMMA LinesNamed ==
  ASSUME NEW b \in Seq(Letters), NEW s \in Given, NEW ends, ends = WholeEnds(b),
         NEW f, f = Lines(b, ends, s)
  PROVE  /\ f \in [0 .. Len(b) -> Pass]
         /\ f[0] = [start |-> 1, at |-> s]
         /\ \A i \in 1 .. Len(b) :
              f[i] = IF i \notin ends THEN f[i - 1]
                     ELSE [start |-> NextLine(b, i),
                           at |-> AfterLine(f[i - 1].at, SubSeq(b, f[i - 1].start, i - 1))]
<1>1. f = Lines(b, WholeEnds(b), s)
  OBVIOUS
<1>2. QED
  BY <1>1, LinesSteps

\* A line in a chunk is one in the text.
LEMMA LineOfChunk ==
  ASSUME NEW t \in Seq(Letters), NEW p \in Nat, NEW n \in Nat, p <= n, n <= Len(t),
         NEW b \in Seq(Letters), Len(b) = n - p, \A j \in 1 .. Len(b) : b[j] = t[p + j],
         NEW m \in Nat \ {0}, NEW k \in Nat, m <= k + 1, k <= Len(b)
  PROVE  SubSeq(b, m, k) = SubSeq(t, p + m, p + k)
<1>1. SubSeq(t, p + 1, n) = b
  <2>1. /\ SubSeq(t, p + 1, n) \in Seq(Letters) /\ Len(SubSeq(t, p + 1, n)) = n - p
        /\ \A j \in 1 .. n - p : SubSeq(t, p + 1, n)[j] = t[p + j]
    BY PieceFacts
  <2> DEFINE u == SubSeq(t, p + 1, n)
  <2> HIDE DEF u
  <2>2. u \in Seq(Letters) /\ Len(u) = Len(b) /\ \A j \in 1 .. Len(b) : u[j] = b[j]
    BY <2>1 DEF u
  <2>3. u = b
    BY <2>2, SeqEqual
  <2>4. QED
    BY <2>3 DEF u
<1>2. SubSeq(SubSeq(t, p + 1, n), m, k) = SubSeq(t, p + m, p + k)
  <2>1. k <= n - p
    OBVIOUS
  <2>2. QED
    BY <2>1, PieceOfPiece
<1>3. QED
  BY <1>1, <1>2

\* push reads the letters of a chunk one by one.
LEMMA LettersScanned ==
  ASSUME NEW t \in Seq(Letters), NEW p \in Nat, NEW n \in Nat, p <= n, n <= Len(t),
         NEW s \in Given, LineStarts(t, p, s),
         NEW b \in Seq(Letters), Len(b) = n - p, \A j \in 1 .. Len(b) : b[j] = t[p + j],
         NEW ends, ends = WholeEnds(b),
         NEW f \in [0 .. Len(b) -> Pass], f[0] = [start |-> 1, at |-> s],
         \A i \in 1 .. Len(b) :
           f[i] = IF i \notin ends THEN f[i - 1]
                  ELSE [start |-> NextLine(b, i),
                        at |-> AfterLine(f[i - 1].at, SubSeq(b, f[i - 1].start, i - 1))]
  PROVE  \A i \in 0 .. Len(b) : Scanned(t, p, b, f[i], i)
<1> DEFINE P == {i \in Nat : i <= Len(b) => Scanned(t, p, b, f[i], i)}
<1>1. /\ b \in Seq(Letters) /\ Len(b) = n - p /\ \A j \in 1 .. Len(b) : b[j] = t[p + j]
      /\ Len(b) \in Nat /\ DOMAIN b = 1 .. Len(b) /\ p + Len(b) <= Len(t) /\ Len(t) \in Nat
      /\ DOMAIN t = 1 .. Len(t) /\ ends = WholeEnds(b)
  OBVIOUS
<1>2. /\ f[0] = [start |-> 1, at |-> s]
      /\ \A i \in 1 .. Len(b) :
           f[i] = IF i \notin ends THEN f[i - 1]
                  ELSE [start |-> NextLine(b, i),
                        at |-> AfterLine(f[i - 1].at, SubSeq(b, f[i - 1].start, i - 1))]
  OBVIOUS
<1>3. 0 \in P
  <2>1. p + 1 - 1 = p /\ 1 \in 1 .. Len(b) + 1
    BY <1>1
  <2>2. QED
    BY <1>2, <2>1 DEF Scanned
<1>4. ASSUME NEW k \in Nat, k \in P PROVE k + 1 \in P
  <2> SUFFICES ASSUME k + 1 <= Len(b) PROVE Scanned(t, p, b, f[k + 1], k + 1)
    OBVIOUS
  <2> DEFINE i == k + 1
             from == f[k].start
             z == f[k].at
  <2>1. /\ from \in 1 .. Len(b) + 1 /\ from <= k + 2 /\ z \in Given /\ LineStarts(t, p + from - 1, z)
        /\ from = k + 2 => k + 1 \notin EndsIn(b)
        /\ \A j \in from .. k : j \notin ends
    <3>1. Scanned(t, p, b, f[k], k)
      BY <1>1, <1>4
    <3>2. QED
      BY <3>1 DEF Scanned
  <2>2. i \in 1 .. Len(b) /\ i - 1 = k /\ i = k + 1 /\ i \in Nat
    BY <1>1
  <2>3. CASE i \notin ends
    <3>1. f[i] = f[k]
      BY <1>2, <2>2, <2>3
    <3>2. from # i + 2 /\ from <= i + 2
      BY <2>1
    <3>3. \A j \in from .. i : j \in from .. k \/ j = i
      BY <2>1
    <3> HIDE DEF i
    <3>4. QED
      BY <2>1, <2>3, <3>1, <3>2, <3>3 DEF Scanned, i
  <2>4. CASE i \in ends
    <3> DEFINE q == NextLine(b, i)
               l == SubSeq(b, from, k)
    <3>1. f[i] = [start |-> q, at |-> AfterLine(z, l)]
      BY <1>2, <2>2, <2>4
    <3> HIDE DEF i, from, z
    <3>2. i \in EndsIn(b) /\ (b[i] = "r" => i < Len(b)) /\ from <= i /\ from \in Nat /\ from >= 1
      <4>1. i \in EndsIn(b) /\ (b[i] = "r" => i # Len(b))
        <5>1. b # <<>> /\ i \in WholeEnds(b)
          BY <1>1, <2>2, <2>4
        <5>2. QED
          BY <5>1 DEF WholeEnds
      <4>2. from # k + 2
        BY <2>1, <2>2, <4>1
      <4>3. QED
        BY <1>1, <2>1, <2>2, <4>1, <4>2
    <3>3. \A j \in from .. k : j \notin EndsIn(b)
      <4>1. \A j \in from .. k : j # Len(b)
        BY <1>1, <2>2
      <4>2. QED
        BY <2>1, <4>1 DEF WholeEnds
    <3>4. \A j \in from .. k : t[p + j] \notin {"n", "r"}
      <4>1. k \in Nat /\ k <= Len(b)
        BY <1>1
      <4>2. QED
        BY <1>1, <2>1, <3>3, <4>1, NoEnd
    <3>5. t[p + i] = b[i] /\ b[i] \in {"n", "r"} /\ p + i \in (p + from - 1) + 1 .. Len(t)
      <4>1. i \in DOMAIN b /\ b[i] \in {"n", "r"}
        BY <3>2 DEF EndsIn
      <4>2. p + i <= Len(t) /\ (p + from - 1) + 1 <= p + i /\ p + i \in Nat
        BY <1>1, <2>2, <3>2
      <4>3. QED
        BY <1>1, <2>2, <3>2, <4>1, <4>2
    <3>6. \A j \in (p + from - 1) + 1 .. (p + i) - 1 : t[j] \notin {"n", "r"}
      <4>1. ASSUME NEW j \in (p + from - 1) + 1 .. (p + i) - 1 PROVE t[j] \notin {"n", "r"}
        <5>1. j - p \in from .. k /\ p + (j - p) = j
          BY <1>1, <2>2, <3>2
        <5>2. QED
          BY <3>4, <5>1
      <4>2. QED
        BY <4>1
    <3>7. LET e == p + i
              r == IF t[e] = "r" /\ e < Len(t) /\ t[e + 1] = "n" THEN e + 1 ELSE e
          IN LineStarts(t, r, AfterLine(z, SubSeq(t, (p + from - 1) + 1, e - 1)))
      <4>1. QED
        BY <2>1, <3>5, <3>6, LineEnds
    <3>8. SubSeq(t, (p + from - 1) + 1, (p + i) - 1) = l
      <4>1. from \in Nat \ {0} /\ from <= k + 1 /\ k <= Len(b) /\ k \in Nat
        BY <1>1, <2>2, <3>2
      <4>2. SubSeq(b, from, k) = SubSeq(t, p + from, p + k)
        BY <1>1, <4>1, LineOfChunk
      <4>3. (p + from - 1) + 1 = p + from /\ (p + i) - 1 = p + k
        BY <2>2, <4>1
      <4>4. QED
        BY <4>2, <4>3 DEF l
    <3>9. p + q - 1 = IF t[p + i] = "r" /\ p + i < Len(t) /\ t[p + i + 1] = "n" THEN p + i + 1 ELSE p + i
      <4>1. CASE b[i] = "r"
        <5>1. i + 1 \in 1 .. Len(b) /\ p + i < Len(t) /\ p + (i + 1) = p + i + 1 /\ i < Len(b)
          <6>1. i < Len(b) /\ i \in Nat /\ Len(b) \in Nat /\ p + Len(b) <= Len(t) /\ Len(t) \in Nat
            BY <1>1, <2>2, <3>2, <4>1
          <6>2. QED
            BY <6>1
        <5>2. b[i + 1] = t[p + i + 1]
          BY <1>1, <5>1
        <5>3. QED
          BY <2>2, <3>5, <4>1, <5>1, <5>2 DEF NextLine
      <4>2. CASE b[i] # "r"
        BY <2>2, <3>5, <4>2 DEF NextLine
      <4>3. QED
        BY <4>1, <4>2
    <3>10. LineStarts(t, p + q - 1, AfterLine(z, l))
      BY <3>7, <3>8, <3>9
    <3>11. q \in 1 .. Len(b) + 1 /\ q <= i + 2 /\ q > i /\ (q = i + 2 => i + 1 \notin EndsIn(b))
      BY <1>1, <2>2 DEF NextLine, EndsIn
    <3>12. AfterLine(z, l) \in Given
      <4>1. l \in Seq(Letters)
        BY <1>1, <2>1, <2>2, PieceTyped
      <4>2. QED
        BY <2>1, <4>1, AfterLineFacts
    <3>13. \A j \in q .. i : j \notin WholeEnds(b)
      BY <3>11, <2>2, <1>1
    <3> HIDE DEF q, l
    <3>14. QED
      BY <3>1, <3>10, <3>11, <3>12, <3>13 DEF Scanned, i
  <2>5. QED
    BY <2>3, <2>4
<1>5. QED
  <2> HIDE DEF P
  <2>1. Nat \subseteq P
    BY <1>3, <1>4, Induction
  <2>2. QED
    BY <1>1, <2>1 DEF P

LEMMA ChunkScanned ==
  ASSUME NEW t \in Seq(Letters), NEW p \in Nat, NEW n \in Nat, p <= n, n <= Len(t),
         NEW s \in Given, LineStarts(t, p, s),
         NEW b \in Seq(Letters), Len(b) = n - p, \A j \in 1 .. Len(b) : b[j] = t[p + j]
  PROVE  Scanned(t, p, b, Lines(b, WholeEnds(b), s)[Len(b)], Len(b))
<1>1. PICK ends : ends = WholeEnds(b)
  OBVIOUS
<1>2. PICK f : f = Lines(b, ends, s)
  OBVIOUS
<1>3. /\ f \in [0 .. Len(b) -> Pass] /\ f[0] = [start |-> 1, at |-> s]
      /\ \A i \in 1 .. Len(b) :
           f[i] = IF i \notin ends THEN f[i - 1]
                  ELSE [start |-> NextLine(b, i),
                        at |-> AfterLine(f[i - 1].at, SubSeq(b, f[i - 1].start, i - 1))]
  <2>1. b \in Seq(Letters) /\ s \in Given
    OBVIOUS
  <2>2. f \in [0 .. Len(b) -> Pass] /\ f[0] = [start |-> 1, at |-> s]
    BY <1>1, <1>2, <2>1, LinesSteps
  <2>3. ASSUME NEW i \in 1 .. Len(b)
        PROVE  f[i] = IF i \notin ends THEN f[i - 1]
                      ELSE [start |-> NextLine(b, i),
                            at |-> AfterLine(f[i - 1].at, SubSeq(b, f[i - 1].start, i - 1))]
    BY <1>1, <1>2, <2>1, LinesSteps, ZenonT(40)
  <2>4. QED
    BY <2>2, <2>3
<1>4. \A i \in 0 .. Len(b) : Scanned(t, p, b, f[i], i)
  BY <1>1, <1>3, LettersScanned
<1>5. Len(b) \in 0 .. Len(b)
  OBVIOUS
<1>6. QED
  BY <1>1, <1>2, <1>4, <1>5

-----------------------------------------------------------------------------
(* The reader.                                                             *)

\* What waits is the text behind the last line: no whole line of it, though its
\* last letter may be half of a line end. Once ended, all was given.
SoFar == [fields |-> fields, out |-> given]
LineFrom == readTo - Len(buf)
NoLineFrom(b, from) == \A j \in from .. Len(b) : b[j] \in {"n", "r"} => j = Len(b) /\ b[j] = "r"
NoWholeLine(b) == NoLineFrom(b, 1)
LineWaits ==
  /\ LineFrom \in Nat /\ buf = SubSeq(streamed, LineFrom + 1, readTo)
  /\ LineStarts(streamed, LineFrom, SoFar) /\ NoWholeLine(buf)
TextInv ==
  /\ EventTextTypeOK
  /\ ~ended => LineWaits
  /\ ended => given = EventsOf(streamed)

\* The text so far behind p, and nothing of it is a whole line.
LEMMA RestWaits ==
  ASSUME NEW t \in Seq(Letters), NEW p \in Nat, NEW b \in Seq(Letters), p + Len(b) <= Len(t),
         \A j \in 1 .. Len(b) : b[j] = t[p + j],
         NEW from \in 1 .. Len(b) + 1, NEW s, LineStarts(t, p + from - 1, s),
         \A j \in from .. Len(b) : j \notin WholeEnds(b)
  PROVE  NoLineFrom(b, from)
<1> DEFINE i == IF b # <<>> /\ b[Len(b)] = "r" THEN Len(b) - 1 ELSE Len(b)
<1>1. /\ from \in 1 .. Len(b) + 1 /\ LineStarts(t, p + from - 1, s)
      /\ \A j \in from .. Len(b) : j \notin WholeEnds(b)
  OBVIOUS
<1>2. Len(b) \in Nat /\ (b # <<>> => Len(b) >= 1)
  OBVIOUS
<1>3. i \in Nat /\ i <= Len(b) /\ (\A j \in from .. i : j \in from .. Len(b))
  BY <1>1, <1>2
<1>4. \A j \in from .. i : j \notin EndsIn(b)
  <2>1. \A j \in from .. i : ~(b # <<>> /\ b[Len(b)] = "r" /\ j = Len(b))
    BY <1>1, <1>2
  <2> HIDE DEF i
  <2>2. QED
    BY <1>1, <1>3, <2>1 DEF WholeEnds
<1>5. \A j \in from .. i : b[j] \notin {"n", "r"}
  <2> HIDE DEF i
  <2>1. QED
    BY <1>1, <1>3, <1>4, NoEnd
<1>6. ASSUME NEW j \in from .. Len(b), j \notin from .. i PROVE j = Len(b) /\ b[j] = "r"
  BY <1>1, <1>2, <1>6
<1> HIDE DEF i
<1>7. QED
  BY <1>5, <1>6 DEF NoLineFrom

\* A chunk.
LEMMA PushKeeps ==
  ASSUME TextInv, NEW n \in 1 .. Len(streamed), PushChunk(n)
  PROVE  TextInv'
<1> DEFINE t == streamed
           p == LineFrom
           b == buf \o SubSeq(streamed, readTo + 1, n)
           read == Lines(b, WholeEnds(b), SoFar)[Len(b)]
<1>1. /\ t \in Seq(Letters) /\ readTo \in 0 .. Len(t) /\ buf \in Seq(Letters)
      /\ SoFar \in Given /\ ~ended /\ Len(t) \in Nat /\ readTo \in Nat /\ n \in Nat
      /\ p \in Nat /\ buf = SubSeq(t, p + 1, readTo) /\ LineStarts(t, p, SoFar)
      /\ n > readTo /\ n <= Len(t) /\ p <= readTo
  <2>1. ~ended /\ n > readTo /\ LineWaits /\ EventTextTypeOK
    BY DEF TextInv, PushChunk
  <2>2. Len(buf) \in Nat
    BY <2>1 DEF EventTextTypeOK
  <2>3. QED
    BY <2>1, <2>2 DEF EventTextTypeOK, LineWaits, LineFrom, SoFar, Given
<1>17. t \in Seq(Letters) /\ p \in Nat /\ n \in Nat /\ n <= Len(t) /\ p <= n
  BY <1>1
<1>2. /\ readTo' = n /\ buf' = SubSeq(b, read.start, Len(b))
      /\ fields' = read.at.fields /\ given' = read.at.out /\ t' = t /\ ended' = ended
  BY DEF PushChunk, SoFar
<1> HIDE DEF p, t
<1>3. b = SubSeq(t, p + 1, n)
  BY <1>1, PiecesJoin DEF t
<1> HIDE DEF b
<1>4. b \in Seq(Letters) /\ Len(b) = n - p /\ \A j \in 1 .. Len(b) : b[j] = t[p + j]
  <2>1. /\ SubSeq(t, p + 1, n) \in Seq(Letters) /\ Len(SubSeq(t, p + 1, n)) = n - p
        /\ \A j \in 1 .. n - p : SubSeq(t, p + 1, n)[j] = t[p + j]
    BY <1>17, PieceFacts
  <2>2. QED
    BY <1>3, <2>1
<1>5. Len(b) \in Nat /\ p + Len(b) = n /\ p <= n
  BY <1>1, <1>4
<1>6. Scanned(t, p, b, read, Len(b))
  BY <1>1, <1>4, <1>5, ChunkScanned
<1> HIDE DEF read
<1>7. /\ read.start \in 1 .. Len(b) + 1 /\ read.start \in Nat \ {0} /\ read.at \in Given
      /\ LineStarts(t, p + read.start - 1, read.at)
  BY <1>5, <1>6 DEF Scanned
<1>8. NoLineFrom(b, read.start)
  <2>1. t \in Seq(Letters) /\ p \in Nat /\ p + Len(b) <= Len(t)
    BY <1>1, <1>5
  <2>2. b \in Seq(Letters) /\ \A j \in 1 .. Len(b) : b[j] = t[p + j]
    BY <1>4
  <2>3. \A j \in read.start .. Len(b) : j \notin WholeEnds(b)
    BY <1>6 DEF Scanned
  <2>4. QED
    BY <1>7, <2>1, <2>2, <2>3, RestWaits
<1>9. /\ buf' \in Seq(Letters) /\ Len(buf') = Len(b) - read.start + 1
      /\ \A j \in 1 .. Len(b) - read.start + 1 : buf'[j] = b[read.start + j - 1]
  <2>1. (IF read.start <= Len(b) THEN Len(b) - read.start + 1 ELSE 0) = Len(b) - read.start + 1
    BY <1>5, <1>7
  <2>2. QED
    BY <1>2, <1>4, <1>5, <1>7, <2>1, PieceTyped, SMTT(20)
<1>10. LineFrom' = p + read.start - 1 /\ LineFrom' \in Nat /\ LineFrom' + 1 = p + read.start
  <2>1. LineFrom' = n - (Len(b) - read.start + 1)
    BY <1>2, <1>9 DEF LineFrom
  <2>2. PICK m \in 1 .. Len(b) + 1 : m = read.start
    BY <1>7
  <2>3. n - (Len(b) - m + 1) = p + m - 1 /\ p + m - 1 \in Nat /\ (p + m - 1) + 1 = p + m
    BY <1>5, <1>17, <2>2, SMTT(20)
  <2>4. QED
    BY <2>1, <2>2, <2>3
<1>11. buf' = SubSeq(t', LineFrom' + 1, readTo')
  <2>1. SubSeq(b, read.start, Len(b)) = SubSeq(t, p + read.start, p + Len(b))
    <3>1. PICK m : m = read.start
      OBVIOUS
    <3>2. m \in Nat \ {0} /\ m <= Len(b) + 1 /\ Len(b) <= Len(b) /\ Len(b) \in Nat
      BY <1>5, <1>7, <3>1
    <3>3. SubSeq(b, m, Len(b)) = SubSeq(t, p + m, p + Len(b))
      BY <1>4, <1>17, <3>2, LineOfChunk
    <3>4. QED
      BY <3>1, <3>3
  <2>2. QED
    BY <1>2, <1>5, <1>10, <2>1
<1>12. NoWholeLine(buf')
  <2>1. ASSUME NEW j \in 1 .. Len(buf'), buf'[j] \in {"n", "r"}
        PROVE  j = Len(buf') /\ buf'[j] = "r"
    <3>1. read.start + j - 1 \in read.start .. Len(b) /\ buf'[j] = b[read.start + j - 1]
      <4>1. PICK m \in 1 .. Len(b) + 1 : m = read.start
        BY <1>7
      <4>2. j \in 1 .. Len(b) - m + 1
        BY <1>9, <4>1
      <4>3. m + j - 1 \in m .. Len(b)
        BY <1>5, <4>1, <4>2
      <4>4. buf'[j] = b[m + j - 1]
        BY <1>9, <4>1, <4>2
      <4>5. QED
        BY <4>1, <4>3, <4>4
    <3>2. read.start + j - 1 = Len(b) /\ b[read.start + j - 1] = "r"
      BY <1>8, <2>1, <3>1 DEF NoLineFrom
    <3>3. QED
      BY <1>5, <1>7, <1>9, <3>1, <3>2
  <2>2. QED
    BY <2>1 DEF NoWholeLine, NoLineFrom
<1>13. SoFar' = read.at
  BY <1>2, <1>7 DEF SoFar, Given
<1>14. LineWaits'
  BY <1>2, <1>7, <1>10, <1>11, <1>12, <1>13 DEF LineWaits, t
<1>15. EventTextTypeOK'
  <2>1. fields' \in Fields /\ given' \in Seq(Fields)
    BY <1>2, <1>7 DEF Given
  <2>2. readTo' \in 0 .. Len(t')
    BY <1>1, <1>2
  <2>3. QED
    <3>1. t' \in Seq(Letters) /\ buf' \in Seq(Letters) /\ ended' \in BOOLEAN
      BY <1>1, <1>2, <1>9 DEF TextInv, EventTextTypeOK
    <3>2. QED
      BY <2>1, <2>2, <3>1 DEF EventTextTypeOK, t
<1>16. QED
  BY <1>1, <1>2, <1>14, <1>15 DEF TextInv

\* The end of the stream.
LEMMA LastChunkKeeps ==
  ASSUME TextInv, End
  PROVE  TextInv'
<1> DEFINE t == streamed
           p == LineFrom
           s == SoFar
           l == IF buf # <<>> /\ Last(buf) = "r" THEN Front(buf) ELSE buf
           a == IF buf # <<>> THEN AfterLine(s, l) ELSE s
           N == Len(t)
           r == ByLetter(t)[N]
<1>1. /\ t \in Seq(Letters) /\ buf \in Seq(Letters) /\ s \in Given /\ ~ended /\ N \in Nat
      /\ p \in Nat /\ buf = SubSeq(t, p + 1, N) /\ LineStarts(t, p, s) /\ NoWholeLine(buf)
      /\ p <= N /\ Len(buf) = N - p /\ readTo = N
  <2>1. ~ended /\ readTo = N /\ LineWaits /\ EventTextTypeOK
    BY DEF TextInv, End
  <2>2. Len(buf) \in Nat
    BY <2>1 DEF EventTextTypeOK
  <2>3. QED
    BY <2>1, <2>2 DEF EventTextTypeOK, LineWaits, LineFrom, SoFar, Given
<1>2. /\ ended' = TRUE /\ buf' = <<>> /\ t' = t /\ readTo' = readTo
      /\ fields' = AfterLine(a, <<>>).fields /\ given' = AfterLine(a, <<>>).out
  BY DEF End, SoFar
<1> HIDE DEF p, t, s
<1>3. /\ Len(buf) \in Nat /\ (buf # <<>> => Len(buf) \in 1 .. Len(buf)) /\ p + Len(buf) = N
      /\ \A j \in 1 .. Len(buf) : buf[j] = t[p + j]
  <2>1. \A j \in 1 .. N - p : SubSeq(t, p + 1, N)[j] = t[p + j]
    BY <1>1, PieceFacts
  <2>2. \A j \in 1 .. Len(buf) : buf[j] = t[p + j]
    BY <1>1, <2>1
  <2>3. Len(buf) \in Nat /\ (buf # <<>> => Len(buf) >= 1)
    BY <1>1
  <2>4. p + Len(buf) = N
    <3> HIDE DEF N
    <3>1. QED
      BY <1>1
  <2>5. QED
    BY <2>2, <2>3, <2>4
<1>4. l \in Seq(Letters) /\ a \in Given
  <2>1. buf # <<>> => Front(buf) \in Seq(Letters)
    <3>1. buf # <<>> => Len(buf) - 1 \in Nat /\ Len(buf) - 1 <= Len(buf)
      BY <1>3
    <3>2. QED
      BY <1>1, <3>1, PieceTyped DEF Front
  <2>2. l \in Seq(Letters)
    BY <1>1, <2>1
  <2> HIDE DEF l
  <2>3. QED
    BY <1>1, <2>2, AfterLineFacts
<1>5. AfterLine(AfterLine(r.at, r.line), <<>>) = AfterLine(a, <<>>)
  <2>1. CASE buf = <<>>
    <3>1. p = N /\ a = s
      <4>1. Len(buf) = 0 /\ a = s
        BY <2>1
      <4> HIDE DEF N, a
      <4>2. QED
        BY <1>1, <4>1
    <3>2. r = [line |-> <<>>, at |-> s]
      BY <1>1, <3>1 DEF LineStarts
    <3>3. AfterLine(r.at, r.line) = AfterLine(s, <<>>)
      BY <3>2
    <3>4. QED
      BY <1>1, <3>1, <3>3, TwoEmpty
  <2>2. CASE buf # <<>> /\ Last(buf) # "r"
    <3>1. \A j \in p + 1 .. N : t[j] \notin {"n", "r"}
      <4>1. ASSUME NEW j \in p + 1 .. N PROVE t[j] \notin {"n", "r"}
        <5>1. j - p \in 1 .. Len(buf) /\ p + (j - p) = j
          BY <1>1, <1>3
        <5>2. QED
          BY <1>1, <1>3, <2>2, <5>1 DEF NoWholeLine, NoLineFrom, Last
      <4>2. QED
        BY <4>1
    <3>2. r = [line |-> SubSeq(t, p + 1, N), at |-> s]
      <4>1. N <= Len(t) /\ p <= N /\ N \in Nat /\ t \in Seq(Letters) /\ LineStarts(t, p, s)
        BY <1>1
      <4> HIDE DEF N
      <4>2. ByLetter(t)[N] = [line |-> SubSeq(t, p + 1, N), at |-> s]
        BY <3>1, <4>1, LineGrows
      <4>3. QED
        BY <4>2
    <3>3. a = AfterLine(s, buf)
      BY <2>2
    <3>4. AfterLine(r.at, r.line) = AfterLine(s, buf)
      BY <1>1, <3>2
    <3>5. QED
      BY <3>3, <3>4
  <2>3. CASE buf # <<>> /\ Last(buf) = "r"
    <3>1. /\ Len(buf) \in 1 .. Len(buf) /\ N \in p + 1 .. N /\ t[N] = "r" /\ N - 1 = p + (Len(buf) - 1)
          /\ Len(buf) - 1 \in Nat
      <4>1. Len(buf) \in 1 .. Len(buf) /\ buf[Len(buf)] = "r"
        BY <1>3, <2>3 DEF Last
      <4>2. t[p + Len(buf)] = "r"
        BY <1>3, <4>1
      <4> HIDE DEF N
      <4>3. Len(buf) - 1 \in Nat /\ N - 1 = p + (Len(buf) - 1) /\ N \in p + 1 .. N
        BY <1>1, <1>3, <4>1
      <4>4. QED
        BY <1>3, <4>1, <4>2, <4>3
    <3>2. \A j \in p + 1 .. N - 1 : t[j] \notin {"n", "r"}
      <4>1. ASSUME NEW j \in p + 1 .. N - 1 PROVE t[j] \notin {"n", "r"}
        <5>1. j - p \in 1 .. Len(buf) /\ p + (j - p) = j /\ j - p # Len(buf)
          BY <1>1, <1>3
        <5>2. QED
          BY <1>1, <1>3, <5>1 DEF NoWholeLine, NoLineFrom
      <4>2. QED
        BY <4>1
    <3>3. LET q == IF t[N] = "r" /\ N < Len(t) /\ t[N + 1] = "n" THEN N + 1 ELSE N
          IN LineStarts(t, q, AfterLine(s, SubSeq(t, p + 1, N - 1)))
      BY <1>1, <3>1, <3>2, LineEnds
    <3>4. LineStarts(t, N, AfterLine(s, SubSeq(t, p + 1, N - 1)))
      <4>1. ~(N < Len(t))
        BY <1>1
      <4>2. QED
        BY <3>3, <4>1
    <3>5. SubSeq(t, p + 1, N - 1) = Front(buf)
      <4>1. 1 \in Nat \ {0} /\ 1 <= (Len(buf) - 1) + 1 /\ Len(buf) - 1 <= Len(buf)
        BY <3>1
      <4>2. SubSeq(buf, 1, Len(buf) - 1) = SubSeq(t, p + 1, p + (Len(buf) - 1))
        BY <1>1, <1>3, <3>1, <4>1, LineOfChunk
      <4>3. QED
        BY <3>1, <4>2 DEF Front
    <3>6. a = AfterLine(s, Front(buf))
      BY <2>3
    <3>7. r = [line |-> <<>>, at |-> a]
      BY <3>4, <3>5, <3>6 DEF LineStarts
    <3> HIDE DEF a, r
    <3>8. QED
      BY <1>4, <3>7, TwoEmpty
  <2>4. QED
    BY <2>1, <2>2, <2>3
<1>6. EventsOf(t) = given'
  BY <1>2, <1>5 DEF EventsOf
<1>7. AfterLine(a, <<>>) \in Given
  <2> HIDE DEF a
  <2>1. <<>> \in Seq(Letters)
    OBVIOUS
  <2>2. QED
    BY <1>4, <2>1, AfterLineFacts
<1>8. fields' \in Fields /\ given' \in Seq(Fields)
  <2> HIDE DEF a
  <2>1. QED
    BY <1>2, <1>7 DEF Given
<1> HIDE DEF a, r
<1>9. EventTextTypeOK'
  BY <1>1, <1>2, <1>8 DEF EventTextTypeOK, t
<1>10. QED
  BY <1>2, <1>6, <1>9 DEF TextInv, t

\* Letters read later only add to what was given.
LEMMA GivenGrows ==
  ASSUME NEW t \in Seq(Letters), NEW p \in 0 .. Len(t)
  PROVE  Starts(ByLetter(t)[p].at.out, EventsOf(t))
<1> DEFINE o(n) == ByLetter(t)[n].at.out
           P == {k \in Nat : p + k <= Len(t) => Starts(o(p), o(p + k))}
<1>1. Len(t) \in Nat /\ p \in Nat /\ p <= Len(t)
  OBVIOUS
<1>2. ASSUME NEW n \in 0 .. Len(t)
      PROVE  ByLetter(t)[n].at \in Given /\ ByLetter(t)[n].line \in Seq(Letters) /\ o(n) \in Seq(Fields)
  <2>1. ByLetter(t)[n] \in Reading
    BY ByLetterSteps
  <2>2. QED
    BY <2>1 DEF Reading, Given
<1>3. ASSUME NEW n \in Nat, n + 1 <= Len(t) PROVE Starts(o(n), o(n + 1))
  <2> DEFINE r == ByLetter(t)[n]
  <2>1. n \in 0 .. Len(t) /\ n + 1 \in 1 .. Len(t) /\ (n + 1) - 1 = n
    BY <1>1, <1>3
  <2>2. ByLetter(t)[n + 1] = IF SecondHalf(t, n + 1) THEN r
                             ELSE IF t[n + 1] \in {"n", "r"}
                             THEN [line |-> <<>>, at |-> AfterLine(r.at, r.line)]
                             ELSE [line |-> Append(r.line, t[n + 1]), at |-> r.at]
    BY <2>1, ByLetterSteps
  <2>3. r.at \in Given /\ r.line \in Seq(Letters) /\ r.at.out \in Seq(Fields)
    BY <1>2, <2>1
  <2> HIDE DEF r
  <2>4. Starts(r.at.out, AfterLine(r.at, r.line).out) /\ Starts(r.at.out, r.at.out)
    <3>1. Starts(r.at.out, r.at.out)
      BY <2>3 DEF Starts
    <3>2. QED
      BY <2>3, <3>1, AfterLineFacts
  <2>5. ByLetter(t)[n + 1].at = r.at \/ ByLetter(t)[n + 1].at = AfterLine(r.at, r.line)
    BY <2>2
  <2>6. Starts(r.at.out, ByLetter(t)[n + 1].at.out)
    BY <2>4, <2>5
  <2>7. QED
    BY <2>6 DEF r
<1>4. 0 \in P
  <2>1. p + 0 = p /\ Starts(o(p), o(p))
    BY <1>1, <1>2 DEF Starts
  <2>2. QED
    BY <2>1
<1>5. ASSUME NEW k \in Nat, k \in P PROVE k + 1 \in P
  <2> SUFFICES ASSUME p + (k + 1) <= Len(t) PROVE Starts(o(p), o(p + (k + 1)))
    OBVIOUS
  <2>1. p + k \in 0 .. Len(t) /\ p + (k + 1) = (p + k) + 1 /\ p + k + 1 \in 0 .. Len(t) /\ p + k \in Nat
    BY <1>1
  <2>2. Starts(o(p), o(p + k))
    BY <1>5, <2>1
  <2>3. Starts(o(p + k), o((p + k) + 1))
    BY <1>3, <2>1
  <2>4. o(p) \in Seq(Fields) /\ o(p + k) \in Seq(Fields) /\ o((p + k) + 1) \in Seq(Fields)
    BY <1>2, <2>1
  <2> HIDE DEF o
  <2>5. QED
    BY <2>1, <2>2, <2>3, <2>4, StartsTransitive
<1>6. Starts(o(p), o(Len(t)))
  <2>1. Len(t) - p \in P
    <3> HIDE DEF P
    <3>1. QED
      BY <1>1, <1>4, <1>5, Induction
  <2>2. p + (Len(t) - p) = Len(t)
    BY <1>1
  <2>3. QED
    BY <1>1, <2>1, <2>2
<1>7. QED
  <2> DEFINE r == ByLetter(t)[Len(t)]
             x == AfterLine(r.at, r.line)
             y == AfterLine(x, <<>>)
  <2>1. r.at \in Given /\ r.line \in Seq(Letters) /\ r.at.out \in Seq(Fields) /\ o(p) \in Seq(Fields)
    BY <1>1, <1>2
  <2>2. EventsOf(t) = y.out
    BY DEF EventsOf
  <2>3. Starts(o(p), r.at.out)
    BY <1>6
  <2> HIDE DEF r, o
  <2>4. x \in Given /\ Starts(r.at.out, x.out)
    BY <2>1, AfterLineFacts
  <2> HIDE DEF x
  <2>5. y \in Given /\ Starts(x.out, y.out)
    <3>1. <<>> \in Seq(Letters)
      OBVIOUS
    <3>2. QED
      BY <2>4, <3>1, AfterLineFacts
  <2>6. x.out \in Seq(Fields) /\ y.out \in Seq(Fields)
    BY <2>4, <2>5 DEF Given
  <2> HIDE DEF y
  <2>7. Starts(o(p), x.out)
    BY <2>1, <2>3, <2>4, <2>6, StartsTransitive
  <2>8. Starts(o(p), y.out)
    BY <2>1, <2>5, <2>6, <2>7, StartsTransitive
  <2>9. QED
    BY <2>2, <2>8 DEF o

\* The two words for a beginning.
LEMMA StartsIsPrefix ==
  ASSUME NEW X, NEW a \in Seq(X), NEW b \in Seq(X), Starts(a, b)
  PROVE  IsPrefix(a, b)
<1>1. /\ Len(a) \in Nat /\ Len(b) \in Nat /\ Len(a) <= Len(b) /\ \A i \in 1 .. Len(a) : a[i] = b[i]
      /\ 0 \in Nat /\ 0 <= Len(a) /\ Len(a) - 0 = Len(a) /\ 0 + 1 = 1
      /\ \A i \in 1 .. Len(a) : 0 + i = i
  BY DEF Starts
<1> DEFINE x == SubSeq(a, 1, Len(a))
           y == SubSeq(b, 1, Len(a))
<1>2. x \in Seq(X) /\ Len(x) = Len(a) /\ \A i \in 1 .. Len(a) : x[i] = a[i]
  <2>1. \A i \in 1 .. Len(a) : 1 + i - 1 = i
    OBVIOUS
  <2>2. (IF 1 <= Len(a) THEN Len(a) - 1 + 1 ELSE 0) = Len(a) /\ Len(a) - 1 + 1 = Len(a) /\ 1 \in Nat \ {0}
    BY <1>1
  <2>3. QED
    BY <1>1, <2>1, <2>2, PieceTyped
<1>3. y \in Seq(X) /\ Len(y) = Len(a) /\ \A i \in 1 .. Len(a) : y[i] = b[i]
  <2>1. \A i \in 1 .. Len(a) : 1 + i - 1 = i
    OBVIOUS
  <2>2. (IF 1 <= Len(a) THEN Len(a) - 1 + 1 ELSE 0) = Len(a) /\ Len(a) - 1 + 1 = Len(a) /\ 1 \in Nat \ {0}
    BY <1>1
  <2>3. QED
    BY <1>1, <2>1, <2>2, PieceTyped
<1> HIDE DEF x, y
<1>4. x = y
  BY <1>1, <1>2, <1>3, SeqEqual
<1>5. QED
  BY <1>1, <1>4 DEF IsPrefix, x, y

\* The reader starts before the first line.
LEMMA TextStarts ==
  ASSUME EventTextInit PROVE TextInv
<1>1. streamed \in Seq(Letters) /\ Len(streamed) \in Nat
  <2>1. PICK n \in 0 .. MaxText : streamed \in [1 .. n -> Letters]
    BY DEF EventTextInit, Streams
  <2>2. n \in Nat
    BY <2>1, LettersAssumption
  <2>3. QED
    BY <2>1, <2>2
<1>2. readTo = 0 /\ buf = <<>> /\ fields = NoFields /\ given = <<>> /\ ended = FALSE
  BY DEF EventTextInit
<1>3. EventTextTypeOK
  <2>1. <<>> \in Seq(Fields) /\ <<>> \in Seq(Letters) /\ FALSE \in BOOLEAN /\ 0 \in 0 .. Len(streamed)
    BY <1>1
  <2>2. NoFields \in Fields
    BY NobodyTyped
  <2>3. QED
    BY <1>1, <1>2, <2>1, <2>2 DEF EventTextTypeOK
<1>4. LineFrom = 0 /\ SoFar = Nobody /\ NoWholeLine(buf)
  <2>1. Len(buf) = 0
    BY <1>2
  <2>2. LineFrom = 0
    <3>1. LineFrom = 0 - 0
      BY <1>2, <2>1 DEF LineFrom
    <3>2. QED
      BY <3>1
  <2>3. NoWholeLine(buf)
    BY <2>1 DEF NoWholeLine, NoLineFrom
  <2>4. QED
    BY <1>2, <2>2, <2>3 DEF SoFar, Nobody
<1>5. buf = SubSeq(streamed, LineFrom + 1, readTo)
  <2>1. SubSeq(streamed, 0 + 1, 0) = <<>>
    BY <1>1, SubSeqEmpty
  <2>2. QED
    BY <1>2, <1>4, <2>1
<1>6. LineStarts(streamed, LineFrom, SoFar)
  <2>1. ByLetter(streamed)[0] = [line |-> <<>>, at |-> Nobody]
    BY <1>1, ByLetterSteps
  <2>2. ~SecondHalf(streamed, 0 + 1)
    BY DEF SecondHalf
  <2>3. QED
    BY <1>1, <1>4, <2>1, <2>2 DEF LineStarts
<1>7. QED
  BY <1>2, <1>3, <1>4, <1>5, <1>6 DEF TextInv, LineWaits

\* The invariant says that chunks do not matter.
LEMMA InvSaysSo ==
  ASSUME TextInv PROVE ChunksDoNotMatter
<1>1. streamed \in Seq(Letters) /\ given \in Seq(Fields) /\ Len(streamed) \in Nat
  BY DEF TextInv, EventTextTypeOK
<1>2. EventsOf(streamed) \in Seq(Fields)
  <2> DEFINE r == ByLetter(streamed)[Len(streamed)]
             x == AfterLine(r.at, r.line)
  <2>1. r \in Reading
    BY <1>1, ByLetterSteps
  <2> HIDE DEF r
  <2>2. r.at \in Given /\ r.line \in Seq(Letters) /\ <<>> \in Seq(Letters)
    BY <2>1 DEF Reading
  <2>3. x \in Given
    BY <2>2, AfterLineFacts
  <2> HIDE DEF x
  <2>4. AfterLine(x, <<>>) \in Given
    BY <2>2, <2>3, AfterLineFacts
  <2>5. AfterLine(x, <<>>).out \in Seq(Fields)
    BY <2>4 DEF Given
  <2>6. QED
    BY <2>5 DEF EventsOf, x, r
<1>3. Starts(given, EventsOf(streamed))
  <2>1. CASE ended
    BY <1>1, <2>1 DEF TextInv, Starts
  <2>2. CASE ~ended
    <3>1. LineStarts(streamed, LineFrom, SoFar)
      BY <2>2 DEF TextInv, LineWaits
    <3>2. LineFrom \in 0 .. Len(streamed) /\ ByLetter(streamed)[LineFrom].at.out = given
      BY <3>1 DEF LineStarts, SoFar
    <3>3. QED
      BY <1>1, <3>2, GivenGrows
  <2>3. QED
    BY <2>1, <2>2
<1>4. IsPrefix(given, EventsOf(streamed))
  BY <1>1, <1>2, <1>3, StartsIsPrefix
<1>5. QED
  BY <1>4 DEF ChunksDoNotMatter, TextInv

\* Every chunk, and the end of the text, keeps it.
LEMMA TextStep ==
  TextInv /\ [EventTextNext]_textVars => TextInv'
<1> SUFFICES ASSUME TextInv, [EventTextNext]_textVars PROVE TextInv'
  OBVIOUS
<1>1. CASE End
  BY <1>1, LastChunkKeeps
<1>2. CASE \E n \in 1 .. Len(streamed) : PushChunk(n)
  <2>1. PICK n \in 1 .. Len(streamed) : PushChunk(n)
    BY <1>2
  <2>2. QED
    BY <2>1, PushKeeps
<1>3. CASE UNCHANGED textVars
  BY <1>3 DEF textVars, TextInv, EventTextTypeOK, LineWaits, LineFrom, SoFar
<1>4. QED
  BY <1>1, <1>2, <1>3 DEF EventTextNext

\* The reader keeps letters that are not a whole line yet, the fields of an
\* event, and the events handed on, whatever text the server sends (lib/sse.ts).
THEOREM TextTypes == EventTextSpec => []EventTextTypeOK
<1>1. TextInv => EventTextTypeOK
  BY DEF TextInv
<1>2. EventTextInit => TextInv
  BY TextStarts
<1>3. QED
  BY <1>1, <1>2, TextStep, PTL DEF EventTextSpec

\* However a text of any length is cut into chunks, what was handed on is the
\* beginning of the events of the whole text, and all of them at its end.
THEOREM ChunksAreJoined ==
  EventTextSpec => []ChunksDoNotMatter
<1>1. EventTextInit => TextInv
  BY TextStarts
<1>2. TextInv => ChunksDoNotMatter
  BY InvSaysSo
<1>3. QED
  BY <1>1, <1>2, TextStep, PTL DEF EventTextSpec
=============================================================================
