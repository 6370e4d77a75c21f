-------------------------- MODULE WebServerProofs --------------------------
(***************************************************************************)
(* Proofs about WebServer for any finite set of torrents, any page size    *)
(* and any query: the types, that a visitor of the sitemap misses nothing, *)
(* and that the rows of a search fit its number of pages.                  *)
(*                                                                         *)
(* Neither result is inductive.  For the sitemap the invariant says that   *)
(* the rows before the visitor's page were shown, unless they are new      *)
(* (Shown): an insertion only moves rows away from the front.  The offset  *)
(* of that page does not overflow, because no row is in the table twice    *)
(* (Distinct) and the torrents can be counted.  For the search it says     *)
(* that the count is still right while the read lock is held (Counted).    *)
(***************************************************************************)
EXTENDS WebServer, SequenceTheorems, FiniteSetTheorems, TLAPS

SitemapRecord ==
    [at : {"idle", "list", "count", "end", "cut", "error"},
     page : Nat, start : SUBSET Torrent, seen : SUBSET Torrent]
SearchRecord ==
    [at : {"count", "list", "answer"}, by : {"fts", "like"}, page : Nat \ {0},
     total : Nat, results : Seq(Torrent), err : BOOLEAN]

\* The row up to which the visitor has been shown the table.
ShownTo == IF sitemap.at = "list" THEN RowsBefore(sitemap.page)
                                  ELSE RowsBefore(sitemap.page) + PerPage

Shown ==
    sitemap.at \in {"list", "count"} =>
        /\ sitemap.page \in Nat \ {0} /\ ~Overflows(sitemap.page)
        /\ sitemap.start \subseteq ToSet(rows)
        /\ \A j \in DOMAIN rows :
              j <= ShownTo /\ rows[j] \in sitemap.start => rows[j] \in sitemap.seen

Counted == find.at = "list" => find.total = Cardinality(Hits(find.by))

Distinct == Cardinality(ToSet(rows)) = Len(rows)

WebInv ==
    WebTypeOK /\ Distinct /\ Shown /\ Counted /\ SitemapComplete /\ SearchPageFits
-----------------------------------------------------------------------------
\* Where a page begins.
LEMMA PageStart ==
    ASSUME NEW page \in Nat \ {0}
    PROVE  /\ RowsBefore(page) \in Nat
           /\ RowsBefore(page + 1) = RowsBefore(page) + PerPage
<1>1. PerPage \in Nat
  BY WebAssumption
<1>2. PICK k \in Nat : page = k + 1
  <2>1. page - 1 \in Nat /\ page = (page - 1) + 1
    OBVIOUS
  <2> QED BY <2>1
<1>3. RowsBefore(page) = k * PerPage /\ RowsBefore(page + 1) = (k + 1) * PerPage
  <2>1. page - 1 = k /\ (page + 1) - 1 = k + 1
    BY <1>2
  <2> QED BY <2>1 DEF RowsBefore
<1>4. k * PerPage \in Nat /\ (k + 1) * PerPage = k * PerPage + PerPage
  BY <1>1
<1> QED BY <1>3, <1>4

\* The last page ends behind the last row.
LEMMA LastPage ==
    ASSUME NEW page \in Nat \ {0}, NEW total \in Nat, ~HasNext(page, total)
    PROVE  total <= RowsBefore(page) + PerPage
<1> DEFINE a == total + PerPage - 1
           n == a \div PerPage
<1>1. PerPage \in Nat \ {0} /\ a \in Nat
  BY WebAssumption
<1>2. n \in Nat /\ a % PerPage \in 0..(PerPage - 1)
  BY <1>1
<1>3. a = PerPage * n + (a % PerPage) /\ PerPage * n \in Nat
  BY <1>1, <1>2
<1>4. TotalPages(total) = n /\ a = total + PerPage - 1
  BY DEF TotalPages
<1> HIDE DEF a, n
<1>5. n <= page
  BY <1>2, <1>4 DEF HasNext
<1>6. PICK k \in Nat : page = n + k
  <2>1. page - n \in Nat /\ page = n + (page - n)
    BY <1>2, <1>5
  <2> QED BY <2>1
<1>7. RowsBefore(page) + PerPage = RowsBefore(page + 1)
  BY PageStart
<1>8. RowsBefore(page + 1) = page * PerPage
  <2>1. (page + 1) - 1 = page
    OBVIOUS
  <2> QED BY <2>1 DEF RowsBefore
<1>9. page * PerPage = PerPage * n + k * PerPage /\ k * PerPage \in Nat
  BY <1>1, <1>2, <1>6
<1> QED BY <1>1, <1>2, <1>3, <1>4, <1>7, <1>8, <1>9

\* A page that a link leads to begins before the last row.
LEMMA NextPage ==
    ASSUME NEW page \in Nat \ {0}, NEW total \in Nat, HasNext(page, total)
    PROVE  RowsBefore(page + 1) < total
<1> DEFINE a == total + PerPage - 1
           n == a \div PerPage
<1>1. PerPage \in Nat \ {0} /\ a \in Nat
  BY WebAssumption
<1>2. n \in Nat /\ a % PerPage \in 0..(PerPage - 1)
  BY <1>1
<1>3. a = PerPage * n + (a % PerPage) /\ PerPage * n \in Nat
  BY <1>1, <1>2
<1>4. TotalPages(total) = n /\ a = total + PerPage - 1
  BY DEF TotalPages
<1> HIDE DEF a, n
<1>5. page < n
  BY <1>4 DEF HasNext
<1>6. PICK k \in Nat : n = page + 1 + k
  <2>1. n - page - 1 \in Nat /\ n = page + 1 + (n - page - 1)
    BY <1>2, <1>5
  <2> QED BY <2>1
<1>7. RowsBefore(page + 1) = page * PerPage
  <2>1. (page + 1) - 1 = page
    OBVIOUS
  <2> QED BY <2>1 DEF RowsBefore
<1>8. /\ PerPage * n = page * PerPage + PerPage + k * PerPage
      /\ k * PerPage \in Nat /\ page * PerPage \in Nat
  BY <1>1, <1>2, <1>6
<1> QED BY <1>1, <1>2, <1>3, <1>4, <1>7, <1>8

\* A remainder below the divisor is the number itself.
LEMMA SmallRemainder ==
    ASSUME NEW m \in Nat \ {0}, NEW x \in Nat, x < m
    PROVE  x % m = x
<1> DEFINE q == x \div m
           r == x % m
<1>1. q \in Nat /\ r \in 0..(m - 1) /\ x = m * q + r
  OBVIOUS
<1> HIDE DEF q, r
<1>2. q = 0
  <2> SUFFICES ASSUME q # 0 PROVE FALSE
    OBVIOUS
  <2>1. PICK k \in Nat : q = k + 1
    <3>1. q - 1 \in Nat /\ q = (q - 1) + 1
      BY <1>1
    <3> QED BY <3>1
  <2>2. m * q = m * k + m /\ m * k \in Nat
    BY <2>1
  <2> QED BY <1>1, <2>2
<1>3. m * q = 0
  BY <1>2
<1>4. x = r
  BY <1>1, <1>3
<1> QED BY <1>4 DEF r

\* The offset of a page, unless it overflows, is the number of rows before it.
LEMMA OffsetIs ==
    ASSUME NEW page \in Nat \ {0}
    PROVE  /\ Offset(page) \in Int
           /\ ~Overflows(page) => Offset(page) = RowsBefore(page)
<1> DEFINE n == RowsBefore(page)
           m == 2 * (MaxInt + 1)
           x == n + MaxInt + 1
<1>1. n \in Nat /\ MaxInt \in Nat
  BY PageStart, WebAssumption
<1> HIDE DEF n
<1>2. m \in Nat \ {0} /\ x \in Nat
  BY <1>1
<1>3. Offset(page) = (x % m) - (MaxInt + 1)
  BY DEF Offset, Wrap, n
<1>4. x % m \in Nat
  <2> HIDE DEF x, m
  <2> QED BY <1>2
<1>5. ASSUME n <= MaxInt PROVE x % m = x
  <2>1. x < m
    BY <1>1, <1>5
  <2> HIDE DEF x, m
  <2> QED BY <1>2, <2>1, SmallRemainder
<1>6. Offset(page) \in Int
  <2> HIDE DEF x, m
  <2> QED BY <1>1, <1>3, <1>4
<1>7. ASSUME n <= MaxInt PROVE Offset(page) = n
  <2>1. Offset(page) = x - (MaxInt + 1)
    BY <1>3, <1>5, <1>7
  <2> QED BY <1>1, <2>1
<1>8. ~Overflows(page) => n <= MaxInt
  BY <1>1 DEF Overflows, n
<1> QED BY <1>6, <1>7, <1>8 DEF n

\* The lesser of two numbers.
LEMMA LeastIs ==
    ASSUME NEW a \in Nat, NEW c \in Nat
    PROVE  /\ Least(a, c) \in Nat /\ Least(a, c) <= a /\ Least(a, c) <= c
           /\ Least(a, c) = a \/ Least(a, c) = c
BY DEF Least

\* A slice of a sequence.
LEMMA Slice ==
    ASSUME NEW T, NEW s \in Seq(T), NEW m \in Nat \ {0}, NEW n \in Nat, n <= Len(s)
    PROVE  /\ SubSeq(s, m, n) \in Seq(T)
           /\ Len(SubSeq(s, m, n)) = IF m <= n THEN n - m + 1 ELSE 0
           /\ \A i \in 1..(n - m + 1) : SubSeq(s, m, n)[i] = s[m + i - 1]
OBVIOUS

\* A page: its rows, their number and which rows of the table they are.
LEMMA PageProperties ==
    ASSUME NEW T, NEW seq \in Seq(T), NEW off \in Nat
    PROVE  LET p == PageOf(seq, off)
               left == Len(seq) - off
           IN  /\ p \in Seq(T)
               /\ Len(p) = IF left < 0 THEN 0 ELSE Least(PerPage, left)
               /\ \A j \in DOMAIN seq :
                     off < j /\ j <= off + PerPage => seq[j] \in ToSet(p)
<1> DEFINE first == off + 1
           len == Len(seq)
           last == Least(off + PerPage, len)
           p == PageOf(seq, off)
<1>1. len \in Nat /\ DOMAIN seq = 1..len /\ \A i \in 1..len : seq[i] \in T
  OBVIOUS
<1>2. PerPage \in Nat \ {0}
  BY WebAssumption
<1>3. p = SubSeq(seq, first, last)
  <2>1. ~(off < 0)
    OBVIOUS
  <2> QED BY <2>1 DEF PageOf
<1> HIDE DEF len
<1>4. off + PerPage \in Nat
  BY <1>2
<1>5. /\ last \in Nat /\ last <= len /\ last <= off + PerPage
      /\ last = len \/ last = off + PerPage
  BY <1>1, <1>4, LeastIs
<1>6. first \in Nat \ {0} /\ first = off + 1
  OBVIOUS
<1> HIDE DEF first, last
<1>7. /\ SubSeq(seq, first, last) \in Seq(T)
      /\ Len(SubSeq(seq, first, last)) = IF first <= last THEN last - first + 1 ELSE 0
      /\ \A i \in 1..(last - first + 1) :
            SubSeq(seq, first, last)[i] = seq[first + i - 1]
  BY <1>5, <1>6, Slice DEF len
<1> DEFINE size == Len(p)
<1>8. size = IF first <= last THEN last - first + 1 ELSE 0
  BY <1>3, <1>7
<1>9. p \in Seq(T) /\ DOMAIN p = 1..size
  <2> HIDE DEF p
  <2> QED BY <1>3, <1>7
<1> HIDE DEF p, size
<1>10. size = IF len - off < 0 THEN 0 ELSE Least(PerPage, len - off)
  <2>1. CASE len - off < 0
    BY <1>1, <1>2, <1>5, <1>6, <1>8, <2>1
  <2>2. CASE ~(len - off < 0)
    <3>1. len - off \in Nat
      BY <1>1, <2>2
    <3>2. /\ Least(PerPage, len - off) \in Nat
          /\ Least(PerPage, len - off) <= PerPage
          /\ Least(PerPage, len - off) <= len - off
          /\ Least(PerPage, len - off) = PerPage \/ Least(PerPage, len - off) = len - off
      BY <1>2, <3>1, LeastIs
    <3> QED BY <1>1, <1>2, <1>5, <1>6, <1>8, <2>2, <3>1, <3>2
  <2> QED BY <2>1, <2>2
<1>11. ASSUME NEW j \in DOMAIN seq, off < j, j <= off + PerPage
       PROVE  seq[j] \in ToSet(p)
  <2>1. j \in 1..len /\ j <= last
    BY <1>1, <1>2, <1>5, <1>11
  <2>2. /\ j - off \in 1..(last - first + 1) /\ first + (j - off) - 1 = j
        /\ first <= last
    BY <1>1, <1>5, <1>6, <1>11, <2>1
  <2>3. p[j - off] = seq[first + (j - off) - 1]
    BY <1>3, <1>7, <2>2
  <2>4. j - off \in DOMAIN p
    BY <1>8, <1>9, <2>2
  <2> QED BY <2>2, <2>3, <2>4 DEF ToSet
<1> QED BY <1>9, <1>10, <1>11 DEF p, size, len

\* Whatever the offset, a page is no longer than a page.
LEMMA PageBound ==
    ASSUME NEW T, NEW seq \in Seq(T), NEW off \in Int
    PROVE  PageOf(seq, off) \in Seq(T) /\ Len(PageOf(seq, off)) <= PerPage
<1> DEFINE skip == IF off < 0 THEN 0 ELSE off
           left == Len(seq) - skip
<1>1. skip \in Nat
  OBVIOUS
<1>2. PageOf(seq, off) = PageOf(seq, skip)
  BY DEF PageOf
<1> HIDE DEF skip
<1>3. /\ PageOf(seq, skip) \in Seq(T)
      /\ Len(PageOf(seq, skip)) = IF left < 0 THEN 0 ELSE Least(PerPage, left)
  BY <1>1, PageProperties
<1>4. PerPage \in Nat /\ left \in Int
  BY <1>1, WebAssumption
<1> HIDE DEF left
<1>5. left \in Nat => Least(PerPage, left) <= PerPage
  BY <1>4, LeastIs
<1> QED BY <1>2, <1>3, <1>4, <1>5

\* InsertAt moves the rows from position i on one further.
LEMMA InsertAtProperties ==
    ASSUME NEW T, NEW s \in Seq(T), NEW e \in T, NEW i \in 1..(Len(s) + 1)
    PROVE  LET r == InsertAt(s, i, e)
           IN  /\ r \in Seq(T)
               /\ Len(r) = Len(s) + 1
               /\ r[i] = e
               /\ \A j \in 1..Len(s) : IF j < i THEN r[j] = s[j] ELSE r[j + 1] = s[j]
<1> DEFINE a == SubSeq(s, 1, i - 1)
           c == SubSeq(s, i, Len(s))
           ae == a \o <<e>>
<1>1. a \in Seq(T) /\ Len(a) = i - 1 /\ \A j \in 1..(i - 1) : a[j] = s[j]
  OBVIOUS
<1>2. /\ c \in Seq(T) /\ Len(c) = Len(s) - i + 1
      /\ \A j \in 1..(Len(s) - i + 1) : c[j] = s[i + j - 1]
  OBVIOUS
<1> HIDE DEF a, c
<1>3. ae = Append(a, e)
  BY <1>1
<1>4. /\ ae \in Seq(T) /\ Len(ae) = i /\ ae[i] = e
      /\ \A j \in 1..(i - 1) : ae[j] = s[j]
  BY <1>1, <1>3
<1> HIDE DEF ae
<1>5. ae \in Seq(T) /\ c \in Seq(T)
  BY <1>2, <1>4
<1>6. /\ ae \o c \in Seq(T) /\ Len(ae \o c) = Len(ae) + Len(c)
      /\ \A j \in 1..(Len(ae) + Len(c)) :
            (ae \o c)[j] = IF j <= Len(ae) THEN ae[j] ELSE c[j - Len(ae)]
  BY <1>5, ConcatProperties, Zenon
<1>7. InsertAt(s, i, e) = ae \o c
  BY DEF InsertAt, ae, a, c
<1> DEFINE r == InsertAt(s, i, e)
<1>8. /\ r \in Seq(T) /\ Len(r) = Len(s) + 1 /\ Len(s) \in Nat
      /\ \A j \in 1..(Len(s) + 1) : r[j] = IF j <= i THEN ae[j] ELSE c[j - i]
  <2>1. Len(ae) + Len(c) = Len(s) + 1 /\ Len(ae) = i /\ Len(s) \in Nat
    BY <1>2, <1>4
  <2> QED BY <1>6, <1>7, <2>1
<1> HIDE DEF r
<1>9. r[i] = e
  BY <1>4, <1>8
<1>10. ASSUME NEW j \in 1..Len(s)
       PROVE  IF j < i THEN r[j] = s[j] ELSE r[j + 1] = s[j]
  <2>1. CASE j < i
    <3>1. j \in 1..(i - 1) /\ j \in 1..(Len(s) + 1) /\ j <= i
      BY <1>8, <2>1
    <3> QED BY <1>4, <1>8, <2>1, <3>1
  <2>2. CASE ~(j < i)
    <3>1. /\ j + 1 \in 1..(Len(s) + 1) /\ ~(j + 1 <= i)
          /\ (j + 1) - i \in 1..(Len(s) - i + 1) /\ i + ((j + 1) - i) - 1 = j
      BY <1>8, <2>2
    <3>2. c[(j + 1) - i] = s[i + ((j + 1) - i) - 1]
      BY <1>2, <3>1
    <3> QED BY <1>8, <2>2, <3>1, <3>2
  <2> QED BY <2>1, <2>2
<1> QED BY <1>8, <1>9, <1>10 DEF r

\* The order of a set of torrents is a sequence with as many rows.
LEMMA OrderProperties ==
    ASSUME NEW S \in SUBSET Torrent, NEW seq \in SetToSeqs(S)
    PROVE  /\ Cardinality(S) \in Nat
           /\ seq \in Seq(Torrent) /\ Len(seq) = Cardinality(S)
           /\ ToSet(seq) = S
<1>1. IsFiniteSet(S)
  BY WebAssumption, FS_Subset
<1>2. Cardinality(S) \in Nat
  BY <1>1, FS_CardinalityType
<1>3. seq \in [1..Cardinality(S) -> S]
  BY DEF SetToSeqs
<1> DEFINE n == Cardinality(S)
<1> HIDE DEF n
<1>4. n \in Nat /\ seq \in [1..n -> S]
  BY <1>2, <1>3 DEF n
<1>5. seq \in [1..n -> Torrent]
  BY <1>4
<1>6. seq \in Seq(Torrent) /\ Len(seq) = n
  BY <1>4, <1>5
<1>7. seq \in Surjection(1..n, S)
  <2>1. seq \in Injection(1..n, S)
    BY <1>4 DEF SetToSeqs, n, Injection, IsInjective
  <2>2. Cardinality(1..n) = n
    <3>1. Cardinality(1..n) = IF 1 > n THEN 0 ELSE n - 1 + 1
      BY <1>4, FS_Interval
    <3> QED BY <1>4, <3>1
  <2> QED BY <1>1, <2>1, <2>2, FS_Injection DEF n
<1>8. ToSet(seq) = S
  BY <1>4, <1>7 DEF Surjection, ToSet
<1> QED BY <1>2, <1>6, <1>8 DEF n

\* The types, with the names of the two records.
LEMMA WebTypes ==
    WebTypeOK <=> /\ rows \in Seq(Torrent) /\ open \in BOOLEAN
                  /\ sitemap \in SitemapRecord
                  /\ find = NoSearch \/ find \in SearchRecord
BY DEF WebTypeOK, SitemapRecord, SearchRecord

\* A step of the visitor leaves the search alone.
LEMMA SitemapStep ==
    ASSUME WebInv, UNCHANGED <<rows, open, find>>,
           sitemap' \in SitemapRecord, Shown', SitemapComplete'
    PROVE  WebInv'
<1>1. WebTypeOK'
  BY WebTypes DEF WebInv, WebTypeOK, SitemapRecord, SearchRecord, NoSearch
<1>2. Counted' /\ SearchPageFits' /\ Distinct'
  BY DEF WebInv, Counted, Hits, SearchPageFits, RowsBefore, Overflows, Least, Distinct
<1> QED BY <1>1, <1>2 DEF WebInv

\* A step of the search leaves the visitor alone.
LEMMA SearchStep ==
    ASSUME WebInv, UNCHANGED <<rows, open, sitemap>>,
           find' = NoSearch \/ find' \in SearchRecord, Counted', SearchPageFits'
    PROVE  WebInv'
<1>1. WebTypeOK'
  <2>1. NoSearch' = NoSearch /\ SearchRecord' = SearchRecord
    BY DEF NoSearch, SearchRecord
  <2> QED BY <2>1 DEF WebInv, WebTypeOK, SearchRecord
<1>2. Shown' /\ SitemapComplete' /\ Distinct'
  BY DEF WebInv, Shown, ShownTo, SitemapComplete, RowsBefore, Overflows, Distinct
<1> QED BY <1>1, <1>2 DEF WebInv

\* A job inserts a row.
LEMMA InsertInv ==
    ASSUME WebInv, NEW t \in Torrent, InsertTorrent(t)
    PROVE  WebInv'
<1>1. /\ ~RLocked /\ t \notin ToSet(rows)
      /\ UNCHANGED <<open, sitemap, find>>
  BY DEF InsertTorrent
<1>2. PICK i \in 1..(Len(rows) + 1) : rows' = InsertAt(rows, i, t)
  BY DEF InsertTorrent
<1>3. rows \in Seq(Torrent) /\ sitemap \in SitemapRecord
  BY WebTypes DEF WebInv
<1>4. /\ rows' \in Seq(Torrent) /\ Len(rows') = Len(rows) + 1 /\ rows'[i] = t
      /\ \A j \in 1..Len(rows) :
            IF j < i THEN rows'[j] = rows[j] ELSE rows'[j + 1] = rows[j]
  BY <1>2, <1>3, InsertAtProperties
<1>5. /\ Len(rows) \in Nat /\ DOMAIN rows = 1..Len(rows)
      /\ DOMAIN rows' = 1..(Len(rows) + 1)
  BY <1>3, <1>4
<1>6. WebTypeOK'
  BY <1>1, <1>4 DEF WebInv, WebTypeOK, NoSearch
<1>7. Counted' /\ SearchPageFits' /\ SitemapComplete'
  BY <1>1 DEF WebInv, Counted, RLocked, SearchPageFits, SitemapComplete,
     RowsBefore, Overflows, Least
<1>8. ToSet(rows) \subseteq ToSet(rows')
  <2> SUFFICES ASSUME NEW j \in DOMAIN rows PROVE rows[j] \in ToSet(rows')
    BY DEF ToSet
  <2>1. j \in 1..Len(rows) /\ j \in DOMAIN rows' /\ j + 1 \in DOMAIN rows'
    BY <1>5
  <2>2. rows'[j] = rows[j] \/ rows'[j + 1] = rows[j]
    BY <1>4, <2>1
  <2> QED BY <2>1, <2>2 DEF ToSet
<1>9. Shown'
  <2> SUFFICES ASSUME sitemap.at \in {"list", "count"}
               PROVE  /\ sitemap.page \in Nat \ {0} /\ ~Overflows(sitemap.page)
                      /\ sitemap.start \subseteq ToSet(rows')
                      /\ \A j \in DOMAIN rows' :
                            j <= ShownTo /\ rows'[j] \in sitemap.start
                               => rows'[j] \in sitemap.seen
    BY <1>1 DEF Shown, ShownTo, RowsBefore, Overflows
  <2>1. /\ sitemap.page \in Nat \ {0} /\ ~Overflows(sitemap.page)
        /\ sitemap.start \subseteq ToSet(rows)
        /\ \A j \in DOMAIN rows :
              j <= ShownTo /\ rows[j] \in sitemap.start => rows[j] \in sitemap.seen
    BY DEF WebInv, Shown
  <2>2. ShownTo \in Nat
    <3>1. PerPage \in Nat /\ RowsBefore(sitemap.page) \in Nat
      BY <2>1, PageStart, WebAssumption
    <3>2. RowsBefore(sitemap.page) + PerPage \in Nat
      BY <3>1
    <3> QED BY <3>1, <3>2 DEF ShownTo
  <2>3. ASSUME NEW j \in DOMAIN rows', j <= ShownTo, rows'[j] \in sitemap.start
        PROVE  rows'[j] \in sitemap.seen
    <3>1. CASE j < i
      <4>1. j \in 1..Len(rows)
        BY <1>5, <3>1
      <4>2. rows'[j] = rows[j]
        BY <1>4, <3>1, <4>1
      <4> QED BY <1>5, <2>1, <2>3, <4>1, <4>2
    <3>2. CASE j = i
      BY <1>1, <1>4, <2>1, <2>3, <3>2
    <3>3. CASE i < j
      <4>1. j - 1 \in 1..Len(rows) /\ ~(j - 1 < i) /\ (j - 1) + 1 = j /\ j - 1 <= ShownTo
        BY <1>5, <2>2, <2>3, <3>3
      <4>2. rows'[j] = rows[j - 1]
        BY <1>4, <4>1
      <4> QED BY <1>5, <2>1, <2>3, <4>1, <4>2
    <3> QED BY <1>5, <3>1, <3>2, <3>3
  <2> QED BY <1>8, <2>1, <2>3
<1>10. Distinct'
  <2>1. ToSet(rows') = ToSet(rows) \cup {t}
    <3>1. t \in ToSet(rows')
      BY <1>4, <1>5 DEF ToSet
    <3>2. ASSUME NEW j \in DOMAIN rows' PROVE rows'[j] \in ToSet(rows) \cup {t}
      <4>1. CASE j < i
        <5>1. j \in 1..Len(rows) /\ rows'[j] = rows[j]
          BY <1>4, <1>5, <4>1
        <5> QED BY <1>5, <5>1 DEF ToSet
      <4>2. CASE j = i
        BY <1>4, <4>2
      <4>3. CASE i < j
        <5>1. j - 1 \in 1..Len(rows) /\ ~(j - 1 < i) /\ (j - 1) + 1 = j
          BY <1>5, <4>3
        <5>2. rows'[j] = rows[j - 1]
          BY <1>4, <5>1
        <5> QED BY <1>5, <5>1, <5>2 DEF ToSet
      <4> QED BY <1>5, <4>1, <4>2, <4>3
    <3>3. ToSet(rows') \subseteq ToSet(rows) \cup {t}
      BY <3>2 DEF ToSet
    <3> QED BY <1>8, <3>1, <3>3
  <2>2. IsFiniteSet(ToSet(rows))
    <3>1. ToSet(rows) \subseteq Torrent
      BY <1>3 DEF ToSet
    <3> QED BY <3>1, WebAssumption, FS_Subset
  <2>3. Cardinality(ToSet(rows) \cup {t}) = Cardinality(ToSet(rows)) + 1
    BY <1>1, <2>2, FS_AddElement
  <2> QED BY <1>4, <2>1, <2>3 DEF WebInv, Distinct
<1> QED BY <1>6, <1>7, <1>9, <1>10 DEF WebInv

\* The table can be counted.
LEMMA RowsCounted ==
    ASSUME WebInv
    PROVE  Len(rows) \in Nat /\ Len(rows) + PerPage <= MaxInt
<1>1. rows \in Seq(Torrent) /\ Len(rows) = Cardinality(ToSet(rows))
  BY DEF WebInv, WebTypeOK, Distinct
<1>2. ToSet(rows) \subseteq Torrent
  BY <1>1 DEF ToSet
<1>3. Cardinality(ToSet(rows)) <= Cardinality(Torrent)
  BY <1>2, WebAssumption, FS_Subset
<1>4. Cardinality(Torrent) \in Nat /\ Len(rows) \in Nat
  BY <1>1, WebAssumption, FS_CardinalityType
<1> QED BY <1>1, <1>3, <1>4, WebAssumption

\* The visitor goes from page to page.
LEMMA SitemapInv ==
    ASSUME WebInv, SitemapOpen \/ SitemapList \/ SitemapCount
    PROVE  WebInv'
<1>0. /\ rows \in Seq(Torrent) /\ sitemap \in SitemapRecord
      /\ Len(rows) \in Nat /\ DOMAIN rows = 1..Len(rows)
  <2>1. rows \in Seq(Torrent) /\ sitemap \in SitemapRecord
    BY WebTypes DEF WebInv
  <2> QED BY <2>1
<1>1. UNCHANGED <<rows, open, find>>
  BY DEF SitemapOpen, SitemapList, SitemapCount
<1>2. ToSet(rows) \subseteq Torrent
  BY <1>0 DEF ToSet
<1>3. PerPage \in Nat \ {0}
  BY WebAssumption
<1>4. CASE SitemapOpen
  <2>1. PICK p \in 0..1 : sitemap' = [at |-> "list", page |-> PageParam(p),
                                      start |-> ToSet(rows), seen |-> {}]
    BY <1>4 DEF SitemapOpen
  <2>2. PageParam(p) = 1
    <3>1. 1 <= MaxInt /\ MaxInt \in Nat
      BY <1>3, RowsCounted, WebAssumption
    <3> QED BY <3>1 DEF PageParam, Least
  <2>3. sitemap' \in SitemapRecord
    BY <1>2, <2>1, <2>2 DEF SitemapRecord
  <2>4. RowsBefore(1) = 0 /\ ~Overflows(1)
    <3>1. RowsBefore(1) = 0
      BY <1>3 DEF RowsBefore
    <3> QED BY <3>1, WebAssumption DEF Overflows
  <2>5. Shown'
    <3>1. /\ sitemap'.at = "list" /\ sitemap'.page = 1
          /\ sitemap'.start = ToSet(rows) /\ ShownTo' = 0
          /\ ~Overflows(sitemap.page)'
      BY <2>1, <2>2, <2>4 DEF ShownTo, RowsBefore, Overflows
    <3>2. \A j \in DOMAIN rows : ~(j <= 0)
      BY <1>0
    <3> QED BY <1>1, <3>1, <3>2 DEF Shown
  <2>6. SitemapComplete'
    BY <2>1 DEF SitemapComplete
  <2> QED BY <1>1, <2>3, <2>5, <2>6, SitemapStep
<1>5. CASE SitemapList /\ sitemap' = [sitemap EXCEPT !.at = "error"]
  <2>1. sitemap' \in SitemapRecord /\ sitemap'.at = "error"
    BY <1>0, <1>5 DEF SitemapRecord
  <2>2. Shown' /\ SitemapComplete'
    BY <2>1 DEF Shown, SitemapComplete
  <2> QED BY <1>1, <2>1, <2>2, SitemapStep
<1>6. CASE /\ SitemapList
           /\ sitemap' = [sitemap EXCEPT !.at = "count",
                            !.seen = @ \cup ToSet(GetAllTorrents(sitemap.page))]
  <2> DEFINE off == RowsBefore(sitemap.page)
             p == PageOf(rows, off)
  <2>1. sitemap.at = "list"
    BY <1>6 DEF SitemapList
  <2>2. /\ sitemap.page \in Nat \ {0} /\ sitemap.start \subseteq ToSet(rows)
        /\ ~Overflows(sitemap.page)
        /\ \A j \in DOMAIN rows :
              j <= off /\ rows[j] \in sitemap.start => rows[j] \in sitemap.seen
    BY <2>1 DEF WebInv, Shown, ShownTo
  <2>3. off \in Nat
    BY <2>2, PageStart
  <2>4. /\ p \in Seq(Torrent)
        /\ \A j \in DOMAIN rows : off < j /\ j <= off + PerPage => rows[j] \in ToSet(p)
    <3> HIDE DEF off
    <3> QED BY <1>0, <2>3, PageProperties
  <2>5. ToSet(p) \subseteq Torrent
    <3> HIDE DEF p
    <3> QED BY <2>4 DEF ToSet
  <2>6. sitemap' = [sitemap EXCEPT !.at = "count", !.seen = @ \cup ToSet(p)]
    <3>1. Offset(sitemap.page) = off
      BY <2>2, OffsetIs
    <3> QED BY <1>6, <3>1 DEF GetAllTorrents
  <2> HIDE DEF p
  <2>7. /\ sitemap' \in SitemapRecord /\ sitemap'.at = "count"
        /\ sitemap'.page = sitemap.page /\ sitemap'.start = sitemap.start
        /\ sitemap'.seen = sitemap.seen \cup ToSet(p)
    BY <1>0, <2>5, <2>6 DEF SitemapRecord
  <2>8. ShownTo' = off + PerPage /\ ~Overflows(sitemap.page)'
    BY <2>2, <2>7 DEF ShownTo, RowsBefore, Overflows
  <2> HIDE DEF off
  <2>9. \A j \in DOMAIN rows : j <= off + PerPage /\ rows[j] \in sitemap.start
                                 => rows[j] \in sitemap.seen \cup ToSet(p)
    <3> TAKE j \in DOMAIN rows
    <3>1. j <= off \/ off < j
      BY <1>0, <2>3
    <3> QED BY <2>2, <2>4, <3>1
  <2>10. Shown'
    BY <1>1, <2>2, <2>7, <2>8, <2>9 DEF Shown
  <2>11. SitemapComplete'
    BY <2>7 DEF SitemapComplete
  <2> QED BY <1>1, <2>7, <2>10, <2>11, SitemapStep
<1>7. ASSUME sitemap.at = "count", NEW total, NEW last \in {"end", "cut"},
             Follow(total, last), last = "end" => total = Len(rows),
             total \in {0, Len(rows)}
      PROVE  WebInv'
  <2> DEFINE off == RowsBefore(sitemap.page)
  <2>1. /\ sitemap.page \in Nat \ {0} /\ sitemap.start \subseteq ToSet(rows)
        /\ \A j \in DOMAIN rows : j <= off + PerPage /\ rows[j] \in sitemap.start
                                    => rows[j] \in sitemap.seen
    BY <1>7 DEF WebInv, Shown, ShownTo
  <2>2. off \in Nat /\ RowsBefore(sitemap.page + 1) = off + PerPage
    BY <2>1, PageStart
  <2>3. CASE HasNext(sitemap.page, total)
    <3>1. sitemap' = [sitemap EXCEPT !.at = "list", !.page = @ + 1]
      BY <1>7, <2>3 DEF Follow
    <3>2. /\ sitemap' \in SitemapRecord /\ sitemap'.at = "list"
          /\ sitemap'.page = sitemap.page + 1 /\ sitemap'.start = sitemap.start
          /\ sitemap'.seen = sitemap.seen
      <4>1. sitemap.page + 1 \in Nat
        BY <2>1
      <4> QED BY <1>0, <3>1, <4>1 DEF SitemapRecord
    <3>3. ShownTo' = off + PerPage
      BY <2>2, <3>2 DEF ShownTo, RowsBefore
    <3>7. ~Overflows(sitemap.page)'
      <4>1. total \in Nat /\ total <= MaxInt /\ MaxInt \in Nat
        <5>1. MaxInt \in Nat
          BY WebAssumption
        <5>2. Len(rows) \in Nat /\ Len(rows) + PerPage <= MaxInt
          BY RowsCounted
        <5>3. CASE total = 0
          BY <5>1, <5>3
        <5>4. CASE total = Len(rows)
          BY <1>3, <5>1, <5>2, <5>4
        <5> QED BY <1>7, <5>3, <5>4
      <4>2. RowsBefore(sitemap.page + 1) < total
        BY <2>1, <2>3, <4>1, NextPage
      <4>3. ~(RowsBefore(sitemap.page + 1) > MaxInt)
        <5> HIDE DEF off
        <5> QED BY <1>3, <2>2, <4>1, <4>2
      <4>4. Overflows(sitemap.page)' <=> RowsBefore(sitemap'.page) > MaxInt
        BY DEF Overflows, RowsBefore
      <4> QED BY <3>2, <4>3, <4>4
    <3>4. sitemap.page + 1 \in Nat \ {0}
      BY <2>1
    <3> HIDE DEF off
    <3>5. Shown'
      BY <1>1, <2>1, <3>2, <3>3, <3>4, <3>7 DEF Shown
    <3>6. SitemapComplete'
      BY <3>2 DEF SitemapComplete
    <3> QED BY <1>1, <3>2, <3>5, <3>6, SitemapStep
  <2>4. CASE ~HasNext(sitemap.page, total)
    <3>1. sitemap' = [sitemap EXCEPT !.at = last]
      BY <1>7, <2>4 DEF Follow
    <3>2. /\ sitemap' \in SitemapRecord /\ sitemap'.at = last
          /\ sitemap'.start = sitemap.start /\ sitemap'.seen = sitemap.seen
      BY <1>0, <1>7, <3>1 DEF SitemapRecord
    <3>3. Shown'
      BY <1>7, <3>2 DEF Shown
    <3>4. last = "end" => sitemap.start \subseteq sitemap.seen
      <4> SUFFICES ASSUME last = "end", NEW t \in sitemap.start
                   PROVE  t \in sitemap.seen
        OBVIOUS
      <4>1. Len(rows) <= off + PerPage
        BY <1>0, <1>7, <2>1, <2>4, LastPage
      <4>2. PICK j \in DOMAIN rows : rows[j] = t
        BY <2>1 DEF ToSet
      <4> HIDE DEF off
      <4>3. j <= off + PerPage
        BY <1>0, <1>3, <2>2, <4>1
      <4> QED BY <2>1, <4>2, <4>3
    <3>5. SitemapComplete'
      BY <3>2, <3>4 DEF SitemapComplete
    <3> QED BY <1>1, <3>2, <3>3, <3>5, SitemapStep
  <2> QED BY <2>3, <2>4
<1>8. CASE SitemapCount
  BY <1>7, <1>8 DEF SitemapCount
<1> QED BY <1>4, <1>5, <1>6, <1>8 DEF SitemapList

\* The rows that match are torrents, and finitely many.
LEMMA HitsProperties ==
    ASSUME rows \in Seq(Torrent), NEW by
    PROVE  Hits(by) \in SUBSET Torrent /\ Cardinality(Hits(by)) \in Nat
<1>1. Hits(by) \subseteq Torrent
  BY DEF Hits, ToSet
<1>2. IsFiniteSet(Hits(by))
  BY <1>1, WebAssumption, FS_Subset
<1> QED BY <1>1, <1>2, FS_CardinalityType

\* The search counts, lists, falls back and fails.
LEMMA SearchInv ==
    ASSUME WebInv,
           \/ SearchBegin \/ SearchCount \/ SearchList \/ SearchFallback
           \/ SearchFails \/ SearchDelivered
    PROVE  WebInv'
<1>0. rows \in Seq(Torrent) /\ (find = NoSearch \/ find \in SearchRecord)
  BY WebTypes DEF WebInv
<1>1. UNCHANGED <<rows, open, sitemap>>
  BY DEF SearchBegin, SearchCount, SearchList, SearchFallback, SearchFails,
         SearchDelivered
<1>2. find.at \in {"count", "list"} => find \in SearchRecord
  BY <1>0 DEF NoSearch
<1>3. PerPage \in Nat \ {0}
  BY WebAssumption
<1>4. CASE SearchBegin
  <2>1. PICK p \in Pages :
           find' = [at |-> "count", by |-> IF hasFTS5 THEN "fts" ELSE "like",
                    page |-> PageParam(p), total |-> 0, results |-> << >>,
                    err |-> FALSE]
    BY <1>4 DEF SearchBegin
  <2>2. PageParam(p) \in Nat \ {0}
    <3>1. 1 <= MaxInt /\ MaxInt \in Nat /\ p \in Nat
      BY <1>3, RowsCounted, WebAssumption
    <3> QED BY <3>1 DEF PageParam, Least
  <2>3. find' \in SearchRecord /\ find'.at = "count"
    BY <2>1, <2>2 DEF SearchRecord
  <2>4. Counted' /\ SearchPageFits'
    BY <2>3 DEF Counted, SearchPageFits
  <2> QED BY <1>1, <2>3, <2>4, SearchStep
<1>5. CASE SearchCount
  <2>1. /\ find \in SearchRecord
        /\ find' = [find EXCEPT !.at = "list", !.total = Cardinality(Hits(find.by))]
    BY <1>2, <1>5 DEF SearchCount
  <2>2. Cardinality(Hits(find.by)) \in Nat
    BY <1>0, HitsProperties
  <2>3. /\ find' \in SearchRecord /\ find'.at = "list" /\ find'.by = find.by
        /\ find'.total = Cardinality(Hits(find.by))
    BY <2>1, <2>2 DEF SearchRecord
  <2>4. Counted'
    BY <1>1, <2>3 DEF Counted, Hits
  <2>5. SearchPageFits'
    BY <2>3 DEF SearchPageFits
  <2> QED BY <1>1, <2>3, <2>4, <2>5, SearchStep
<1>6. CASE SearchList
  <2> DEFINE off == Offset(find.page)
             left == find.total - RowsBefore(find.page)
             full == IF left < 0 THEN 0 ELSE Least(PerPage, left)
  <2>1. find.at = "list" /\ find \in SearchRecord
    BY <1>2, <1>6 DEF SearchList
  <2>2. PICK seq \in Ranked(find.by), failed \in BOOLEAN :
           \E n \in IF failed THEN 0..Len(PageOf(seq, off)) ELSE {Len(PageOf(seq, off))} :
              find' = [find EXCEPT !.at = "answer", !.err = failed,
                                   !.results = SubSeq(PageOf(seq, off), 1, n)]
    BY <1>6 DEF SearchList
  <2>3. find.page \in Nat \ {0} /\ find.total \in Nat
    BY <2>1 DEF SearchRecord
  <2>4. seq \in Seq(Torrent) /\ Len(seq) = find.total
    <3>1. Hits(find.by) \in SUBSET Torrent /\ seq \in SetToSeqs(Hits(find.by))
      BY <1>0, HitsProperties DEF Ranked
    <3>2. find.total = Cardinality(Hits(find.by))
      BY <2>1 DEF WebInv, Counted
    <3> QED BY <3>1, <3>2, OrderProperties
  <2>5. /\ RowsBefore(find.page) \in Nat /\ off \in Int
        /\ ~Overflows(find.page) => off = RowsBefore(find.page)
    BY <2>3, PageStart, OffsetIs
  <2> DEFINE page == PageOf(seq, off)
  <2>6. /\ page \in Seq(Torrent) /\ Len(page) <= PerPage
        /\ ~Overflows(find.page) => Len(page) = full
    <3>1. page \in Seq(Torrent) /\ Len(page) <= PerPage
      <4> HIDE DEF off
      <4> QED BY <2>4, <2>5, PageBound
    <3>2. ASSUME ~Overflows(find.page) PROVE Len(page) = full
      <4>1. off \in Nat /\ off = RowsBefore(find.page)
        BY <2>5, <3>2
      <4>2. Len(page) = IF Len(seq) - off < 0 THEN 0 ELSE Least(PerPage, Len(seq) - off)
        <5> HIDE DEF off
        <5> QED BY <2>4, <4>1, PageProperties
      <4> HIDE DEF off
      <4> QED BY <2>4, <4>1, <4>2
    <3> QED BY <3>1, <3>2
  <2>7. PICK n \in IF failed THEN 0..Len(page) ELSE {Len(page)} :
           find' = [find EXCEPT !.at = "answer", !.err = failed,
                                !.results = SubSeq(page, 1, n)]
    BY <2>2
  <2> HIDE DEF page, full
  <2>8. Len(page) \in Nat /\ n \in 0..Len(page) /\ (~failed => n = Len(page))
    <3>1. Len(page) \in Nat
      BY <2>6
    <3> QED BY <2>7, <3>1
  <2>9. SubSeq(page, 1, n) \in Seq(Torrent) /\ Len(SubSeq(page, 1, n)) = n
    <3>1. n \in Nat /\ n <= Len(page) /\ 1 \in Nat \ {0}
      BY <2>8
    <3>2. /\ SubSeq(page, 1, n) \in Seq(Torrent)
          /\ Len(SubSeq(page, 1, n)) = IF 1 <= n THEN n - 1 + 1 ELSE 0
      BY <2>6, <3>1, Slice
    <3> QED BY <3>1, <3>2
  <2> DEFINE results == SubSeq(page, 1, n)
  <2> HIDE DEF results
  <2>10. results \in Seq(Torrent) /\ Len(results) = n
         /\ find' = [find EXCEPT !.at = "answer", !.err = failed, !.results = results]
    BY <2>7, <2>9 DEF results
  <2>11. /\ find' \in SearchRecord /\ find'.at = "answer" /\ find'.err = failed
         /\ find'.results = results /\ find'.total = find.total
         /\ find'.page = find.page
    BY <2>1, <2>10 DEF SearchRecord
  <2>12. Counted'
    BY <2>11 DEF Counted
  <2>13. IF Overflows(find.page) THEN n <= PerPage
         ELSE IF failed THEN n <= full ELSE n = full
    BY <1>3, <2>6, <2>8
  <2>14. full = LET rest == find'.total - RowsBefore(find'.page)
                IN  IF rest < 0 THEN 0 ELSE Least(PerPage, rest)
    BY <2>11 DEF full
  <2>15. SearchPageFits'
    BY <2>10, <2>11, <2>13, <2>14 DEF SearchPageFits, RowsBefore, Overflows, Least
  <2> QED BY <1>1, <2>11, <2>12, <2>15, SearchStep
<1>7. CASE SearchFallback
  <2>1. find \in SearchRecord /\ find' = [find EXCEPT !.by = "like", !.at = "count"]
    BY <1>2, <1>7 DEF SearchFallback
  <2>2. find' \in SearchRecord /\ find'.at = "count"
    BY <2>1 DEF SearchRecord
  <2>3. Counted' /\ SearchPageFits'
    BY <2>2 DEF Counted, SearchPageFits
  <2> QED BY <1>1, <2>2, <2>3, SearchStep
<1>8. CASE SearchFails
  <2>1. /\ find \in SearchRecord
        /\ find' = [find EXCEPT !.at = "answer", !.err = TRUE,
                                !.total = 0, !.results = << >>]
    BY <1>2, <1>8 DEF SearchFails
  <2>2. /\ find' \in SearchRecord /\ find'.at = "answer" /\ find'.total = 0
        /\ find'.results = << >> /\ find'.err = TRUE /\ find'.page \in Nat \ {0}
    <3>1. /\ find'.at = "answer" /\ find'.total = 0
          /\ find'.results = << >> /\ find'.err = TRUE /\ find'.page = find.page
      BY <2>1 DEF SearchRecord
    <3>2. << >> \in Seq(Torrent) /\ 0 \in Nat
      OBVIOUS
    <3>3. find' \in SearchRecord
      <4> DEFINE empty == << >>
                 yes == TRUE
      <4>1. empty \in Seq(Torrent) /\ yes \in BOOLEAN
        BY <3>2
      <4>2. find' = [find EXCEPT !.at = "answer", !.err = yes,
                                 !.total = 0, !.results = empty]
        BY <2>1
      <4> HIDE DEF empty, yes
      <4>3. find \in SearchRecord /\ 0 \in Nat
        BY <2>1
      <4> QED BY <4>1, <4>2, <4>3 DEF SearchRecord
    <3> QED BY <2>1, <3>1, <3>3 DEF SearchRecord
  <2>3. Counted'
    BY <2>2 DEF Counted
  <2>4. RowsBefore(find'.page) \in Nat
    BY <2>2, PageStart
  <2>5. SearchPageFits'
    <3> DEFINE left == find'.total - RowsBefore(find'.page)
               full == IF left < 0 THEN 0 ELSE Least(PerPage, left)
    <3>1. full \in Nat
      BY <1>3, <2>2, <2>4 DEF Least
    <3>2. Len(find'.results) = 0
      BY <2>2
    <3>3. Len(find'.results) <= full /\ Len(find'.results) <= PerPage
      <4> HIDE DEF full
      <4> QED BY <1>3, <3>1, <3>2
    <3> QED BY <2>2, <3>3 DEF SearchPageFits, RowsBefore, Overflows, Least
  <2> QED BY <1>1, <2>2, <2>3, <2>5, SearchStep
<1>9. CASE SearchDelivered
  <2>1. find' = NoSearch
    BY <1>9 DEF SearchDelivered
  <2>2. Counted' /\ SearchPageFits'
    BY <2>1 DEF Counted, SearchPageFits, NoSearch
  <2> QED BY <1>1, <2>1, <2>2, SearchStep
<1> QED BY <1>4, <1>5, <1>6, <1>7, <1>8, <1>9

\* WebInv is an invariant.
LEMMA WebInvariant == WebSpec => []WebInv
<1>1. WebInit => WebInv
  <2> SUFFICES ASSUME WebInit PROVE WebInv
    OBVIOUS
  <2>1. PICK S \in SUBSET Torrent : rows \in SetToSeqs(S)
    BY DEF WebInit
  <2>2. rows \in Seq(Torrent) /\ Distinct
    BY <2>1, OrderProperties DEF Distinct
  <2>3. WebTypeOK
    BY <2>2 DEF WebInit, WebTypeOK
  <2> QED BY <2>2, <2>3 DEF WebInit, WebInv, Shown, Counted, SitemapComplete,
                      SearchPageFits, NoSearch
<1>2. WebInv /\ [WebNext]_webVars => WebInv'
  <2> SUFFICES ASSUME WebInv, [WebNext]_webVars PROVE WebInv'
    OBVIOUS
  <2>1. CASE Close
    <3>1. UNCHANGED <<rows, sitemap, find>> /\ open' \in BOOLEAN
      BY <2>1 DEF Close
    <3>2. WebTypeOK'
      BY <3>1 DEF WebInv, WebTypeOK, NoSearch
    <3>3. Distinct' /\ Shown' /\ Counted' /\ SitemapComplete' /\ SearchPageFits'
      BY <3>1 DEF WebInv, Shown, ShownTo, Counted, Hits, SitemapComplete,
                  SearchPageFits, RowsBefore, Overflows, Least, Distinct
    <3> QED BY <3>2, <3>3 DEF WebInv
  <2>2. CASE UNCHANGED webVars
    BY <2>2 DEF webVars, WebInv, WebTypeOK, NoSearch, Shown, ShownTo, Counted, Hits,
       SitemapComplete, SearchPageFits, RowsBefore, Overflows, Least, Distinct
  <2> QED BY <2>1, <2>2, InsertInv, SitemapInv, SearchInv DEF WebNext
<1> QED BY <1>1, <1>2, PTL DEF WebSpec

\* The types of the table and of the two requests.
THEOREM WebTypeCorrect == WebSpec => []WebTypeOK
<1>1. WebInv => WebTypeOK
  BY DEF WebInv
<1> QED BY <1>1, WebInvariant, PTL

(***************************************************************************)
(* handleSitemap: who follows the links to the end has been shown every    *)
(* torrent of the beginning, whatever was inserted meanwhile, for any      *)
(* page size and any number of torrents.                                   *)
(***************************************************************************)
THEOREM WebSitemapComplete == WebSpec => []SitemapComplete
<1>1. WebInv => SitemapComplete
  BY DEF WebInv
<1> QED BY <1>1, WebInvariant, PTL

(***************************************************************************)
(* Search and searchLike: the rows on a page fit the number of pages that  *)
(* handleSearch shows, for any query and any page number, except that one  *)
(* whose offset overflows shows a page full at most.                       *)
(***************************************************************************)
THEOREM WebSearchPageFits == WebSpec => []SearchPageFits
<1>1. WebInv => SearchPageFits
  BY DEF WebInv
<1> QED BY <1>1, WebInvariant, PTL
=============================================================================
