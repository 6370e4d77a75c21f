----------------------------- MODULE WebServer -----------------------------
(***************************************************************************)
(* The listings of the web server, internal/web/server.go, on top of the   *)
(* queries of internal/storage/sqlite.go, while the jobs of the crawler go *)
(* on saving torrents.                                                     *)
(*                                                                         *)
(* A visitor of the sitemap opens a page and follows its links to the next *)
(* page; each request lists the page and counts all torrents in two calls  *)
(* of the storage.  A search counts and lists under one read lock, by the  *)
(* full-text index or, if that is missing or fails, by LIKE.               *)
(*                                                                         *)
(* Page numbers and offsets are ints and wrap; the number of torrents does *)
(* not come near the largest one.                                          *)
(*                                                                         *)
(* What a query matches is abstracted to two sets.  Names, sizes, HTML and *)
(* JSON are left out, and so are the requests of one statement (home,      *)
(* recent, popular, torrent, stats).                                       *)
(***************************************************************************)
EXTENDS Integers, Sequences, FiniteSets, SequencesExt

CONSTANTS
    Torrent,       \* info hashes of torrents
    PerPage,       \* rows on a page
    NameHit,       \* torrents whose name matches the query
    FileHit,       \* torrents with a file that matches it
    hasFTS5,       \* the full-text index is available
    MaxInt,        \* the largest int, at which page numbers and offsets wrap
    Pages          \* bound: page parameters of searches

ASSUME WebAssumption ==
    /\ IsFiniteSet(Torrent)
    /\ PerPage \in Nat \ {0}
    /\ NameHit \subseteq Torrent /\ FileHit \subseteq Torrent
    /\ hasFTS5 \in BOOLEAN
    /\ Pages \subseteq Nat
    /\ MaxInt \in Nat /\ Cardinality(Torrent) + PerPage <= MaxInt

VARIABLES
    rows,          \* table torrents, ORDER BY created_at DESC
    open,          \* the storage is not closed
    sitemap,       \* the visitor: where, which page, the torrents of the
                   \* table when it began and those it was shown
    find           \* a search: where, by what, which page, what it got

webVars == <<rows, open, sitemap, find>>

Least(a, b) == IF a < b THEN a ELSE b

\* The value that is left of n in an int.
Wrap(n) == ((n + MaxInt + 1) % (2 * (MaxInt + 1))) - (MaxInt + 1)

RowsBefore(page) == (page - 1) * PerPage
Offset(page) == Wrap(RowsBefore(page))
Overflows(page) == RowsBefore(page) > MaxInt
TotalPages(total) == (total + PerPage - 1) \div PerPage
HasNext(page, total) == page < TotalPages(total)

\* LIMIT PerPage OFFSET offset; to SQLite a negative offset is none.
PageOf(seq, offset) ==
    LET skip == IF offset < 0 THEN 0 ELSE offset
    IN  SubSeq(seq, skip + 1, Least(skip + PerPage, Len(seq)))

\* Mutant: the parameter is taken as it is.
PageParamAny(p) == p

\* A page parameter that is missing, no number or less than one is page one.
\* Atoi makes the largest int of a number that is too large; its error is
\* ignored.
PageParam(p) == IF p < 1 THEN 1 ELSE Least(p, MaxInt)

NoSearch == [at |-> "idle"]
RLocked == find.at \in {"count", "list"}

WebInit ==
    /\ rows \in UNION {SetToSeqs(S) : S \in SUBSET Torrent}
    /\ open = TRUE
    /\ sitemap = [at |-> "idle", page |-> 0, start |-> {}, seen |-> {}]
    /\ find = NoSearch
-----------------------------------------------------------------------------
\* Mutant: a job saves a torrent that is in the table, with a new time.
InsertTorrentAgain(t) ==
    /\ open
    /\ ~RLocked
    /\ rows' = <<t>> \o SelectSeq(rows, LAMBDA r : r # t)
    /\ UNCHANGED <<open, sitemap, find>>

\* Mutant: the storage takes no lock.
InsertTorrentUnlocked(t) ==
    /\ open
    /\ t \notin ToSet(rows)
    /\ \E i \in 1..(Len(rows) + 1) : rows' = InsertAt(rows, i, t)
    /\ UNCHANGED <<open, sitemap, find>>

\* A job saves a torrent that is new (FreshInsert of WorkerPool).  It took
\* the time before it waited for the lock, so the row may come after others.
InsertTorrent(t) ==
    /\ open
    /\ ~RLocked
    /\ t \notin ToSet(rows)
    /\ \E i \in 1..(Len(rows) + 1) : rows' = InsertAt(rows, i, t)
    /\ UNCHANGED <<open, sitemap, find>>

Close ==
    /\ open
    /\ open' = FALSE
    /\ UNCHANGED <<rows, sitemap, find>>
-----------------------------------------------------------------------------
\* A visitor opens the sitemap.
SitemapOpen ==
    /\ sitemap.at = "idle"
    /\ \E p \in 0..1 :
         sitemap' = [at |-> "list", page |-> PageParam(p),
                     start |-> ToSet(rows), seen |-> {}]
    /\ UNCHANGED <<rows, open, find>>

\* GetAllTorrents(perPage, offset)
GetAllTorrents(page) == PageOf(rows, Offset(page))

\* handleSitemap: list the page, or answer with an error.
SitemapList ==
    /\ sitemap.at = "list"
    /\ \/ /\ open
          /\ sitemap' = [sitemap EXCEPT !.at = "count",
                           !.seen = @ \cup ToSet(GetAllTorrents(sitemap.page))]
       \/ sitemap' = [sitemap EXCEPT !.at = "error"]
    /\ UNCHANGED <<rows, open, find>>

\* The visitor follows the link to the next page, if there is one.
Follow(total, last) ==
    sitemap' = IF HasNext(sitemap.page, total)
               THEN [sitemap EXCEPT !.at = "list", !.page = @ + 1]
               ELSE [sitemap EXCEPT !.at = last]

\* handleSitemap: count the torrents.  An error of Stats is ignored and counts
\* as no torrents, which cuts the listing off without a sign.
SitemapCount ==
    /\ sitemap.at = "count"
    /\ (open /\ Follow(Len(rows), "end")) \/ Follow(0, "cut")
    /\ UNCHANGED <<rows, open, find>>
-----------------------------------------------------------------------------
\* The rows a search matches.
Hits(by) == ToSet(rows) \cap IF by = "fts" THEN NameHit \cup FileHit ELSE NameHit

InTableOrder(seq) ==
    \A i, j \in DOMAIN seq : i < j =>
        \E k, l \in DOMAIN rows : k < l /\ rows[k] = seq[i] /\ rows[l] = seq[j]

\* ORDER BY rank: any order, for the rank depends on all the rows.  LIKE
\* orders by req_count, which is 1 in every row, and by time.
Ranked(by) == {seq \in SetToSeqs(Hits(by)) : by = "like" => InTableOrder(seq)}

\* handleSearch calls Search, which takes the read lock.
SearchBegin ==
    /\ find.at = "idle"
    /\ \E p \in Pages :
         find' = [at |-> "count", by |-> IF hasFTS5 THEN "fts" ELSE "like",
                  page |-> PageParam(p), total |-> 0, results |-> << >>,
                  err |-> FALSE]
    /\ UNCHANGED <<rows, open, sitemap>>

\* Search, searchLike: SELECT COUNT
SearchCount ==
    /\ find.at = "count"
    /\ open
    /\ find' = [find EXCEPT !.at = "list", !.total = Cardinality(Hits(find.by))]
    /\ UNCHANGED <<rows, open, sitemap>>

\* Search, searchLike: SELECT ... LIMIT ... OFFSET, then the lock is released.
\* An error while the rows are read leaves those that were read before it.
SearchList ==
    /\ find.at = "list"
    /\ open
    /\ \E seq \in Ranked(find.by), failed \in BOOLEAN :
         LET page == PageOf(seq, Offset(find.page))
         IN  \E n \in IF failed THEN 0..Len(page) ELSE {Len(page)} :
               find' = [find EXCEPT !.at = "answer", !.err = failed,
                                    !.results = SubSeq(page, 1, n)]
    /\ UNCHANGED <<rows, open, sitemap>>

\* Search: either statement on the index fails, for instance on the syntax of
\* the query, and searchLike starts over, under the same lock.
SearchFallback ==
    /\ find.at \in {"count", "list"}
    /\ find.by = "fts"
    /\ find' = [find EXCEPT !.by = "like", !.at = "count"]
    /\ UNCHANGED <<rows, open, sitemap>>

\* A statement of searchLike, or the scan of a row, fails: no results and no
\* count.  handleSearch logs the error and goes on.
SearchFails ==
    /\ find.at = "list" \/ (find.at = "count" /\ find.by = "like")
    /\ find' = [find EXCEPT !.at = "answer", !.err = TRUE,
                            !.total = 0, !.results = << >>]
    /\ UNCHANGED <<rows, open, sitemap>>

\* The page is delivered and the next request may come.
SearchDelivered ==
    /\ find.at = "answer"
    /\ find' = NoSearch
    /\ UNCHANGED <<rows, open, sitemap>>

WebNext ==
    \/ \E t \in Torrent : InsertTorrent(t)
    \/ Close
    \/ SitemapOpen \/ SitemapList \/ SitemapCount
    \/ SearchBegin \/ SearchCount \/ SearchList \/ SearchFallback
    \/ SearchFails \/ SearchDelivered

WebSpec == WebInit /\ [][WebNext]_webVars
-----------------------------------------------------------------------------
\* The type invariant.
WebTypeOK ==
    /\ rows \in Seq(Torrent)
    /\ open \in BOOLEAN
    /\ sitemap \in [at : {"idle", "list", "count", "end", "cut", "error"},
                    page : Nat, start : SUBSET Torrent, seen : SUBSET Torrent]
    /\ find = NoSearch \/ find \in
         [at : {"count", "list", "answer"}, by : {"fts", "like"}, page : Nat \ {0},
          total : Nat, results : Seq(Torrent), err : BOOLEAN]

(***************************************************************************)
(* handleSitemap, "listing all torrents" (server.go:220): who follows the  *)
(* links to the end has been shown every torrent that was there at the     *)
(* beginning, although jobs insert rows between the two calls of a request *)
(* and between the requests, which moves rows from page to page.           *)
(***************************************************************************)
SitemapComplete == sitemap.at = "end" => sitemap.start \subseteq sitemap.seen

(***************************************************************************)
(* The number of pages that a search shows and the rows on the page fit    *)
(* together, though they come from two statements, jobs insert rows and    *)
(* the index may fail between them: a page before the last is full, the    *)
(* last has the rest, and there is nothing behind it.  Only after an error *)
(* the page may have fewer rows, never more.                               *)
(*                                                                         *)
(* The exception is a page number so large that its offset overflows: the  *)
(* offset wraps, and such a page may show rows although there is none, but *)
(* never more than a page holds.                                           *)
(***************************************************************************)
SearchPageFits ==
    find.at = "answer" =>
        LET left == find.total - RowsBefore(find.page)
            full == IF left < 0 THEN 0 ELSE Least(PerPage, left)
            shown == Len(find.results)
        IN  IF Overflows(find.page) THEN shown <= PerPage
            ELSE IF find.err THEN shown <= full ELSE shown = full
=============================================================================
