SPECIFICATION WebSpec
CONSTANTS
    t1 = t1
    t2 = t2
    t3 = t3
    t4 = t4
    Torrent = {t1, t2, t3, t4}
    PerPage = 2
    NameHit = {t1, t2, t3}
    FileHit = {t3, t4}
    hasFTS5 = TRUE
    MaxInt = 6
    Pages = {0, 2, 3, 7}
INVARIANTS
    WebTypeOK
    SitemapComplete
    SearchPageFits
