----------------------------- MODULE MCCrawler -----------------------------
(***************************************************************************)
(* Crawler for TLC: events of two hashes from one of the common ports or   *)
(* another port, and more searches than tokens.                            *)
(***************************************************************************)
EXTENDS Crawler

CONSTANTS h1, h2, g1, g2

Ports == <<1, 2>>

\* The table of pending hashes is empty at first: its rows come from flushes.
MCInit == CrawlerInit /\ hashes = [h \in Hash |-> 0]

MCSpec == MCInit /\ [][CrawlerNext]_vars /\ CrawlerFairness
=============================================================================
