-------------------------- MODULE MCDownloadQueue --------------------------
\* DownloadQueue for TLC.
EXTENDS DownloadQueue

CONSTANTS h1, h2, h3, c1, c2, p1
=============================================================================
