----------------------------- MODULE MCDhtNode -----------------------------
\* DhtNode for TLC.
EXTENDS DhtNode

CONSTANTS c1, c2
=============================================================================
