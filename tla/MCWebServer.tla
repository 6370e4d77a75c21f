---------------------------- MODULE MCWebServer ----------------------------
\* WebServer for TLC.
EXTENDS WebServer

CONSTANTS t1, t2, t3, t4
=============================================================================
