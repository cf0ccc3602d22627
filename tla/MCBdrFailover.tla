---------------------------- MODULE MCBdrFailover ----------------------------
\* Two faults: a node fails twice, or fails and a daemon dies at it.
EXTENDS BdrFailover
=============================================================================
