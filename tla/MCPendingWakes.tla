--------------------------- MODULE MCPendingWakes ---------------------------
\* Instances of PendingWakes for TLC; the .cfg files give the works.
EXTENDS PendingWakes
=============================================================================
