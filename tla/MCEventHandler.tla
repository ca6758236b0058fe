--------------------------- MODULE MCEventHandler ---------------------------
EXTENDS EventHandler
=============================================================================
