----------------------------- MODULE MCXdsStream -----------------------------
EXTENDS XdsStream, TLC

CONSTANT a

\* The caches pass no hints; Cond is also checked with a caller that does.
SomeHints == {{}, {a}}
=============================================================================
