----------------------------- MODULE MCMirror ------------------------------
\* Model-checking instance of Mirror.
EXTENDS Mirror
=============================================================================
