--------------------------- MODULE MCSessionPool ---------------------------
(* Model values for SessionPool: three threads on at most two pooled        *)
(* sessions, with spare addresses for the replacements.                     *)
EXTENDS SessionPool
=============================================================================
