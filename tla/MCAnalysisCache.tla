---------------------------- MODULE MCAnalysisCache ----------------------------
(* Three callers of one installer, each of which may find it unreadable     *)
(* twice.                                                                   *)
EXTENDS AnalysisCache

CONSTANTS c1, c2, c3

MCCallers == {c1, c2, c3}
===============================================================================
