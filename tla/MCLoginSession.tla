--------------------------- MODULE MCLoginSession ---------------------------
(* LoginSession with two tests: Self, which calls login(), and another.   *)
EXTENDS LoginSession

CONSTANTS t1, t2

MCTests == {t1, t2}
MCSelf == t1
=============================================================================
