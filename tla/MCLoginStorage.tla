---------------------------- MODULE MCLoginStorage ----------------------------
(* Model-checking instance of LoginStorage: two tests share the storage.   *)
EXTENDS LoginStorage

CONSTANTS t1, t2

MCTests == {t1, t2}

\* The tests are interchangeable.
MCSymmetry == Permutations(MCTests)
=============================================================================
