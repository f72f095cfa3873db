---------------------------- MODULE MCWebServer ----------------------------
(* Small instances of the server for TLC.                                  *)
EXTENDS WebServer, TLC

CONSTANTS w1, w2

OneWorker == {w1}
TwoWorkers == {w1, w2}

Symmetry == Permutations(TwoWorkers)

=============================================================================
