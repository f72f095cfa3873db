---------------------------- MODULE MCThreadPool ----------------------------
(* Small instances of the thread pool for TLC.                             *)
EXTENDS ThreadPool, TLC

CONSTANTS w1, w2, a1, a2, r1, r2

TwoWorkers == {w1, w2}
OneAppender == {a1}
TwoAppenders == {a1, a2}
TwoRequests == {r1, r2}

\* Threads and requests of one kind are interchangeable.
Symmetry == Permutations(TwoWorkers) \cup Permutations(TwoAppenders)
                \cup Permutations(TwoRequests)

=============================================================================
