------------------------------ MODULE JobQueue ------------------------------
(***************************************************************************)
(* What the thread pool promises its callers, without its locks: a FIFO    *)
(* queue of at most Capacity jobs, and workers that each hold at most one  *)
(* job, taken from the front, until they have finished it.  ThreadPool is  *)
(* shown to implement this specification.                                  *)
(***************************************************************************)
EXTENDS Naturals, Sequences

CONSTANTS
    Workers,    \* the worker threads
    Jobs,       \* the jobs that can be submitted
    NoJob,      \* what an idle worker holds; submitting it submits nothing
    Capacity    \* longest queue

VARIABLES queue, job, closed

jobVars == <<queue, job, closed>>

Init ==
    /\ queue = <<>>
    /\ job = [w \in Workers |-> NoJob]
    /\ closed = FALSE

\* append() that returns true.
Submit(j) ==
    /\ ~closed
    /\ Len(queue) < Capacity
    /\ queue' = Append(queue, j)
    /\ UNCHANGED <<job, closed>>

\* run() pops the front; a null job leaves the worker idle.
Take(w) ==
    /\ ~closed
    /\ job[w] = NoJob
    /\ queue # <<>>
    /\ job' = [job EXCEPT ![w] = Head(queue)]
    /\ queue' = Tail(queue)
    /\ UNCHANGED closed

\* process() returns.
Finish(w) ==
    /\ job[w] # NoJob
    /\ job' = [job EXCEPT ![w] = NoJob]
    /\ UNCHANGED <<queue, closed>>

\* The destructor drops what is still queued; nothing is taken after it.
Close ==
    /\ ~closed
    /\ closed' = TRUE
    /\ queue' = <<>>
    /\ UNCHANGED job

Next ==
    \/ Close
    \/ \E j \in Jobs \cup {NoJob} : Submit(j)
    \/ \E w \in Workers : Take(w) \/ Finish(w)

Spec == Init /\ [][Next]_jobVars

=============================================================================
