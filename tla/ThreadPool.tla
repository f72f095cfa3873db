----------------------------- MODULE ThreadPool -----------------------------
(***************************************************************************)
(* The thread pool of the web server (webServer/threadPool.h) on top of    *)
(* the mutex and the semaphore of webServer/locker.cpp.                    *)
(*                                                                         *)
(* Appending threads push request pointers into workQueue under            *)
(* queueLocker and then post queueStat; each worker waits on queueStat,    *)
(* takes queueLocker, pops the front pointer and calls process() on it.    *)
(* Every shared access between two synchronisation calls is one step.      *)
(***************************************************************************)
EXTENDS Naturals, Sequences, FiniteSets

CONSTANTS
    Workers,        \* the threads the constructor creates
    Appenders,      \* the threads that call append(); main.cpp has one
    Requests,       \* the non-null T* values handed to append()
    nullptr,        \* the null T*
    NoThread,       \* value of a free mutex
    maxRequests,    \* the constructor argument of the same name
    SEM_VALUE_MAX,  \* largest value of a sem_t
    Interrupts      \* whether sem_wait may return early with EINTR

ASSUME PoolAssumption ==
    /\ IsFiniteSet(Workers) /\ IsFiniteSet(Appenders)
    /\ Workers \cap Appenders = {}
    /\ NoThread \notin Workers \cup Appenders
    /\ nullptr \notin Requests
    /\ maxRequests \in Nat \ {0}
    /\ SEM_VALUE_MAX \in Nat
    /\ maxRequests + 1 <= SEM_VALUE_MAX
    /\ Interrupts \in BOOLEAN

VARIABLES
    pool,           \* life cycle of the object
    workQueue,      \* std::list<T*>
    queueLocker,    \* the thread that holds the mutex
    queueStat,      \* value of the semaphore
    stop,
    apc, arg,       \* control point and argument of append(), per appender
    wpc, request    \* control point and local pointer of run(), per worker

appendVars == <<apc, arg>>
runVars == <<wpc, request>>
vars == <<pool, workQueue, queueLocker, queueStat, stop, apc, arg, wpc, request>>

Pointers == Requests \cup {nullptr}

PoolStates == {"constructing", "ready", "thrown", "destroyed"}

AppendPoints == {"idle", "check", "unlock", "post"}

RunPoints == {"none", "loop", "wait", "lock", "pop", "unlock", "process",
              "exited", "undefined"}

\* The members of the object still exist.
Alive == pool \in {"constructing", "ready"}

\* Mutant: the semaphore starts at one, like a mutex.
InitSemaphoreAtOne ==
    /\ pool = "constructing"
    /\ workQueue = <<>>
    /\ queueLocker = NoThread
    /\ queueStat = 1
    /\ stop = FALSE
    /\ apc = [a \in Appenders |-> "idle"]
    /\ arg = [a \in Appenders |-> nullptr]
    /\ wpc = [w \in Workers |-> "none"]
    /\ request = [w \in Workers |-> nullptr]

Init ==
    /\ pool = "constructing"
    /\ workQueue = <<>>
    /\ queueLocker = NoThread
    /\ queueStat = 0
    /\ stop = FALSE
    /\ apc = [a \in Appenders |-> "idle"]
    /\ arg = [a \in Appenders |-> nullptr]
    /\ wpc = [w \in Workers |-> "none"]
    /\ request = [w \in Workers |-> nullptr]

-----------------------------------------------------------------------------
(* The primitives of locker.cpp.  Their boolean results are ignored by the *)
(* pool, so a call that fails simply leaves the object as it was.          *)

\* Mutant: the failed lock call is taken for a success.
lockUnchecked(t) == queueLocker' = t

lock(t) ==
    /\ queueLocker = NoThread
    /\ queueLocker' = t

unlock == queueLocker' = NoThread

post == queueStat' = IF queueStat < SEM_VALUE_MAX THEN queueStat + 1 ELSE queueStat

wait ==
    /\ queueStat > 0
    /\ queueStat' = queueStat - 1

-----------------------------------------------------------------------------
(* Constructor: one pthread_create and one pthread_detach per thread.  A   *)
(* created worker runs at once, before its siblings exist.  If a call      *)
(* fails the constructor throws and the members are destroyed, while the   *)
(* workers already created go on running until the process exits.          *)

CreateThread(w) ==
    /\ pool = "constructing"
    /\ wpc[w] = "none"
    /\ wpc' = [wpc EXCEPT ![w] = "loop"]
    /\ pool' = IF \A v \in Workers \ {w} : wpc[v] # "none" THEN "ready" ELSE pool
    /\ UNCHANGED <<workQueue, queueLocker, queueStat, stop, appendVars, request>>

CreateFails ==
    /\ pool = "constructing"
    /\ pool' = "thrown"
    /\ UNCHANGED <<workQueue, queueLocker, queueStat, stop, appendVars, runVars>>

DetachFails(w) ==
    /\ pool = "constructing"
    /\ wpc[w] = "none"
    /\ wpc' = [wpc EXCEPT ![w] = "loop"]
    /\ pool' = "thrown"
    /\ UNCHANGED <<workQueue, queueLocker, queueStat, stop, appendVars, request>>

\* Destructor, run by the thread that would append, then the destructors of
\* the members.  It waits for no worker and posts no semaphore.
Destroy ==
    /\ pool = "ready"
    /\ \A a \in Appenders : apc[a] = "idle"
    /\ pool' = "destroyed"
    /\ stop' = TRUE
    /\ workQueue' = <<>>
    /\ UNCHANGED <<queueLocker, queueStat, appendVars, runVars>>

-----------------------------------------------------------------------------
(* append(request)                                                         *)

AppendLock(a, r) ==
    /\ pool = "ready"
    /\ apc[a] = "idle"
    /\ lock(a)
    /\ apc' = [apc EXCEPT ![a] = "check"]
    /\ arg' = [arg EXCEPT ![a] = r]
    /\ UNCHANGED <<pool, workQueue, queueStat, stop, runVars>>

\* Mutant: the semaphore is posted on the rejecting path too.
AppendRejectPosts(a) ==
    /\ apc[a] = "check"
    /\ Len(workQueue) > maxRequests
    /\ unlock
    /\ post
    /\ apc' = [apc EXCEPT ![a] = "idle"]
    /\ UNCHANGED <<pool, workQueue, stop, arg, runVars>>

AppendReject(a) ==
    /\ apc[a] = "check"
    /\ Len(workQueue) > maxRequests
    /\ unlock
    /\ apc' = [apc EXCEPT ![a] = "idle"]
    /\ UNCHANGED <<pool, workQueue, queueStat, stop, arg, runVars>>

\* Mutant: no size test before push_back.
AppendPushUnbounded(a) ==
    /\ apc[a] = "check"
    /\ workQueue' = Append(workQueue, arg[a])
    /\ apc' = [apc EXCEPT ![a] = "unlock"]
    /\ UNCHANGED <<pool, queueLocker, queueStat, stop, arg, runVars>>

AppendPush(a) ==
    /\ apc[a] = "check"
    /\ ~(Len(workQueue) > maxRequests)
    /\ workQueue' = Append(workQueue, arg[a])
    /\ apc' = [apc EXCEPT ![a] = "unlock"]
    /\ UNCHANGED <<pool, queueLocker, queueStat, stop, arg, runVars>>

AppendUnlock(a) ==
    /\ apc[a] = "unlock"
    /\ unlock
    /\ apc' = [apc EXCEPT ![a] = "post"]
    /\ UNCHANGED <<pool, workQueue, queueStat, stop, arg, runVars>>

\* Mutant: the semaphore is posted only for the first request of the queue.
AppendPostFirst(a) ==
    /\ apc[a] = "post"
    /\ IF Len(workQueue) = 1 THEN post ELSE UNCHANGED queueStat
    /\ apc' = [apc EXCEPT ![a] = "idle"]
    /\ UNCHANGED <<pool, workQueue, queueLocker, stop, arg, runVars>>

AppendPost(a) ==
    /\ apc[a] = "post"
    /\ post
    /\ apc' = [apc EXCEPT ![a] = "idle"]
    /\ UNCHANGED <<pool, workQueue, queueLocker, stop, arg, runVars>>

-----------------------------------------------------------------------------
(* worker() / run().  A worker can outlive the object: stop is still read  *)
(* as it was left and a blocked sem_wait stays blocked, but a lock or a    *)
(* list access after the members are gone is undefined behaviour.          *)

RunTest(w) ==
    /\ wpc[w] = "loop"
    /\ wpc' = [wpc EXCEPT ![w] = IF stop THEN "exited" ELSE "wait"]
    /\ UNCHANGED <<pool, workQueue, queueLocker, queueStat, stop, appendVars, request>>

RunWait(w) ==
    /\ wpc[w] = "wait"
    /\ wait
    /\ wpc' = [wpc EXCEPT ![w] = "lock"]
    /\ UNCHANGED <<pool, workQueue, queueLocker, stop, appendVars, request>>

\* sem_wait fails with EINTR; run() does not look at the result of wait().
RunInterrupted(w) ==
    /\ Interrupts
    /\ wpc[w] = "wait"
    /\ wpc' = [wpc EXCEPT ![w] = "lock"]
    /\ UNCHANGED <<pool, workQueue, queueLocker, queueStat, stop, appendVars, request>>

\* Mutant: trylock; a busy lock sends the worker back to the loop.
RunTryLock(w) ==
    /\ Alive
    /\ wpc[w] = "lock"
    /\ \/ lock(w) /\ wpc' = [wpc EXCEPT ![w] = "pop"]
       \/ /\ queueLocker # NoThread
          /\ wpc' = [wpc EXCEPT ![w] = "loop"]
          /\ UNCHANGED queueLocker
    /\ UNCHANGED <<pool, workQueue, queueStat, stop, appendVars, request>>

RunLock(w) ==
    /\ Alive
    /\ wpc[w] = "lock"
    /\ lock(w)
    /\ wpc' = [wpc EXCEPT ![w] = "pop"]
    /\ UNCHANGED <<pool, workQueue, queueStat, stop, appendVars, request>>

RunEmpty(w) ==
    /\ Alive
    /\ wpc[w] = "pop"
    /\ workQueue = <<>>
    /\ unlock
    /\ wpc' = [wpc EXCEPT ![w] = "loop"]
    /\ UNCHANGED <<pool, workQueue, queueStat, stop, appendVars, request>>

\* Mutant: the worker takes the back of the list.
RunPopBack(w) ==
    /\ Alive
    /\ wpc[w] = "pop"
    /\ workQueue # <<>>
    /\ request' = [request EXCEPT ![w] = workQueue[Len(workQueue)]]
    /\ workQueue' = SubSeq(workQueue, 1, Len(workQueue) - 1)
    /\ wpc' = [wpc EXCEPT ![w] = "unlock"]
    /\ UNCHANGED <<pool, queueLocker, queueStat, stop, appendVars>>

RunPop(w) ==
    /\ Alive
    /\ wpc[w] = "pop"
    /\ workQueue # <<>>
    /\ request' = [request EXCEPT ![w] = Head(workQueue)]
    /\ workQueue' = Tail(workQueue)
    /\ wpc' = [wpc EXCEPT ![w] = "unlock"]
    /\ UNCHANGED <<pool, queueLocker, queueStat, stop, appendVars>>

RunUnlock(w) ==
    /\ Alive
    /\ wpc[w] = "unlock"
    /\ unlock
    /\ wpc' = [wpc EXCEPT ![w] = IF request[w] = nullptr THEN "loop" ELSE "process"]
    /\ UNCHANGED <<pool, workQueue, queueStat, stop, appendVars, request>>

RunUndefined(w) ==
    /\ ~Alive
    /\ wpc[w] \in {"lock", "pop", "unlock"}
    /\ wpc' = [wpc EXCEPT ![w] = "undefined"]
    /\ UNCHANGED <<pool, workQueue, queueLocker, queueStat, stop, appendVars, request>>

\* request->process() returns; the pointer is local to the loop body.
RunProcess(w) ==
    /\ wpc[w] = "process"
    /\ request' = [request EXCEPT ![w] = nullptr]
    /\ wpc' = [wpc EXCEPT ![w] = "loop"]
    /\ UNCHANGED <<pool, workQueue, queueLocker, queueStat, stop, appendVars>>

-----------------------------------------------------------------------------

append(a) ==
    \/ \E r \in Pointers : AppendLock(a, r)
    \/ AppendReject(a)
    \/ AppendPush(a)
    \/ AppendUnlock(a)
    \/ AppendPost(a)

run(w) ==
    \/ RunTest(w)
    \/ RunWait(w)
    \/ RunInterrupted(w)
    \/ RunLock(w)
    \/ RunEmpty(w)
    \/ RunPop(w)
    \/ RunUnlock(w)
    \/ RunUndefined(w)
    \/ RunProcess(w)

Next ==
    \/ CreateFails
    \/ Destroy
    \/ \E w \in Workers : CreateThread(w) \/ DetachFails(w)
    \/ \E a \in Appenders : append(a)
    \/ \E w \in Workers : run(w)

Spec == Init /\ [][Next]_vars

(***************************************************************************)
(* Fairness.  A thread that can run is scheduled eventually (weak          *)
(* fairness of its steps), and a thread that tries to take queueLocker     *)
(* whenever it is free gets it eventually (strong fairness of the lock).   *)
(* Nobody is obliged to call append(), and sem_wait need never fail.       *)
(***************************************************************************)
Fairness ==
    /\ \A w \in Workers :
          /\ WF_vars(RunTest(w)) /\ WF_vars(RunWait(w))
          /\ SF_vars(RunLock(w))
          /\ WF_vars(RunEmpty(w)) /\ WF_vars(RunPop(w))
          /\ WF_vars(RunUnlock(w)) /\ WF_vars(RunProcess(w))
    /\ \A a \in Appenders :
          /\ WF_vars(AppendReject(a)) /\ WF_vars(AppendPush(a))
          /\ WF_vars(AppendUnlock(a)) /\ WF_vars(AppendPost(a))

FairSpec == Spec /\ Fairness

-----------------------------------------------------------------------------
(* Properties                                                              *)

\* Workers on their way from sem_wait to pop_front: each will take one request.
Coming == {w \in Workers : wpc[w] \in {"lock", "pop"}}

\* Appenders that pushed a request and have not posted queueStat for it yet.
Unposted == {a \in Appenders : apc[a] \in {"unlock", "post"}}

\* The variables hold values of their types.
TypeOK ==
    /\ pool \in PoolStates
    /\ workQueue \in Seq(Pointers)
    /\ queueLocker \in Workers \cup Appenders \cup {NoThread}
    /\ queueStat \in 0..SEM_VALUE_MAX
    /\ stop \in BOOLEAN
    /\ apc \in [Appenders -> AppendPoints]
    /\ arg \in [Appenders -> Pointers]
    /\ wpc \in [Workers -> RunPoints]
    /\ request \in [Workers -> Pointers]

\* The std::list is touched by the owner of queueLocker only: a thread is
\* between lock() and unlock() exactly when it is the recorded holder.
MutualExclusion == Alive =>
    /\ \A a \in Appenders : apc[a] \in {"check", "unlock"} <=> queueLocker = a
    /\ \A w \in Workers : wpc[w] \in {"pop", "unlock"} <=> queueLocker = w

\* No lost wake-up: there are never more queued requests than there are
\* tokens in queueStat, workers coming to pop and appenders about to post,
\* even when sem_wait returns early and when sem_post overflows.
NoStrandedRequest ==
    Len(workQueue) <= queueStat + Cardinality(Coming) + Cardinality(Unposted)

\* While sem_wait is not interrupted the count is exact, so a worker that
\* reached the queue finds a request in it.
TokenConservation ==
    Alive /\ ~Interrupts =>
        /\ Len(workQueue) = queueStat + Cardinality(Coming) + Cardinality(Unposted)
        /\ \A w \in Workers : wpc[w] = "pop" => workQueue # <<>>

\* append() tests the size under the lock, so concurrent appenders cannot
\* push the queue past one more than maxRequests.
QueueBound == Len(workQueue) <= maxRequests + 1

\* A worker leaves run() only after the destructor set stop, and the workers
\* that outlive a failed constructor stay blocked in sem_wait, so they never
\* touch the destroyed members, as long as sem_wait is not interrupted.
OnlyReadyPoolsWork ==
    /\ \A w \in Workers : wpc[w] = "exited" => pool = "destroyed"
    /\ pool \in {"constructing", "thrown"} /\ ~Interrupts =>
          \A w \in Workers : wpc[w] \in {"none", "loop", "wait"}

\* The pool implements the lock-free queue of JobQueue: what workers hold
\* was submitted, comes off the queue in order and is held until finished.
Jobs == INSTANCE JobQueue
            WITH Jobs <- Requests, NoJob <- nullptr, Capacity <- maxRequests + 1,
                 queue <- workQueue, job <- request, closed <- stop

ImplementsJobQueue == Jobs!Spec

\* Every request that append() accepted is processed, unless the pool is
\* destroyed first.
AcceptedIsProcessed ==
    \A r \in Requests :
        (\E i \in 1..Len(workQueue) : workQueue[i] = r)
            ~> (stop \/ \E w \in Workers : wpc[w] = "process" /\ request[w] = r)

=============================================================================
