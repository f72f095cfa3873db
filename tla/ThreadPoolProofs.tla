-------------------------- MODULE ThreadPoolProofs --------------------------
(***************************************************************************)
(* Machine-checked theorems about ThreadPool, for any number of workers,   *)
(* appenders and requests and any queue limit.                             *)
(***************************************************************************)
EXTENDS ThreadPool, FiniteSetTheorems, TLAPS

\* The initial state is well typed.
LEMMA TypeInit == Init => TypeOK
<1> SUFFICES ASSUME Init
             PROVE  TypeOK
  OBVIOUS
<1>1. workQueue \in Seq(Pointers)
  BY DEF Init
<1>2. queueStat \in 0..SEM_VALUE_MAX
  BY PoolAssumption DEF PoolAssumption, Init
<1>3. stop \in BOOLEAN
  BY DEF Init
<1>4. /\ pool \in PoolStates
      /\ queueLocker \in Workers \cup Appenders \cup {NoThread}
      /\ apc \in [Appenders -> AppendPoints]
      /\ arg \in [Appenders -> Pointers]
      /\ wpc \in [Workers -> RunPoints]
      /\ request \in [Workers -> Pointers]
  BY DEF Init, PoolStates, AppendPoints, RunPoints, Pointers
<1> QED
  BY <1>1, <1>2, <1>3, <1>4 DEF TypeOK

\* Every step keeps the types.
LEMMA TypeStep == TypeOK /\ [Next]_vars => TypeOK'
<1> SUFFICES ASSUME TypeOK, [Next]_vars
             PROVE  TypeOK'
  OBVIOUS
<1> USE PoolAssumption DEF PoolAssumption, TypeOK, PoolStates, AppendPoints, RunPoints, Pointers,
                           appendVars, runVars
<1>1. CASE CreateFails
  BY <1>1 DEF CreateFails
<1>2. CASE Destroy
  BY <1>2 DEF Destroy
<1>3. ASSUME NEW w \in Workers, CreateThread(w)
      PROVE  TypeOK'
  BY <1>3 DEF CreateThread
<1>4. ASSUME NEW w \in Workers, DetachFails(w)
      PROVE  TypeOK'
  BY <1>4 DEF DetachFails
<1>5. ASSUME NEW a \in Appenders, append(a)
      PROVE  TypeOK'
  <2>1. ASSUME NEW r \in Pointers, AppendLock(a, r)
        PROVE  TypeOK'
    BY <2>1 DEF AppendLock, lock
  <2>2. CASE AppendReject(a)
    BY <2>2 DEF AppendReject, unlock
  <2>3. CASE AppendPush(a)
    BY <2>3 DEF AppendPush
  <2>4. CASE AppendUnlock(a)
    BY <2>4 DEF AppendUnlock, unlock
  <2>5. CASE AppendPost(a)
    BY <2>5 DEF AppendPost, post
  <2> QED
    BY <1>5, <2>1, <2>2, <2>3, <2>4, <2>5 DEF append
<1>6. ASSUME NEW w \in Workers, run(w)
      PROVE  TypeOK'
  <2>1. CASE RunTest(w)
    BY <2>1 DEF RunTest
  <2>2. CASE RunWait(w)
    BY <2>2 DEF RunWait, wait
  <2>3. CASE RunInterrupted(w)
    BY <2>3 DEF RunInterrupted
  <2>4. CASE RunLock(w)
    BY <2>4 DEF RunLock, lock
  <2>5. CASE RunEmpty(w)
    BY <2>5 DEF RunEmpty, unlock
  <2>6. CASE RunPop(w)
    BY <2>6 DEF RunPop
  <2>7. CASE RunUnlock(w)
    BY <2>7 DEF RunUnlock, unlock
  <2>8. CASE RunUndefined(w)
    BY <2>8 DEF RunUndefined
  <2>9. CASE RunProcess(w)
    BY <2>9 DEF RunProcess
  <2> QED
    BY <1>6, <2>1, <2>2, <2>3, <2>4, <2>5, <2>6, <2>7, <2>8, <2>9 DEF run
<1>7. CASE UNCHANGED vars
  BY <1>7 DEF vars
<1> QED
  BY <1>1, <1>2, <1>3, <1>4, <1>5, <1>6, <1>7 DEF Next

\* Every variable of the pool keeps its type: the semaphore never leaves
\* 0..SEM_VALUE_MAX and control never leaves the points of append() and run().
THEOREM TypeCorrect == Spec => []TypeOK
  BY TypeInit, TypeStep, PTL DEF Spec

-----------------------------------------------------------------------------
(* The life cycle of the object, the ownership of the lock and what each   *)
(* worker holds: the inductive invariant behind every other theorem.       *)

LifeCycle ==
    /\ stop <=> pool = "destroyed"
    /\ pool # "ready" => workQueue = <<>> /\ \A a \in Appenders : apc[a] = "idle"
    /\ pool \in {"constructing", "thrown"} => queueStat = 0

HeldRequests ==
    \A w \in Workers :
        /\ wpc[w] \in {"none", "loop", "wait", "lock", "pop", "exited"} => request[w] = nullptr
        /\ wpc[w] = "process" => request[w] # nullptr

PoolInv == TypeOK /\ MutualExclusion /\ QueueBound /\ LifeCycle /\ HeldRequests

\* The lock, the queue bound, the life cycle and the workers' pointers are
\* preserved together by every step of the pool.
LEMMA PoolInvariant == Spec => []PoolInv
<1>1. Init => PoolInv
  <2> SUFFICES ASSUME Init
               PROVE  PoolInv
    OBVIOUS
  <2>1. MutualExclusion
    BY PoolAssumption DEF PoolAssumption, Init, MutualExclusion
  <2>2. QueueBound
    BY PoolAssumption DEF PoolAssumption, Init, QueueBound
  <2>3. LifeCycle /\ HeldRequests
    BY DEF Init, LifeCycle, HeldRequests
  <2>4. TypeOK
    BY TypeInit
  <2> QED
    BY <2>1, <2>2, <2>3, <2>4 DEF PoolInv
<1>2. PoolInv /\ [Next]_vars => PoolInv'
  <2> SUFFICES ASSUME PoolInv, [Next]_vars
               PROVE  PoolInv'
    OBVIOUS
  <2> USE PoolAssumption DEF PoolAssumption
  <2>0. TypeOK'
    BY TypeStep DEF PoolInv
  <2> USE DEF PoolInv, TypeOK, MutualExclusion, QueueBound, LifeCycle, HeldRequests, Alive,
              appendVars, runVars, Pointers
  <2>1. CASE CreateFails
    BY <2>0, <2>1 DEF CreateFails
  <2>2. CASE Destroy
    BY <2>0, <2>2 DEF Destroy
  <2>3. ASSUME NEW w \in Workers, CreateThread(w)
        PROVE  PoolInv'
    BY <2>0, <2>3 DEF CreateThread
  <2>4. ASSUME NEW w \in Workers, DetachFails(w)
        PROVE  PoolInv'
    BY <2>0, <2>4 DEF DetachFails
  <2>5. ASSUME NEW a \in Appenders, append(a)
        PROVE  PoolInv'
    <3>1. ASSUME NEW r \in Pointers, AppendLock(a, r)
          PROVE  PoolInv'
      BY <2>0, <3>1, SMTT(40) DEF AppendLock, lock
    <3>2. CASE AppendReject(a)
      BY <2>0, <3>2, SMTT(40) DEF AppendReject, unlock
    <3>3. CASE AppendPush(a)
      BY <2>0, <3>3, SMTT(40) DEF AppendPush
    <3>4. CASE AppendUnlock(a)
      BY <2>0, <3>4, SMTT(40) DEF AppendUnlock, unlock
    <3>5. CASE AppendPost(a)
      BY <2>0, <3>5 DEF AppendPost, post
    <3> QED
      BY <2>5, <3>1, <3>2, <3>3, <3>4, <3>5 DEF append
  <2>6. ASSUME NEW w \in Workers, run(w)
        PROVE  PoolInv'
    <3>1. CASE RunTest(w)
      BY <2>0, <3>1 DEF RunTest
    <3>2. CASE RunWait(w)
      BY <2>0, <3>2 DEF RunWait, wait
    <3>3. CASE RunInterrupted(w)
      BY <2>0, <3>3 DEF RunInterrupted
    <3>4. CASE RunLock(w)
      BY <2>0, <3>4 DEF RunLock, lock
    <3>5. CASE RunEmpty(w)
      BY <2>0, <3>5, SMTT(40) DEF RunEmpty, unlock
    <3>6. CASE RunPop(w)
      BY <2>0, <3>6, SMTT(40) DEF RunPop
    <3>7. CASE RunUnlock(w)
      BY <2>0, <3>7, SMTT(40) DEF RunUnlock, unlock
    <3>8. CASE RunUndefined(w)
      BY <2>0, <3>8 DEF RunUndefined
    <3>9. CASE RunProcess(w)
      BY <2>0, <3>9 DEF RunProcess
    <3> QED
      BY <2>6, <3>1, <3>2, <3>3, <3>4, <3>5, <3>6, <3>7, <3>8, <3>9 DEF run
  <2>7. CASE UNCHANGED vars
    BY <2>7 DEF vars
  <2> QED
    BY <2>1, <2>2, <2>3, <2>4, <2>5, <2>6, <2>7 DEF Next
<1> QED
  BY <1>1, <1>2, PTL DEF Spec

\* The list of the pool is touched under queueLocker only, for any number of
\* appending threads and workers.
THEOREM MutexCorrect == Spec => []MutualExclusion
<1>1. PoolInv => MutualExclusion
  BY DEF PoolInv
<1> QED
  BY <1>1, PoolInvariant, PTL

\* No interleaving of append() calls takes the queue past maxRequests + 1.
THEOREM QueueBoundCorrect == Spec => []QueueBound
<1>1. PoolInv => QueueBound
  BY DEF PoolInv
<1> QED
  BY <1>1, PoolInvariant, PTL

-----------------------------------------------------------------------------
(* Tokens and requests                                                     *)

\* The two sets that are counted are finite, before and after a step.
LEMMA CountsAreNaturals ==
    /\ IsFiniteSet(Coming) /\ Cardinality(Coming) \in Nat
    /\ IsFiniteSet(Unposted) /\ Cardinality(Unposted) \in Nat
    /\ Cardinality(Coming') \in Nat /\ Cardinality(Unposted') \in Nat
<1>1. /\ Coming \subseteq Workers /\ Unposted \subseteq Appenders
      /\ Coming' \subseteq Workers /\ Unposted' \subseteq Appenders
  BY DEF Coming, Unposted
<1>2. /\ IsFiniteSet(Coming) /\ IsFiniteSet(Unposted)
      /\ IsFiniteSet(Coming') /\ IsFiniteSet(Unposted')
  BY <1>1, PoolAssumption, FS_Subset DEF PoolAssumption
<1> QED
  BY <1>2, FS_CardinalityType

\* How a step moves threads in and out of the counted sets: a worker enters
\* Coming after sem_wait and leaves it at the queue; an appender enters
\* Unposted with push_back and leaves it with sem_post.
LEMMA CountsStep ==
    ASSUME PoolInv
    PROVE  /\ \A w \in Workers : RunWait(w) \/ RunInterrupted(w) =>
                 /\ Cardinality(Coming') = Cardinality(Coming) + 1
                 /\ Unposted' = Unposted
           /\ \A w \in Workers : RunEmpty(w) \/ RunPop(w) =>
                 /\ Cardinality(Coming') = Cardinality(Coming) - 1
                 /\ Unposted' = Unposted
           /\ \A a \in Appenders : AppendPush(a) =>
                 /\ Cardinality(Unposted') = Cardinality(Unposted) + 1
                 /\ Coming' = Coming
           /\ \A a \in Appenders : AppendPost(a) =>
                 /\ Cardinality(Unposted') = Cardinality(Unposted) - 1
                 /\ Coming' = Coming
<1> USE DEF PoolInv, TypeOK, appendVars, runVars
<1>1. ASSUME NEW w \in Workers, RunWait(w) \/ RunInterrupted(w)
      PROVE  /\ Cardinality(Coming') = Cardinality(Coming) + 1
             /\ Unposted' = Unposted
  <2>1. w \notin Coming /\ Coming' = Coming \cup {w}
    BY <1>1 DEF RunWait, RunInterrupted, Coming
  <2>2. Unposted' = Unposted
    BY <1>1 DEF RunWait, RunInterrupted, Unposted
  <2> QED
    BY <2>1, <2>2, CountsAreNaturals, FS_AddElement
<1>2. ASSUME NEW w \in Workers, RunEmpty(w) \/ RunPop(w)
      PROVE  /\ Cardinality(Coming') = Cardinality(Coming) - 1
             /\ Unposted' = Unposted
  <2>1. w \in Coming /\ Coming' = Coming \ {w}
    BY <1>2 DEF RunEmpty, RunPop, Coming
  <2>2. Unposted' = Unposted
    BY <1>2 DEF RunEmpty, RunPop, Unposted
  <2> QED
    BY <2>1, <2>2, CountsAreNaturals, FS_RemoveElement
<1>3. ASSUME NEW a \in Appenders, AppendPush(a)
      PROVE  /\ Cardinality(Unposted') = Cardinality(Unposted) + 1
             /\ Coming' = Coming
  <2>1. a \notin Unposted /\ Unposted' = Unposted \cup {a}
    BY <1>3 DEF AppendPush, Unposted
  <2>2. Coming' = Coming
    BY <1>3 DEF AppendPush, Coming
  <2> QED
    BY <2>1, <2>2, CountsAreNaturals, FS_AddElement
<1>4. ASSUME NEW a \in Appenders, AppendPost(a)
      PROVE  /\ Cardinality(Unposted') = Cardinality(Unposted) - 1
             /\ Coming' = Coming
  <2>1. a \in Unposted /\ Unposted' = Unposted \ {a}
    BY <1>4 DEF AppendPost, Unposted
  <2>2. Coming' = Coming
    BY <1>4 DEF AppendPost, Coming
  <2> QED
    BY <2>1, <2>2, CountsAreNaturals, FS_RemoveElement
<1> QED
  BY <1>1, <1>2, <1>3, <1>4

\* Every other step leaves both sets alone, unless a worker touches the
\* destroyed members.
LEMMA CountsFrame ==
    ASSUME PoolInv
    PROVE  /\ CreateFails \/ Destroy => Coming' = Coming /\ Unposted' = Unposted
           /\ \A w \in Workers :
                 \/ CreateThread(w) \/ DetachFails(w) \/ RunTest(w) \/ RunLock(w)
                 \/ RunUnlock(w) \/ RunProcess(w)
                 => Coming' = Coming /\ Unposted' = Unposted
           /\ \A a \in Appenders :
                 \/ \E r \in Pointers : AppendLock(a, r)
                 \/ AppendReject(a) \/ AppendUnlock(a)
                 => Coming' = Coming /\ Unposted' = Unposted
<1> USE DEF PoolInv, TypeOK, appendVars, runVars, Coming, Unposted
<1>1. CreateFails \/ Destroy => Coming' = Coming /\ Unposted' = Unposted
  BY DEF CreateFails, Destroy
<1>2. ASSUME NEW w \in Workers,
             \/ CreateThread(w) \/ DetachFails(w) \/ RunTest(w) \/ RunLock(w)
             \/ RunUnlock(w) \/ RunProcess(w)
      PROVE  Coming' = Coming /\ Unposted' = Unposted
  BY <1>2 DEF CreateThread, DetachFails, RunTest, RunLock, RunUnlock, RunProcess
<1>3. ASSUME NEW a \in Appenders,
             \/ \E r \in Pointers : AppendLock(a, r)
             \/ AppendReject(a) \/ AppendUnlock(a)
      PROVE  Coming' = Coming /\ Unposted' = Unposted
  BY <1>3 DEF AppendLock, AppendReject, AppendUnlock
<1> QED
  BY <1>1, <1>2, <1>3

\* No wake-up is lost: whatever the interleaving of append() and run(), with
\* sem_wait interrupted at will, each queued request has a token, a worker on
\* its way to the queue, or an appender about to post.
THEOREM NoStrandedRequestCorrect == Spec => []NoStrandedRequest
<1> USE PoolAssumption DEF PoolAssumption
<1>1. Init => NoStrandedRequest
  BY CountsAreNaturals DEF Init, NoStrandedRequest
<1>2. PoolInv /\ PoolInv' /\ NoStrandedRequest /\ [Next]_vars => NoStrandedRequest'
  <2> SUFFICES ASSUME PoolInv, PoolInv', NoStrandedRequest, [Next]_vars
               PROVE  NoStrandedRequest'
    OBVIOUS
  <2>0. /\ Cardinality(Coming) \in Nat /\ Cardinality(Unposted) \in Nat
        /\ Cardinality(Coming') \in Nat /\ Cardinality(Unposted') \in Nat
        /\ queueStat \in Nat /\ queueStat' \in Nat
    BY CountsAreNaturals DEF PoolInv, TypeOK
  <2>9. workQueue \in Seq(Pointers)
    BY DEF PoolInv, TypeOK
  <2>1. CASE workQueue' = <<>>
    BY <2>0, <2>1 DEF NoStrandedRequest
  <2>2. CASE workQueue' = workQueue /\ queueStat' = queueStat
             /\ Coming' = Coming /\ Unposted' = Unposted
    BY <2>2 DEF NoStrandedRequest
  <2>3. CASE CreateFails
    BY <2>2, <2>3, CountsFrame DEF CreateFails
  <2>4. CASE Destroy
    BY <2>1, <2>4 DEF Destroy
  <2>5. ASSUME NEW w \in Workers, CreateThread(w) \/ DetachFails(w)
        PROVE  NoStrandedRequest'
    BY <2>2, <2>5, CountsFrame DEF CreateThread, DetachFails
  <2>6. ASSUME NEW a \in Appenders, append(a)
        PROVE  NoStrandedRequest'
    <3>1. ASSUME NEW r \in Pointers, AppendLock(a, r)
          PROVE  NoStrandedRequest'
      BY <2>2, <3>1, CountsFrame DEF AppendLock
    <3>2. CASE AppendReject(a) \/ AppendUnlock(a)
      BY <2>2, <3>2, CountsFrame DEF AppendReject, AppendUnlock
    <3>3. CASE AppendPush(a)
      <4>0. workQueue' = Append(workQueue, arg[a]) /\ queueStat' = queueStat
        BY <3>3 DEF AppendPush
      <4>1. Len(workQueue') = Len(workQueue) + 1 /\ queueStat' = queueStat
        BY <2>9, <4>0
      <4>2. /\ Cardinality(Coming') = Cardinality(Coming)
            /\ Cardinality(Unposted') = Cardinality(Unposted) + 1
        BY <3>3, CountsStep
      <4>3. Len(workQueue) \in Nat
        BY <2>9
      <4>4. Len(workQueue) <= queueStat + Cardinality(Coming) + Cardinality(Unposted)
        BY DEF NoStrandedRequest
      <4>5. Len(workQueue') <= queueStat' + Cardinality(Coming') + Cardinality(Unposted')
        BY <2>0, <4>1, <4>2, <4>3, <4>4
      <4> QED
        BY <4>5 DEF NoStrandedRequest
    <3>4. CASE AppendPost(a)
      <4>1. workQueue' = workQueue /\ post
        BY <3>4 DEF AppendPost
      <4>2. CASE queueStat < SEM_VALUE_MAX
        <5>1. /\ Cardinality(Coming') = Cardinality(Coming)
              /\ Cardinality(Unposted') = Cardinality(Unposted) - 1
          BY <3>4, CountsStep
        <5>2. queueStat' = queueStat + 1
          BY <4>1, <4>2 DEF post
        <5> QED
          BY <2>0, <4>1, <5>1, <5>2 DEF NoStrandedRequest
      <4>3. CASE ~(queueStat < SEM_VALUE_MAX)
        BY <2>0, <4>1, <4>3, SMTT(40) DEF post, NoStrandedRequest, PoolInv, TypeOK, QueueBound
      <4> QED
        BY <4>2, <4>3
    <3> QED
      BY <2>6, <3>1, <3>2, <3>3, <3>4 DEF append
  <2>7. ASSUME NEW w \in Workers, run(w)
        PROVE  NoStrandedRequest'
    <3>1. CASE RunTest(w) \/ RunLock(w) \/ RunUnlock(w) \/ RunProcess(w)
      BY <2>2, <3>1, CountsFrame DEF RunTest, RunLock, RunUnlock, RunProcess
    <3>2. CASE RunWait(w) \/ RunInterrupted(w)
      <4>1. /\ Cardinality(Coming') = Cardinality(Coming) + 1
            /\ Cardinality(Unposted') = Cardinality(Unposted)
        BY <3>2, CountsStep
      <4>2. CASE RunWait(w)
        <5>1. workQueue' = workQueue /\ queueStat' = queueStat - 1
          BY <4>2 DEF RunWait, wait
        <5> QED
          BY <2>0, <4>1, <5>1, SMTT(20) DEF NoStrandedRequest
      <4>3. CASE RunInterrupted(w)
        <5>1. workQueue' = workQueue /\ queueStat' = queueStat
          BY <4>3 DEF RunInterrupted
        <5> QED
          BY <2>0, <4>1, <5>1, SMTT(20) DEF NoStrandedRequest
      <4> QED
        BY <3>2, <4>2, <4>3
    <3>3. CASE RunEmpty(w)
      BY <2>1, <3>3 DEF RunEmpty
    <3>4. CASE RunPop(w)
      <4>0. workQueue # <<>> /\ workQueue' = Tail(workQueue) /\ queueStat' = queueStat
        BY <3>4 DEF RunPop
      <4>1. Len(workQueue') = Len(workQueue) - 1 /\ queueStat' = queueStat
        BY <2>9, <4>0
      <4>2. /\ Cardinality(Coming') = Cardinality(Coming) - 1
            /\ Cardinality(Unposted') = Cardinality(Unposted)
        BY <3>4, CountsStep
      <4>3. Len(workQueue) \in Nat
        BY <2>9
      <4>4. Len(workQueue) <= queueStat + Cardinality(Coming) + Cardinality(Unposted)
        BY DEF NoStrandedRequest
      <4>5. Len(workQueue') <= queueStat' + Cardinality(Coming') + Cardinality(Unposted')
        BY <2>0, <4>1, <4>2, <4>3, <4>4
      <4> QED
        BY <4>5 DEF NoStrandedRequest
    <3>5. CASE RunUndefined(w)
      BY <2>1, <3>5 DEF RunUndefined, Alive, PoolInv, LifeCycle
    <3> QED
      BY <2>7, <3>1, <3>2, <3>3, <3>4, <3>5 DEF run
  <2>8. CASE UNCHANGED vars
    BY <2>8 DEF vars, NoStrandedRequest, Coming, Unposted
  <2> QED
    BY <2>3, <2>4, <2>5, <2>6, <2>7, <2>8 DEF Next
<1> QED
  BY <1>1, <1>2, PoolInvariant, PTL DEF Spec

-----------------------------------------------------------------------------
(* The pool implements the job queue                                       *)

\* Every step of the locked, semaphore-driven pool is a step of the FIFO job
\* queue or leaves it alone: push_back is Submit, pop_front is Take, the
\* return of process() is Finish and the destructor is Close.
THEOREM PoolImplementsJobQueue == Spec => ImplementsJobQueue
<1> USE PoolAssumption DEF PoolAssumption
<1>1. Init => Jobs!Init
  BY DEF Init, Jobs!Init
<1>2. PoolInv /\ [Next]_vars => [Jobs!Next]_(Jobs!jobVars)
  <2> SUFFICES ASSUME PoolInv, [Next]_vars
               PROVE  Jobs!Next \/ UNCHANGED <<workQueue, request, stop>>
    BY DEF Jobs!jobVars
  <2> USE DEF appendVars, runVars
  <2>1. CASE CreateFails
    BY <2>1 DEF CreateFails
  <2>2. CASE Destroy
    <3>1. Jobs!Close
      BY <2>2 DEF Destroy, Jobs!Close, PoolInv, LifeCycle, TypeOK
    <3> QED
      BY <3>1 DEF Jobs!Next
  <2>3. ASSUME NEW w \in Workers, CreateThread(w) \/ DetachFails(w)
        PROVE  UNCHANGED <<workQueue, request, stop>>
    BY <2>3 DEF CreateThread, DetachFails
  <2>4. ASSUME NEW a \in Appenders, append(a)
        PROVE  Jobs!Next \/ UNCHANGED <<workQueue, request, stop>>
    <3>1. CASE AppendPush(a)
      <4>1. arg[a] \in Requests \cup {nullptr}
        BY DEF PoolInv, TypeOK, Pointers
      <4>2. pool = "ready"
        BY <3>1 DEF AppendPush, PoolInv, LifeCycle
      <4>3. ~stop
        BY <4>2 DEF PoolInv, LifeCycle
      <4>4. Len(workQueue) < maxRequests + 1
        BY <3>1 DEF AppendPush, PoolInv, TypeOK
      <4>5. Jobs!Submit(arg[a])
        BY <3>1, <4>3, <4>4 DEF AppendPush, Jobs!Submit
      <4> QED
        BY <4>1, <4>5 DEF Jobs!Next
    <3>2. CASE ~AppendPush(a)
      BY <2>4, <3>2 DEF append, AppendLock, AppendReject, AppendUnlock, AppendPost
    <3> QED
      BY <3>1, <3>2
  <2>5. ASSUME NEW w \in Workers, run(w)
        PROVE  Jobs!Next \/ UNCHANGED <<workQueue, request, stop>>
    <3>1. CASE RunPop(w)
      <4>1. ~stop
        BY <3>1 DEF RunPop, Alive, PoolInv, LifeCycle
      <4>2. request[w] = nullptr
        BY <3>1 DEF RunPop, PoolInv, HeldRequests
      <4>3. Jobs!Take(w)
        BY <3>1, <4>1, <4>2 DEF RunPop, Jobs!Take
      <4> QED
        BY <4>3 DEF Jobs!Next
    <3>2. CASE RunProcess(w)
      <4>1. request[w] # nullptr
        BY <3>2 DEF RunProcess, PoolInv, HeldRequests
      <4>2. Jobs!Finish(w)
        BY <3>2, <4>1 DEF RunProcess, Jobs!Finish
      <4> QED
        BY <4>2 DEF Jobs!Next
    <3>3. CASE ~RunPop(w) /\ ~RunProcess(w)
      BY <2>5, <3>3 DEF run, RunTest, RunWait, RunInterrupted, RunLock, RunEmpty,
                        RunUnlock, RunUndefined
    <3> QED
      BY <3>1, <3>2, <3>3
  <2>6. CASE UNCHANGED vars
    BY <2>6 DEF vars
  <2> QED
    BY <2>1, <2>2, <2>3, <2>4, <2>5, <2>6 DEF Next
<1> QED
  BY <1>1, <1>2, PoolInvariant, PTL DEF Spec, ImplementsJobQueue, Jobs!Spec

=============================================================================
