----------------------------- MODULE WebServer -----------------------------
(***************************************************************************)
(* The whole server (webServer/main.cpp): one main thread that accepts,    *)
(* reads and writes on epoll events, connections registered with           *)
(* EPOLLONESHOT, and the worker threads of the pool that run process() on  *)
(* a connection and then re-arm it.                                        *)
(*                                                                         *)
(* The pool is the job queue that ThreadPool implements.  What a handler   *)
(* does to the fields of one connection is the subject of HttpParser and   *)
(* HttpResponse; here only its outcome counts: which events are armed,     *)
(* whether the connection is closed, and who may touch it next.            *)
(***************************************************************************)
EXTENDS Integers, FiniteSets, FiniteSetsExt, Sequences

CONSTANTS
    Workers,
    NoJob,
    maxRequests,
    RESERVED,       \* descriptors 0 .. RESERVED - 1 are taken: the standard
                    \* streams, listenfd and epollfd
    FD_LIMIT,       \* the process can have descriptors below FD_LIMIT
    MAX_FD,         \* length of the array users
    MAX_EVENT,      \* length of the array events
    BACKLOG         \* bound on clients that wait for accept()

ASSUME ServerAssumption ==
    /\ maxRequests \in Nat \ {0}
    /\ RESERVED \in Nat /\ FD_LIMIT \in Nat /\ RESERVED < FD_LIMIT
    /\ MAX_FD \in Nat /\ MAX_EVENT \in Nat \ {0} /\ BACKLOG \in Nat \ {0}
    /\ NoJob \notin RESERVED .. FD_LIMIT - 1
    /\ IsFiniteSet(Workers)

Fds == RESERVED .. FD_LIMIT - 1
listenfd == RESERVED - 2

VARIABLES
    server,         \* "running", "stopped", or "undefined" after an access
                    \* outside the array users
    backlog,
    open,           \* descriptors of accepted sockets
    live,           \* connections whose field sockfd is not -1
    userCount,
    interest,       \* what epoll watches a socket for
    inData, hup,    \* unread data; the peer has hung up
    events,         \* what is left of the events of this round
    queue, job, closed,
    rearmed,        \* workers that have called modfd() and not returned yet
    dropped         \* connections whose append() returned false

poolVars == <<queue, job, closed>>
netVars == <<backlog, inData, hup>>
connVars == <<open, live, userCount>>
vars == <<server, backlog, open, live, userCount, interest, inData, hup, events,
          queue, job, closed, rearmed, dropped>>

Pool == INSTANCE JobQueue WITH Jobs <- Fds, Capacity <- maxRequests + 1

Masks == {"IN", "OUT", "HUP", "ACCEPT"}
Interests == {"none", "disarmed", "IN", "OUT"}

Init ==
    /\ server = "running"
    /\ backlog = 0
    /\ open = {} /\ live = {}
    /\ userCount = 0
    /\ interest = [f \in Fds |-> "none"]
    /\ inData = {} /\ hup = {}
    /\ events = {}
    /\ Pool!Init
    /\ rearmed = {}
    /\ dropped = {}

-----------------------------------------------------------------------------
(* The clients                                                             *)

clientConnects ==
    /\ backlog < BACKLOG
    /\ backlog' = backlog + 1
    /\ UNCHANGED <<server, connVars, interest, inData, hup, events, poolVars, rearmed, dropped>>

clientSends(f) ==
    /\ f \in open \ hup
    /\ f \notin inData
    /\ inData' = inData \cup {f}
    /\ UNCHANGED <<server, backlog, connVars, interest, hup, events, poolVars, rearmed, dropped>>

clientHangsUp(f) ==
    /\ f \in open \ hup
    /\ hup' = hup \cup {f}
    /\ UNCHANGED <<server, backlog, connVars, interest, inData, events, poolVars, rearmed, dropped>>

-----------------------------------------------------------------------------
(* epoll                                                                   *)

\* Events that are due: EPOLLRDHUP is watched whenever a socket is armed.
Due ==
    (IF backlog > 0 THEN {[fd |-> listenfd, mask |-> "ACCEPT"]} ELSE {})
    \cup {[fd |-> f, mask |-> "HUP"] : f \in {g \in hup : interest[g] \in {"IN", "OUT"}}}
    \cup {[fd |-> f, mask |-> "IN"] : f \in {g \in inData \ hup : interest[g] = "IN"}}

\* Events that may be due, depending on the send buffer.
Writable == {[fd |-> f, mask |-> "OUT"] : f \in {g \in open \ hup : interest[g] = "OUT"}}

\* Mutant: sockets are registered without EPOLLONESHOT.
DisarmNone(reported) == interest

\* EPOLLONESHOT: a socket that is reported is disarmed.
Disarm(reported) ==
    [f \in Fds |-> IF \E e \in reported : e.fd = f THEN "disarmed" ELSE interest[f]]

epoll_wait ==
    /\ server = "running"
    /\ events = {}
    /\ \E reported \in SUBSET (Due \cup Writable) :
          /\ reported # {}
          /\ Cardinality(reported) <= MAX_EVENT
          /\ Cardinality(reported) = MAX_EVENT \/ Due \subseteq reported
          /\ events' = reported
          /\ interest' = Disarm(reported)
    /\ UNCHANGED <<server, netVars, connVars, poolVars, rearmed, dropped>>

\* epoll_wait() fails: main() leaves the loop and deletes the pool.
epollFails ==
    /\ server = "running"
    /\ events = {}
    /\ server' = "stopped"
    /\ Pool!Close
    /\ UNCHANGED <<netVars, connVars, interest, events, rearmed, dropped>>

modfd(f, ev) == interest' = [interest EXCEPT ![f] = ev]

-----------------------------------------------------------------------------
(* The main thread: one handler per event of the round                     *)

\* Mutant: close_conn() does not count down.
closeKeepsCount(f) ==
    /\ live' = live \ {f}
    /\ open' = open \ {f}
    /\ interest' = [interest EXCEPT ![f] = "none"]
    /\ inData' = inData \ {f}
    /\ hup' = hup \ {f}
    /\ UNCHANGED userCount

\* close_conn(); closing the socket discards what the kernel held for it.
close_conn(f) ==
    IF f \in live
    THEN /\ live' = live \ {f}
         /\ open' = open \ {f}
         /\ interest' = [interest EXCEPT ![f] = "none"]
         /\ inData' = inData \ {f}
         /\ hup' = hup \ {f}
         /\ userCount' = userCount - 1
    ELSE UNCHANGED <<connVars, interest, inData, hup>>

\* Mutant: init() does not count up.
initUncounted(f) ==
    /\ open' = open \cup {f}
    /\ live' = live \cup {f}
    /\ interest' = [interest EXCEPT ![f] = "IN"]
    /\ server' = IF f < MAX_FD THEN server ELSE "undefined"
    /\ UNCHANGED userCount

\* users[connfd].init(connfd, addr): registered with EPOLLONESHOT.
init(f) ==
    /\ open' = open \cup {f}
    /\ live' = live \cup {f}
    /\ interest' = [interest EXCEPT ![f] = "IN"]
    /\ userCount' = userCount + 1
    /\ server' = IF f < MAX_FD THEN server ELSE "undefined"

Handles(e) ==
    /\ server = "running"
    /\ e \in events
    /\ events' = events \ {e}

\* accept() fails: no descriptor is left, or the client has gone.
acceptFails(e) ==
    /\ Handles(e)
    /\ e.mask = "ACCEPT"
    /\ backlog' = IF open = Fds THEN backlog ELSE backlog - 1
    /\ UNCHANGED <<server, connVars, interest, inData, hup, poolVars, rearmed, dropped>>

\* accept() returns the lowest free descriptor; with MAX_FD users it is
\* closed at once.
accept(e) ==
    /\ Handles(e)
    /\ e.mask = "ACCEPT"
    /\ open # Fds
    /\ backlog' = backlog - 1
    /\ IF userCount >= MAX_FD
       THEN UNCHANGED <<server, connVars, interest>>
       ELSE init(Min(Fds \ open))
    /\ UNCHANGED <<inData, hup, poolVars, rearmed, dropped>>

hangUp(e) ==
    /\ Handles(e)
    /\ e.mask = "HUP"
    /\ close_conn(e.fd)
    /\ UNCHANGED <<server, backlog, poolVars, rearmed, dropped>>

\* read() succeeds and append() accepts the connection.
readAppends(e) ==
    /\ Handles(e)
    /\ e.mask = "IN"
    /\ inData' = inData \ {e.fd}
    /\ Pool!Submit(e.fd)
    /\ UNCHANGED <<server, backlog, hup, connVars, interest, rearmed, dropped>>

\* append() returns false, and main() does not look at the result.
readRejected(e) ==
    /\ Handles(e)
    /\ e.mask = "IN"
    /\ Len(queue) > maxRequests
    /\ inData' = inData \ {e.fd}
    /\ dropped' = dropped \cup {e.fd}
    /\ UNCHANGED <<server, backlog, hup, connVars, interest, poolVars, rearmed>>

\* read() fails: end of stream, an error, or a full buffer.
readFails(e) ==
    /\ Handles(e)
    /\ e.mask = "IN"
    /\ close_conn(e.fd)
    /\ UNCHANGED <<server, backlog, poolVars, rearmed, dropped>>

\* Mutant: EAGAIN does not re-arm the socket.
writeForgets(e) ==
    /\ Handles(e)
    /\ e.mask = "OUT"
    /\ modfd(e.fd, "IN") \/ UNCHANGED interest
    /\ UNCHANGED <<server, netVars, connVars, poolVars, rearmed, dropped>>

\* write() returns true: EAGAIN re-arms for EPOLLOUT, the end of a lingering
\* response for EPOLLIN.
write(e) ==
    /\ Handles(e)
    /\ e.mask = "OUT"
    /\ modfd(e.fd, "OUT") \/ modfd(e.fd, "IN")
    /\ UNCHANGED <<server, netVars, connVars, poolVars, rearmed, dropped>>

\* write() returns false: an error, or the end of a response.
writeCloses(e) ==
    /\ Handles(e)
    /\ e.mask = "OUT"
    /\ close_conn(e.fd)
    /\ UNCHANGED <<server, backlog, poolVars, rearmed, dropped>>

handle(e) ==
    \/ acceptFails(e) \/ accept(e)
    \/ hangUp(e)
    \/ readAppends(e) \/ readRejected(e) \/ readFails(e)
    \/ write(e) \/ writeCloses(e)

-----------------------------------------------------------------------------
(* The workers                                                             *)

take(w) ==
    /\ server = "running"
    /\ Pool!Take(w)
    /\ UNCHANGED <<server, netVars, connVars, interest, events, rearmed, dropped>>

\* Mutant: an incomplete request does not re-arm the socket.
processForgets(w) ==
    /\ server = "running"
    /\ job[w] # NoJob
    /\ w \notin rearmed
    /\ modfd(job[w], "OUT") \/ UNCHANGED interest
    /\ rearmed' = rearmed \cup {w}
    /\ UNCHANGED <<server, netVars, connVars, events, poolVars, dropped>>

\* process() up to its modfd(): an incomplete request waits for EPOLLIN, a
\* response for EPOLLOUT.  (Its close_conn() is for a response that does not
\* fit into writeBuffer; none of them is that long.)
process(w) ==
    /\ server = "running"
    /\ job[w] # NoJob
    /\ w \notin rearmed
    /\ modfd(job[w], "IN") \/ modfd(job[w], "OUT")
    /\ rearmed' = rearmed \cup {w}
    /\ UNCHANGED <<server, netVars, connVars, events, poolVars, dropped>>

\* Mutant: the worker closes the connection after it has re-armed it.
returnsCloses(w) ==
    /\ server = "running"
    /\ w \in rearmed
    /\ Pool!Finish(w)
    /\ rearmed' = rearmed \ {w}
    /\ close_conn(job[w])
    /\ UNCHANGED <<server, backlog, events, dropped>>

\* The worker returns to the pool; it does not touch the connection again.
returns(w) ==
    /\ server = "running"
    /\ w \in rearmed
    /\ Pool!Finish(w)
    /\ rearmed' = rearmed \ {w}
    /\ UNCHANGED <<server, netVars, connVars, interest, events, dropped>>

main == epoll_wait \/ \E e \in events : handle(e)

client == clientConnects \/ \E f \in Fds : clientSends(f) \/ clientHangsUp(f)

worker(w) == take(w) \/ process(w) \/ returns(w)

Next ==
    \/ server = "running" /\ client
    \/ main
    \/ epollFails
    \/ \E w \in Workers : worker(w)

Spec == Init /\ [][Next]_vars

(***************************************************************************)
(* Fairness: the main thread and the workers keep running.  That process() *)
(* and write() return is the subject of HttpParser and HttpResponse.       *)
(* Clients need not do anything.                                           *)
(***************************************************************************)
FairSpec ==
    /\ Spec
    /\ WF_vars(main)
    /\ \A w \in Workers : WF_vars(worker(w))

-----------------------------------------------------------------------------
(* Properties                                                              *)

Armed == {f \in Fds : interest[f] \in {"IN", "OUT"}}
Reported == {e.fd : e \in events} \ {listenfd}
Queued == {queue[i] : i \in 1 .. Len(queue)}
Busy == {w \in Workers : job[w] # NoJob /\ w \notin rearmed}
InProcess == {job[w] : w \in Busy}

\* The variables hold values of their types.
TypeOK ==
    /\ server \in {"running", "stopped", "undefined"}
    /\ backlog \in 0 .. BACKLOG
    /\ open \subseteq Fds /\ live \subseteq Fds
    /\ userCount \in Nat
    /\ interest \in [Fds -> Interests]
    /\ inData \subseteq Fds /\ hup \subseteq Fds
    /\ events \subseteq [fd : Fds \cup {listenfd}, mask : Masks]
    /\ queue \in Seq(Fds)
    /\ job \in [Workers -> Fds \cup {NoJob}]
    /\ closed \in BOOLEAN
    /\ rearmed \subseteq Workers
    /\ dropped \subseteq Fds

\* The comment at http_conn.cpp:43: EPOLLONESHOT keeps one connection from
\* being handled by two threads.  An accepted connection is in one place at
\* a time (armed, reported to the main thread, queued, or in one worker),
\* and only open connections are in any of them.
SingleOwner ==
    /\ TypeOK
    /\ Armed \cap (Reported \cup Queued \cup InProcess) = {}
    /\ Reported \cap (Queued \cup InProcess) = {}
    /\ Queued \cap InProcess = {}
    /\ Cardinality(Queued) = Len(queue)
    /\ Cardinality(InProcess) = Cardinality(Busy)
    /\ \A e1, e2 \in events : e1.fd = e2.fd => e1 = e2

\* Neither an event, nor the queue, nor a worker refers to a descriptor that
\* has been closed and may since belong to another client.
NoStaleReference ==
    server = "running" => Armed \cup Reported \cup Queued \cup InProcess \subseteq open \cap live

\* userCount is the number of open connections.
UserCountExact == userCount = Cardinality(open) /\ live = open

\* A connection is forgotten, open but neither watched nor about to be
\* handled, exactly when append() refused it.
OnlyRejectionStrands ==
    server = "running" =>
        open \ (Armed \cup Reported \cup Queued \cup InProcess) = dropped

\* If the queue has room for every descriptor, a connection whose peer has
\* hung up is closed.
HangUpIsSeen ==
    \A f \in Fds : f \in open /\ f \in hup ~> f \notin hup \/ server # "running"

\* main.cpp:61 says that the array users holds the data of all clients; the
\* guard against that (userCount >= MAX_FD) counts connections and users is
\* indexed by descriptors.  accept() leaves the array only with the last of
\* more than MAX_FD - RESERVED simultaneous connections: below that number
\* every client has its entry, whatever the order of opens and closes.
ArrayHoldsFewClients ==
    server = "undefined" => userCount > MAX_FD - RESERVED

=============================================================================
