-------------------------- MODULE WebServerProofs --------------------------
(***************************************************************************)
(* Machine-checked theorems about WebServer, for any number of workers and *)
(* descriptors, any queue limit and any lengths of users and events.       *)
(***************************************************************************)
EXTENDS WebServer, FiniteSetTheorems, SequenceTheorems,
        WellFoundedInduction, TLAPS

\* A round holds at most one event per descriptor, and an ACCEPT event only
\* while a client waits.
Rounds ==
    /\ \A e \in events : e.fd = listenfd <=> e.mask = "ACCEPT"
    /\ \A e \in events : e.mask = "ACCEPT" => backlog > 0
    /\ \A e1, e2 \in events : e1.fd = e2.fd => e1 = e2

\* Exactly the open connections are registered with epoll.
Watched ==
    /\ live = open
    /\ \A f \in Fds : interest[f] = "none" <=> f \notin open

\* Whoever holds a connection holds it disarmed ...
Held ==
    /\ \A e \in events : e.fd # listenfd => interest[e.fd] = "disarmed"
    /\ \A i \in 1 .. Len(queue) : interest[queue[i]] = "disarmed"
    /\ \A w \in Busy : interest[job[w]] = "disarmed"

\* ... and alone.
Apart ==
    /\ \A e \in events : \A i \in 1 .. Len(queue) : e.fd # queue[i]
    /\ \A e \in events : \A w \in Busy : e.fd # job[w]
    /\ \A w \in Busy : \A i \in 1 .. Len(queue) : queue[i] # job[w]
    /\ \A i, j \in 1 .. Len(queue) : queue[i] = queue[j] => i = j
    /\ \A v, w \in Busy : job[v] = job[w] => v = w

\* A disarmed connection that nobody holds was refused by append().
Forgotten ==
    server = "running" =>
        \A f \in Fds :
            f \in dropped <=> /\ interest[f] = "disarmed"
                              /\ \A e \in events : e.fd # f
                              /\ \A i \in 1 .. Len(queue) : queue[i] # f
                              /\ \A w \in Busy : job[w] # f

Types == /\ server \in {"running", "stopped", "undefined"}
         /\ backlog \in 0 .. BACKLOG
         /\ open \subseteq Fds
         /\ interest \in [Fds -> Interests]
         /\ inData \subseteq Fds /\ hup \subseteq Fds
         /\ events \subseteq [fd : Fds \cup {listenfd}, mask : Masks]
         /\ queue \in Seq(Fds)
         /\ job \in [Workers -> Fds \cup {NoJob}]
         /\ closed \in BOOLEAN
         /\ rearmed \subseteq Workers
         /\ dropped \subseteq Fds

\* A worker that has called modfd() still has its job.
Returning == \A w \in rearmed : job[w] # NoJob

\* The part of the invariant that is about who holds which connection.
Ownership == Types /\ Rounds /\ Returning /\ Watched /\ Held /\ Apart /\ Forgotten

\* listenfd is none of the descriptors of clients, NoJob neither.
LEMMA NotClients == /\ listenfd \notin Fds /\ NoJob \notin Fds /\ Fds \subseteq Nat
                    /\ MAX_FD \in Nat /\ RESERVED \in Nat /\ BACKLOG \in Nat
  BY ServerAssumption DEF ServerAssumption, Fds, listenfd

\* The lowest free descriptor, and that all below it are in use.
LEMMA LowestFree ==
    ASSUME open \subseteq Fds, open # Fds
    PROVE  /\ Min(Fds \ open) \in Fds \ open
           /\ RESERVED .. (Min(Fds \ open) - 1) \subseteq open
<1>1. Fds \ open # {} /\ Fds \ open \subseteq Nat
  BY NotClients
<1>2. PICK m \in Fds \ open : \A y \in Fds \ open : m <= y
  <2>1. OpToRel(<, Nat) = {p \in Nat \X Nat : p[1] < p[2]}
    BY Zenon DEF OpToRel
  <2>2. PICK m \in Fds \ open : \A y \in Fds \ open : <<y, m>> \notin OpToRel(<, Nat)
    BY <1>1, NatLessThanWellFounded, WFMin
  <2>3. \A y \in Fds \ open : <<y, m>> \notin {p \in Nat \X Nat : p[1] < p[2]}
    BY <2>1, <2>2, Zenon
  <2>4. \A y \in Fds \ open : ~(y < m)
    <3> TAKE y \in Fds \ open
    <3>1. <<y, m>> \in Nat \X Nat /\ <<y, m>>[1] = y /\ <<y, m>>[2] = m
      BY <1>1
    <3> QED
      BY <2>3, <3>1, Zenon
  <2> QED
    BY <1>1, <2>4, SMT
<1>3. PICK n \in Nat : n = Min(Fds \ open)
  BY <1>1, <1>2 DEF Min
<1>4. n \in Fds \ open /\ \A y \in Fds \ open : n <= y
  BY <1>2, <1>3 DEF Min
<1>5. \A y \in RESERVED .. (n - 1) : y \in Fds /\ ~(n <= y)
  BY <1>4, ServerAssumption DEF Fds, ServerAssumption
<1> QED
  BY <1>3, <1>4, <1>5

\* The elements of a queue that has grown, and of one that has shrunk.
LEMMA AppendedAt ==
    ASSUME NEW S, NEW q \in Seq(S), NEW x \in S, NEW r, r = Append(q, x)
    PROVE  /\ r \in Seq(S) /\ Len(q) \in Nat /\ Len(r) = Len(q) + 1
           /\ \A i \in 1 .. Len(q) : r[i] = q[i]
           /\ r[Len(q) + 1] = x
           /\ \A i \in 1 .. Len(r) : \/ i \in 1 .. Len(q) /\ r[i] = q[i]
                                     \/ i = Len(q) + 1 /\ r[i] = x
  BY AppendProperties, LenProperties

LEMMA TailAt ==
    ASSUME NEW S, NEW q \in Seq(S), q # <<>>, NEW r, r = Tail(q)
    PROVE  /\ 1 \in 1 .. Len(q) /\ Len(q) \in Nat \ {0}
           /\ r \in Seq(S) /\ Len(r) = Len(q) - 1
           /\ Head(q) = q[1] /\ Head(q) \in S
           /\ \A i \in 1 .. Len(r) : i + 1 \in 1 .. Len(q) /\ i + 1 # 1 /\ r[i] = q[i + 1]
           /\ \A i \in 1 .. Len(q) : i = 1 \/ (i - 1 \in 1 .. Len(r) /\ r[i - 1] = q[i])
<1>1. Len(q) \in Nat \ {0} /\ Head(q) = q[1] /\ Head(q) \in S /\ r \in Seq(S)
  BY EmptySeq, LenProperties, HeadTailProperties
<1>2. Len(r) = Len(q) - 1 /\ \A i \in 1 .. Len(r) : r[i] = q[i + 1]
  BY HeadTailProperties
<1>3. \A i \in 1 .. Len(q) : i = 1 \/ (i - 1 \in 1 .. Len(r) /\ r[i - 1] = q[i])
  BY <1>1, <1>2
<1>4. 1 \in 1 .. Len(q) /\ \A i \in 1 .. Len(r) : i + 1 \in 1 .. Len(q) /\ i + 1 # 1
  BY <1>1, <1>2
<1> QED
  BY <1>1, <1>2, <1>3, <1>4

\* Nobody holds a connection at the start.
LEMMA OwnershipInit == Init => Ownership
<1> SUFFICES ASSUME Init PROVE Ownership
  OBVIOUS
<1>1. queue = <<>> /\ Len(queue) = 0 /\ queue \in Seq(Fds)
  BY DEF Init, Pool!Init
<1>2. Types
  <2>1. closed \in BOOLEAN
    BY DEF Init, Pool!Init
  <2>2. job \in [Workers -> Fds \cup {NoJob}] /\ interest \in [Fds -> Interests]
    BY DEF Init, Pool!Init, Interests
  <2>3. backlog \in 0 .. BACKLOG
    BY NotClients DEF Init
  <2> QED
    BY <1>1, <2>1, <2>2, <2>3 DEF Init, Types
<1>3. Rounds /\ Returning
  BY DEF Init, Rounds, Returning
<1>4. Busy = {}
  BY DEF Init, Pool!Init, Busy
<1>5. Watched /\ Held /\ Apart
  BY <1>1, <1>4 DEF Init, Watched, Held, Apart
<1>6. Forgotten
  BY DEF Init, Forgotten
<1> QED
  BY <1>2, <1>3, <1>5, <1>6 DEF Ownership

\* Clients only change what the kernel holds for a socket.
LEMMA ClientKeeps == Ownership /\ client => Ownership'
<1> SUFFICES ASSUME Ownership, client PROVE Ownership'
  OBVIOUS
<1> USE NotClients DEF poolVars, connVars
<1>own. Types /\ Rounds /\ Returning /\ Watched /\ Held /\ Apart /\ Forgotten
  BY DEF Ownership
<1>0. /\ backlog' \in 0 .. BACKLOG /\ backlog' >= backlog
      /\ inData' \subseteq Fds /\ hup' \subseteq Fds
      /\ UNCHANGED <<server, open, live, interest, events, queue, job, closed, rearmed, dropped>>
  <2> USE <1>own DEF Types
  <2>1. CASE clientConnects
    BY <2>1 DEF clientConnects
  <2>2. ASSUME NEW f \in Fds, clientSends(f) \/ clientHangsUp(f)
        PROVE  /\ inData' \subseteq Fds /\ hup' \subseteq Fds
               /\ UNCHANGED <<server, backlog, open, live, interest, events, queue, job, closed,
                              rearmed, dropped>>
    BY <2>2 DEF clientSends, clientHangsUp
  <2> QED
    BY <2>1, <2>2 DEF client
<1>1. Types'
  BY <1>own, <1>0 DEF Types
<1>2. Rounds' /\ Returning'
  BY <1>own, <1>0 DEF Rounds, Returning, Types
<1>3. Watched' /\ Held' /\ Apart' /\ Forgotten'
  BY <1>own, <1>0 DEF Watched, Held, Apart, Forgotten, Busy
<1> QED
  BY <1>1, <1>2, <1>3 DEF Ownership

\* EPOLLONESHOT: what epoll_wait() reports was armed, so nobody held it.
LEMMA WaitKeeps == Ownership /\ epoll_wait => Ownership'
<1> SUFFICES ASSUME Ownership, epoll_wait PROVE Ownership'
  OBVIOUS
<1> USE NotClients DEF poolVars, connVars, netVars
<1>own. Types /\ Rounds /\ Returning /\ Watched /\ Held /\ Apart /\ Forgotten
  BY DEF Ownership
<1>1. PICK reported \in SUBSET (Due \cup Writable) :
         events' = reported /\ interest' = Disarm(reported)
  BY DEF epoll_wait
<1>2. /\ events = {} /\ server = "running"
      /\ UNCHANGED <<server, backlog, inData, hup, open, live, queue, job, closed, rearmed, dropped>>
  BY DEF epoll_wait
<1>3. \A e \in reported :
         \/ /\ e = [fd |-> listenfd, mask |-> "ACCEPT"] /\ backlog > 0
            /\ e.fd = listenfd /\ e.mask = "ACCEPT"
         \/ /\ e.fd \in Fds /\ e \in [fd : Fds, mask : {"IN", "OUT", "HUP"}]
            /\ interest[e.fd] \in {"IN", "OUT"}
            /\ e.mask = "HUP" => e.fd \in hup
            /\ e.mask # "HUP" => e.fd \notin hup /\ interest[e.fd] = e.mask
  BY <1>own, <1>1 DEF Due, Writable, Types
<1>4. \A e1, e2 \in reported : e1.fd = e2.fd => e1 = e2
  BY <1>3
<1>5. \A f \in Fds : interest'[f] = IF \E e \in reported : e.fd = f THEN "disarmed" ELSE interest[f]
  BY <1>1 DEF Disarm
<1>6. Types'
  <2>1. interest' \in [Fds -> Interests]
    BY <1>own, <1>1 DEF Disarm, Types, Interests
  <2>2. events' \subseteq [fd : Fds \cup {listenfd}, mask : Masks]
    BY <1>1, <1>3 DEF Masks
  <2> QED
    BY <1>own, <1>2, <2>1, <2>2 DEF Types
<1>7. Rounds' /\ Returning'
  BY <1>own, <1>1, <1>2, <1>3, <1>4 DEF Rounds, Returning
<1>8. Watched' /\ Held' /\ Apart'
  <2>1. /\ \A i \in 1 .. Len(queue) : queue[i] \in Fds /\ interest[queue[i]] = "disarmed"
        /\ \A w \in Busy : job[w] \in Fds /\ interest[job[w]] = "disarmed"
    BY <1>own DEF Types, Held, Busy
  <2>2. Busy' = Busy
    BY <1>2 DEF Busy
  <2>3. \A f \in Fds : interest'[f] = "none" <=> f \notin open'
    <3>1. \A e \in reported : e.fd \in Fds => interest[e.fd] # "none"
      BY <1>3, NotClients
    <3> QED
      BY <1>own, <1>2, <1>5, <3>1 DEF Watched
  <2>4. \A e \in events' : e.fd # listenfd => interest'[e.fd] = "disarmed"
    BY <1>1, <1>3, <1>5
  <2>5. /\ \A i \in 1 .. Len(queue') : interest'[queue'[i]] = "disarmed"
        /\ \A w \in Busy' : interest'[job'[w]] = "disarmed"
    BY <1>2, <1>5, <2>1, <2>2
  <2>6. /\ \A e \in events' : \A i \in 1 .. Len(queue') : e.fd # queue'[i]
        /\ \A e \in events' : \A w \in Busy' : e.fd # job'[w]
    BY <1>1, <1>2, <1>3, <2>1, <2>2
  <2> QED
    BY <1>own, <1>2, <2>2, <2>3, <2>4, <2>5, <2>6 DEF Watched, Held, Apart
<1>9. Forgotten'
  <2>1. Busy' = Busy
    BY <1>2 DEF Busy
  <2> QED
    BY <1>own, <1>1, <1>2, <1>3, <1>5, <2>1 DEF Forgotten
<1> QED
  BY <1>6, <1>7, <1>8, <1>9 DEF Ownership

\* The destructor of the pool drops the queue; the server has stopped.
LEMMA StopKeeps == Ownership /\ epollFails => Ownership'
<1> SUFFICES ASSUME Ownership, epollFails PROVE Ownership'
  OBVIOUS
<1>own. Types /\ Rounds /\ Returning /\ Watched /\ Held /\ Apart /\ Forgotten
  BY DEF Ownership
<1>1. /\ server' = "stopped" /\ queue' = <<>> /\ closed' = TRUE
      /\ UNCHANGED <<backlog, inData, hup, open, live, interest, events, job, rearmed, dropped>>
  BY DEF epollFails, Pool!Close, netVars, connVars
<1>2. Len(queue') = 0 /\ queue' \in Seq(Fds) /\ closed' \in BOOLEAN
  BY <1>1
<1>3. Types'
  BY <1>own, <1>1, <1>2 DEF Types
<1>4. Rounds' /\ Returning' /\ Forgotten'
  BY <1>own, <1>1 DEF Rounds, Returning, Forgotten
<1>5. Busy' = Busy
  BY <1>1 DEF Busy
<1>6. Watched' /\ Held' /\ Apart'
  <2>1. Watched'
    BY <1>own, <1>1 DEF Watched
  <2>2. Held'
    BY <1>own, <1>1, <1>2, <1>5 DEF Held
  <2>3. Apart'
    BY <1>own, <1>1, <1>2, <1>5 DEF Apart
  <2> QED
    BY <2>1, <2>2, <2>3
<1> QED
  BY <1>3, <1>4, <1>6 DEF Ownership

\* What the invariant says of the descriptor of an event.
Alone(e) ==
    /\ e.mask # "ACCEPT" => /\ e.fd \in open \cap Fds /\ e.fd # listenfd
                            /\ interest[e.fd] = "disarmed"
    /\ e.mask = "ACCEPT" => e.fd = listenfd /\ backlog \in 1 .. BACKLOG
    /\ \A g \in events \ {e} : g.fd # e.fd
    /\ \A i \in 1 .. Len(queue) : queue[i] \in Fds /\ queue[i] # e.fd
    /\ \A w \in Busy : job[w] \in Fds /\ job[w] # e.fd

LEMMA EventFacts == ASSUME Ownership, NEW e \in events PROVE Alone(e)
<1>own. Types /\ Rounds /\ Returning /\ Watched /\ Held /\ Apart /\ Forgotten
  BY DEF Ownership
<1>1. e.fd \in Fds \cup {listenfd} /\ (e.fd = listenfd <=> e.mask = "ACCEPT")
  BY <1>own DEF Types, Rounds
<1>2. e.mask = "ACCEPT" => backlog \in 1 .. BACKLOG
  BY <1>own, NotClients DEF Types, Rounds
<1>3. \A g \in events \ {e} : g.fd # e.fd
  BY <1>own DEF Rounds
<1>4. e.mask # "ACCEPT" => interest[e.fd] = "disarmed" /\ e.fd \in open
  BY <1>own, <1>1 DEF Watched, Held
<1>5. \A i \in 1 .. Len(queue) : queue[i] \in Fds /\ queue[i] # e.fd
  BY <1>own DEF Types, Apart
<1>6. \A w \in Busy : job[w] \in Fds /\ job[w] # e.fd
  BY <1>own DEF Types, Apart, Busy
<1> QED
  BY <1>1, <1>2, <1>3, <1>4, <1>5, <1>6, NotClients DEF Alone

\* close_conn() of a connection that the main thread holds.
LEMMA CloseKeeps ==
    ASSUME Ownership, NEW e \in events, Handles(e), e.mask # "ACCEPT", close_conn(e.fd),
           UNCHANGED <<server, backlog, poolVars, rearmed, dropped>>
    PROVE  Ownership'
<1> USE DEF poolVars
<1>own. Types /\ Rounds /\ Returning /\ Watched /\ Held /\ Apart /\ Forgotten
  BY DEF Ownership
<1>ev. Alone(e)
  BY EventFacts
<1>1. /\ e.fd \in Fds /\ e.fd \in live /\ live = open
      /\ events' = events \ {e}
      /\ UNCHANGED <<server, backlog, queue, job, closed, rearmed, dropped>>
  BY <1>own, <1>ev DEF Handles, Watched, Alone
<1>2. /\ live' = live \ {e.fd} /\ open' = open \ {e.fd}
      /\ interest' = [interest EXCEPT ![e.fd] = "none"]
      /\ inData' = inData \ {e.fd} /\ hup' = hup \ {e.fd}
  BY <1>1 DEF close_conn
<1>3. \A f \in Fds : interest'[f] = IF f = e.fd THEN "none" ELSE interest[f]
  BY <1>own, <1>1, <1>2 DEF Types
<1>4. Types'
  <2>1. interest' \in [Fds -> Interests]
    BY <1>own, <1>1, <1>2 DEF Types, Interests
  <2> QED
    BY <1>own, <1>1, <1>2, <2>1 DEF Types
<1>5. Rounds' /\ Returning'
  BY <1>own, <1>1 DEF Rounds, Returning
<1>6. Busy' = Busy
  BY <1>1 DEF Busy
<1>7. Watched' /\ Apart'
  <2>1. Watched'
    BY <1>own, <1>1, <1>2, <1>3 DEF Watched
  <2>2. Apart'
    BY <1>own, <1>1, <1>6 DEF Apart
  <2> QED
    BY <2>1, <2>2
<1>8. Held'
  <2>1. \A g \in events' : g.fd # listenfd => interest'[g.fd] = "disarmed"
    <3>1. \A g \in events' : g.fd # e.fd /\ g.fd \in Fds \cup {listenfd}
      BY <1>own, <1>1, <1>ev DEF Types, Alone
    <3> QED
      BY <1>own, <1>1, <1>3, <3>1 DEF Held
  <2>2. \A i \in 1 .. Len(queue') : interest'[queue'[i]] = "disarmed"
    BY <1>own, <1>1, <1>3, <1>ev DEF Held, Alone
  <2>3. \A w \in Busy' : interest'[job'[w]] = "disarmed"
    BY <1>own, <1>1, <1>3, <1>6, <1>ev DEF Held, Alone
  <2> QED
    BY <2>1, <2>2, <2>3 DEF Held
<1>9. Forgotten'
  BY <1>own, <1>1, <1>3, <1>6, <1>ev DEF Forgotten, Alone
<1> QED
  BY <1>4, <1>5, <1>7, <1>9, <1>8 DEF Ownership

\* A connection whose event is handled by re-arming it is watched again.
LEMMA WriteKeeps == ASSUME Ownership, NEW e \in events, write(e) PROVE Ownership'
<1> USE DEF poolVars, connVars, netVars
<1>own. Types /\ Rounds /\ Returning /\ Watched /\ Held /\ Apart /\ Forgotten
  BY DEF Ownership
<1>ev. Alone(e)
  BY EventFacts
<1>1. PICK ev \in {"IN", "OUT"} : interest' = [interest EXCEPT ![e.fd] = ev]
  BY DEF write, modfd
<1>2. /\ e.fd \in Fds /\ e.fd \in open /\ interest[e.fd] = "disarmed"
      /\ events' = events \ {e}
      /\ UNCHANGED <<server, backlog, inData, hup, open, live, queue, job, closed, rearmed, dropped>>
  BY <1>ev DEF write, Handles, Alone
<1>3. \A f \in Fds : interest'[f] = IF f = e.fd THEN ev ELSE interest[f]
  BY <1>own, <1>1, <1>2 DEF Types
<1>4. Types'
  <2>1. interest' \in [Fds -> Interests]
    BY <1>own, <1>1, <1>2 DEF Types, Interests
  <2> QED
    BY <1>own, <1>2, <2>1 DEF Types
<1>5. Rounds' /\ Returning'
  BY <1>own, <1>2 DEF Rounds, Returning
<1>6. Busy' = Busy
  BY <1>2 DEF Busy
<1>7. Watched' /\ Apart'
  <2>1. Watched'
    BY <1>own, <1>2, <1>3 DEF Watched
  <2>2. Apart'
    BY <1>own, <1>2, <1>6 DEF Apart
  <2> QED
    BY <2>1, <2>2
<1>8. Held'
  <2>1. \A g \in events' : g.fd # listenfd => interest'[g.fd] = "disarmed"
    <3>1. \A g \in events' : g.fd # e.fd /\ g.fd \in Fds \cup {listenfd}
      BY <1>own, <1>2, <1>ev DEF Types, Alone
    <3> QED
      BY <1>own, <1>2, <1>3, <3>1 DEF Held
  <2>2. \A i \in 1 .. Len(queue') : interest'[queue'[i]] = "disarmed"
    BY <1>own, <1>2, <1>3, <1>ev DEF Held, Alone
  <2>3. \A w \in Busy' : interest'[job'[w]] = "disarmed"
    BY <1>own, <1>2, <1>3, <1>6, <1>ev DEF Held, Alone
  <2> QED
    BY <2>1, <2>2, <2>3 DEF Held
<1>9. Forgotten'
  BY <1>own, <1>2, <1>3, <1>6, <1>ev DEF Forgotten, Alone
<1> QED
  BY <1>4, <1>5, <1>7, <1>9, <1>8 DEF Ownership

\* accept() returns a descriptor that nobody holds.
LEMMA AcceptKeeps == ASSUME Ownership, NEW e \in events, accept(e) \/ acceptFails(e) PROVE Ownership'
<1> USE DEF poolVars, connVars
<1>own. Types /\ Rounds /\ Returning /\ Watched /\ Held /\ Apart /\ Forgotten
  BY DEF Ownership
<1>ev. Alone(e)
  BY EventFacts
<1>1. /\ backlog' \in 0 .. BACKLOG /\ e.mask = "ACCEPT" /\ events' = events \ {e}
      /\ UNCHANGED <<inData, hup, queue, job, closed, rearmed, dropped>>
  BY <1>ev, NotClients DEF accept, acceptFails, Handles, Alone
<1>2. Busy' = Busy
  BY <1>1 DEF Busy
<1>3. Rounds' /\ Returning'
  BY <1>own, <1>1 DEF Rounds, Returning
<1>4. CASE UNCHANGED <<server, open, live, interest>>
  <2>1. Types'
    BY <1>own, <1>1, <1>4 DEF Types
  <2>2. Watched' /\ Held' /\ Apart'
    <3>1. Watched'
      BY <1>own, <1>4 DEF Watched
    <3>2. Held'
      BY <1>own, <1>1, <1>2, <1>4 DEF Held
    <3>3. Apart'
      BY <1>own, <1>1, <1>2 DEF Apart
    <3> QED
      BY <3>1, <3>2, <3>3
  <2>3. Forgotten'
    BY <1>own, <1>1, <1>2, <1>4, <1>ev, NotClients DEF Forgotten, Alone
  <2> QED
    BY <1>3, <2>1, <2>2, <2>3 DEF Ownership
<1>5. ASSUME NEW f \in Fds, f \notin open, init(f)
      PROVE  Ownership'
  <2>1. /\ open' = open \cup {f} /\ live' = live \cup {f}
        /\ interest' = [interest EXCEPT ![f] = "IN"]
        /\ server' \in {server, "undefined"}
    BY <1>5 DEF init
  <2>2. \A g \in Fds : interest'[g] = IF g = f THEN "IN" ELSE interest[g]
    BY <1>own, <1>5, <2>1 DEF Types
  <2>3. interest[f] = "none"
    BY <1>own, <1>5 DEF Watched
  <2>4. /\ \A g \in events : g.fd # f
        /\ \A i \in 1 .. Len(queue) : queue[i] \in Fds /\ queue[i] # f
        /\ \A w \in Busy : job[w] \in Fds /\ job[w] # f
    BY <1>own, <1>5, <2>3, NotClients DEF Held, Types, Busy
  <2>5. Types'
    <3>1. interest' \in [Fds -> Interests]
      BY <1>own, <1>5, <2>1 DEF Types, Interests
    <3> QED
      BY <1>own, <1>1, <1>5, <2>1, <3>1 DEF Types
  <2>6. Watched' /\ Held' /\ Apart'
    <3>1. Watched'
      BY <1>own, <2>1, <2>2 DEF Watched
    <3>2. \A g \in events' : g.fd # listenfd => interest'[g.fd] = "disarmed"
      <4>1. \A g \in events' : g.fd # f /\ g.fd \in Fds \cup {listenfd}
        BY <1>own, <1>1, <2>4 DEF Types
      <4> QED
        BY <1>own, <1>1, <2>2, <4>1 DEF Held
    <3>3. /\ \A i \in 1 .. Len(queue') : interest'[queue'[i]] = "disarmed"
          /\ \A w \in Busy' : interest'[job'[w]] = "disarmed"
      BY <1>own, <1>1, <1>2, <2>2, <2>4 DEF Held
    <3>4. Apart'
      BY <1>own, <1>1, <1>2 DEF Apart
    <3> QED
      BY <3>1, <3>2, <3>3, <3>4 DEF Held
  <2>7. Forgotten'
    BY <1>own, <1>1, <1>2, <2>1, <2>2, <2>3, <1>ev, NotClients DEF Forgotten, Alone
  <2> QED
    BY <1>3, <2>5, <2>6, <2>7 DEF Ownership
<1>6. open # Fds => Min(Fds \ open) \in Fds /\ Min(Fds \ open) \notin open
  BY <1>own, LowestFree DEF Types
<1> QED
  BY <1>4, <1>5, <1>6 DEF accept, acceptFails

\* read() and append(): the connection goes from the round to the queue.
LEMMA AppendKeeps == ASSUME Ownership, NEW e \in events, readAppends(e) PROVE Ownership'
<1> USE DEF connVars
<1>own. Types /\ Rounds /\ Returning /\ Watched /\ Held /\ Apart /\ Forgotten
  BY DEF Ownership
<1>ev. Alone(e)
  BY EventFacts
<1>1. /\ e.fd \in Fds /\ e.fd \in open /\ interest[e.fd] = "disarmed" /\ e.mask # "ACCEPT"
      /\ events' = events \ {e} /\ queue' = Append(queue, e.fd) /\ inData' = inData \ {e.fd}
      /\ UNCHANGED <<server, backlog, hup, open, live, interest, job, closed, rearmed, dropped>>
  BY <1>ev DEF readAppends, Handles, Pool!Submit, Alone
<1>0. queue \in Seq(Fds) /\ e.fd \in Fds /\ queue' = Append(queue, e.fd)
  BY <1>own, <1>1 DEF Types
<1>2. /\ queue' \in Seq(Fds) /\ Len(queue') = Len(queue) + 1 /\ Len(queue) \in Nat
      /\ \A i \in 1 .. Len(queue) : queue'[i] = queue[i]
      /\ queue'[Len(queue) + 1] = e.fd
  BY <1>0, AppendedAt
<1>3. \A i \in 1 .. Len(queue') : \/ i \in 1 .. Len(queue) /\ queue'[i] = queue[i]
                                  \/ i = Len(queue) + 1 /\ queue'[i] = e.fd
  BY <1>0, AppendedAt
<1>4. Types'
  BY <1>own, <1>1, <1>2 DEF Types
<1>5. Rounds' /\ Returning'
  BY <1>own, <1>1 DEF Rounds, Returning
<1>6. Busy' = Busy
  BY <1>1 DEF Busy
<1>7. Watched' /\ Held'
  <2>1. Watched'
    BY <1>own, <1>1 DEF Watched
  <2>2. \A i \in 1 .. Len(queue') : interest'[queue'[i]] = "disarmed"
    BY <1>own, <1>1, <1>3 DEF Held
  <2> QED
    BY <1>own, <1>1, <1>6, <2>1, <2>2 DEF Held
<1>8. Apart'
  <2>1. \A g \in events' : \A i \in 1 .. Len(queue') : g.fd # queue'[i]
    <3>1. \A g \in events' : g.fd # e.fd /\ \A i \in 1 .. Len(queue) : g.fd # queue[i]
      BY <1>own, <1>1, <1>ev DEF Apart, Alone
    <3> QED
      BY <1>3, <3>1
  <2>2. \A w \in Busy' : \A i \in 1 .. Len(queue') : queue'[i] # job'[w]
    <3>1. \A w \in Busy : job[w] # e.fd /\ \A i \in 1 .. Len(queue) : queue[i] # job[w]
      BY <1>own, <1>ev DEF Apart, Alone
    <3> QED
      BY <1>1, <1>3, <1>6, <3>1
  <2>3. \A i, j \in 1 .. Len(queue') : queue'[i] = queue'[j] => i = j
    <3>1. /\ \A i \in 1 .. Len(queue) : queue[i] # e.fd
          /\ \A i, j \in 1 .. Len(queue) : queue[i] = queue[j] => i = j
      BY <1>own, <1>ev DEF Apart, Alone
    <3> QED
      BY <1>3, <3>1
  <2>4. /\ \A g \in events' : \A w \in Busy' : g.fd # job'[w]
        /\ \A v, w \in Busy' : job'[v] = job'[w] => v = w
    BY <1>own, <1>1, <1>6 DEF Apart
  <2> QED
    BY <2>1, <2>2, <2>3, <2>4 DEF Apart
<1>9. Forgotten'
  <2>1. \A f \in Fds : (\A i \in 1 .. Len(queue') : queue'[i] # f)
                          <=> f # e.fd /\ \A i \in 1 .. Len(queue) : queue[i] # f
    BY <1>2, <1>3
  <2>2. \A f \in Fds : (\A g \in events : g.fd # f) <=> f # e.fd /\ \A g \in events' : g.fd # f
    BY <1>1
  <2> QED
    BY <1>own, <1>1, <1>6, <2>1, <2>2, <1>ev DEF Forgotten, Alone
<1> QED
  BY <1>4, <1>5, <1>7, <1>9, <1>8 DEF Ownership

\* append() refuses: from now on nobody holds the connection.
LEMMA RejectKeeps == ASSUME Ownership, NEW e \in events, readRejected(e) PROVE Ownership'
<1> USE DEF connVars, poolVars
<1>own. Types /\ Rounds /\ Returning /\ Watched /\ Held /\ Apart /\ Forgotten
  BY DEF Ownership
<1>ev. Alone(e)
  BY EventFacts
<1>1. /\ e.fd \in Fds /\ e.fd \in open /\ interest[e.fd] = "disarmed" /\ e.mask # "ACCEPT"
      /\ events' = events \ {e} /\ inData' = inData \ {e.fd} /\ dropped' = dropped \cup {e.fd}
      /\ UNCHANGED <<server, backlog, hup, open, live, interest, queue, job, closed, rearmed>>
  BY <1>ev DEF readRejected, Handles, Alone
<1>2. Types'
  BY <1>own, <1>1 DEF Types
<1>3. Rounds' /\ Returning'
  BY <1>own, <1>1 DEF Rounds, Returning
<1>4. Busy' = Busy
  BY <1>1 DEF Busy
<1>5. Watched' /\ Held' /\ Apart'
  <2>1. Watched'
    BY <1>own, <1>1 DEF Watched
  <2>2. Held'
    BY <1>own, <1>1, <1>4 DEF Held
  <2>3. Apart'
    BY <1>own, <1>1, <1>4 DEF Apart
  <2> QED
    BY <2>1, <2>2, <2>3
<1>6. Forgotten'
  BY <1>own, <1>1, <1>4, <1>ev DEF Forgotten, Alone
<1> QED
  BY <1>2, <1>3, <1>5, <1>6 DEF Ownership

\* A worker takes the front of the queue.
LEMMA TakeKeeps == ASSUME Ownership, NEW w \in Workers, take(w) PROVE Ownership'
<1> USE NotClients DEF connVars, netVars
<1>own. Types /\ Rounds /\ Returning /\ Watched /\ Held /\ Apart /\ Forgotten
  BY DEF Ownership
<1>1. /\ job[w] = NoJob /\ queue # <<>>
      /\ job' = [job EXCEPT ![w] = Head(queue)] /\ queue' = Tail(queue)
      /\ UNCHANGED <<server, backlog, inData, hup, open, live, interest, events, closed, rearmed,
                     dropped>>
  BY DEF take, Pool!Take
<1>2. /\ queue' \in Seq(Fds) /\ Len(queue) \in Nat \ {0} /\ Len(queue') = Len(queue) - 1
      /\ Head(queue) = queue[1] /\ Head(queue) \in Fds
      /\ \A i \in 1 .. Len(queue') : queue'[i] = queue[i + 1]
  <2>1. queue \in Seq(Fds) /\ queue # <<>> /\ queue' = Tail(queue)
    BY <1>own, <1>1 DEF Types
  <2> QED
    BY <2>1, TailAt
<1>3. \A v \in Workers : job'[v] = IF v = w THEN queue[1] ELSE job[v]
  BY <1>own, <1>1, <1>2 DEF Types
<1>4. Types'
  <2>1. job' \in [Workers -> Fds \cup {NoJob}]
    BY <1>own, <1>1, <1>2 DEF Types
  <2> QED
    BY <1>own, <1>1, <1>2, <2>1 DEF Types
<1>5. Rounds' /\ Returning'
  BY <1>own, <1>1 DEF Rounds, Returning
<1>6. Busy' = IF w \in rearmed THEN Busy ELSE Busy \cup {w}
  BY <1>1, <1>2, <1>3 DEF Busy
<1>7. w \notin rearmed
  BY <1>own, <1>1 DEF Returning
<1>8. /\ 1 \in 1 .. Len(queue) /\ w \notin Busy
      /\ \A i \in 1 .. Len(queue') : i + 1 \in 1 .. Len(queue) /\ i + 1 # 1
      /\ \A i \in 1 .. Len(queue) : i = 1 \/ (i - 1 \in 1 .. Len(queue') /\ queue'[i - 1] = queue[i])
  <2>1. w \notin Busy
    BY <1>1 DEF Busy
  <2>2. queue \in Seq(Fds) /\ queue # <<>> /\ queue' = Tail(queue)
    BY <1>own, <1>1 DEF Types
  <2> QED
    BY <2>1, <2>2, TailAt
<1>9. /\ \A v \in Busy' : job'[v] = queue[1] \/ (v \in Busy /\ job'[v] = job[v])
      /\ \A v \in Busy' : v = w \/ (v \in Busy /\ job'[v] = job[v])
  BY <1>3, <1>6, <1>7 DEF Busy
<1>10. \A i \in 1 .. Len(queue') : \E j \in 1 .. Len(queue) : j # 1 /\ queue'[i] = queue[j]
  BY <1>2, <1>8
<1>11. Watched' /\ Held'
  <2>1. Watched'
    BY <1>own, <1>1 DEF Watched
  <2>2. /\ \A i \in 1 .. Len(queue) : interest'[queue[i]] = "disarmed"
        /\ \A v \in Busy : interest'[job[v]] = "disarmed"
        /\ \A g \in events' : g.fd # listenfd => interest'[g.fd] = "disarmed"
    BY <1>own, <1>1 DEF Held
  <2>3. \A i \in 1 .. Len(queue') : interest'[queue'[i]] = "disarmed"
    BY <1>10, <2>2
  <2>4. \A v \in Busy' : interest'[job'[v]] = "disarmed"
    BY <1>8, <1>9, <2>2
  <2> QED
    BY <2>1, <2>2, <2>3, <2>4 DEF Held
<1>12. Apart'
  <2>0. /\ \A g \in events' : \A i \in 1 .. Len(queue) : g.fd # queue[i]
        /\ \A g \in events' : \A v \in Busy : g.fd # job[v]
        /\ \A v \in Busy : \A i \in 1 .. Len(queue) : queue[i] # job[v]
        /\ \A i, j \in 1 .. Len(queue) : queue[i] = queue[j] => i = j
        /\ \A u, v \in Busy : job[u] = job[v] => u = v
    BY <1>own, <1>1 DEF Apart
  <2>1. \A g \in events' : \A i \in 1 .. Len(queue') : g.fd # queue'[i]
    <3>1. \A g \in events' : \A j \in 1 .. Len(queue) : g.fd # queue[j]
      BY <2>0
    <3> QED
      BY <1>10, <3>1
  <2>2. \A g \in events' : \A v \in Busy' : g.fd # job'[v]
    BY <1>8, <1>9, <2>0
  <2>3. \A v \in Busy' : \A i \in 1 .. Len(queue') : queue'[i] # job'[v]
    <3>1. /\ \A v \in Busy : \A j \in 1 .. Len(queue) : queue[j] # job[v]
          /\ \A j \in 1 .. Len(queue) : queue[j] = queue[1] => j = 1
      BY <1>8, <2>0
    <3> QED
      BY <1>9, <1>10, <3>1
  <2>4. \A i, j \in 1 .. Len(queue') : queue'[i] = queue'[j] => i = j
    <3> SUFFICES ASSUME NEW i \in 1 .. Len(queue'), NEW j \in 1 .. Len(queue'),
                        queue'[i] = queue'[j]
                 PROVE  i = j
      OBVIOUS
    <3>1. /\ i + 1 \in 1 .. Len(queue) /\ j + 1 \in 1 .. Len(queue)
          /\ queue[i + 1] = queue[j + 1]
      BY <1>2, <1>8
    <3>2. i + 1 = j + 1
      BY <2>0, <3>1
    <3> QED
      BY <3>2
  <2>5. \A u, v \in Busy' : job'[u] = job'[v] => u = v
    <3>1. job'[w] = queue[1] /\ \A v \in Busy : job[v] # queue[1]
      BY <1>3, <1>8, <2>0
    <3> QED
      BY <1>9, <2>0, <3>1
  <2> QED
    BY <2>1, <2>2, <2>3, <2>4, <2>5 DEF Apart
<1>13. Forgotten'
  <2>1. \A f \in Fds : (\A i \in 1 .. Len(queue) : queue[i] # f)
                          <=> f # queue[1] /\ \A i \in 1 .. Len(queue') : queue'[i] # f
    BY <1>2, <1>8
  <2>2. \A f \in Fds : (\A v \in Busy' : job'[v] # f)
                          <=> f # queue[1] /\ \A v \in Busy : job[v] # f
    BY <1>3, <1>6, <1>7, <1>8 DEF Busy
  <2> QED
    BY <1>own, <1>1, <2>1, <2>2 DEF Forgotten
<1>14. Returning'
  BY <1>own, <1>1, <1>3, <1>7 DEF Returning, Types
<1> QED
  BY <1>4, <1>5, <1>13, <1>14, <1>11, <1>12 DEF Ownership

\* process() up to its modfd(): the worker gives the connection back to epoll.
LEMMA ProcessKeeps == ASSUME Ownership, NEW w \in Workers, process(w) PROVE Ownership'
<1> USE NotClients DEF connVars, netVars, poolVars
<1>own. Types /\ Rounds /\ Returning /\ Watched /\ Held /\ Apart /\ Forgotten
  BY DEF Ownership
<1>1. PICK ev \in {"IN", "OUT"} : interest' = [interest EXCEPT ![job[w]] = ev]
  BY DEF process, modfd
<1>2. /\ w \in Busy /\ rearmed' = rearmed \cup {w}
      /\ UNCHANGED <<server, backlog, inData, hup, open, live, events, queue, job, closed, dropped>>
  BY DEF process, Busy
<1>3. job[w] \in Fds /\ interest[job[w]] = "disarmed"
  BY <1>own, <1>2 DEF Held, Types, Busy
<1>4. \A f \in Fds : interest'[f] = IF f = job[w] THEN ev ELSE interest[f]
  BY <1>own, <1>1, <1>3 DEF Types
<1>5. Types'
  <2>1. interest' \in [Fds -> Interests]
    BY <1>own, <1>1, <1>3 DEF Types, Interests
  <2> QED
    BY <1>own, <1>2, <2>1 DEF Types
<1>6. Rounds' /\ Returning'
  BY <1>own, <1>2 DEF Rounds, Returning, Busy
<1>7. Busy' = Busy \ {w}
  BY <1>2 DEF Busy
<1>8. Watched' /\ Apart'
  <2>1. Watched'
    BY <1>own, <1>2, <1>3, <1>4 DEF Watched
  <2>2. Apart'
    BY <1>own, <1>2, <1>7 DEF Apart
  <2> QED
    BY <2>1, <2>2
<1>9. Held'
  <2>0. /\ \A g \in events : g.fd # job[w]
        /\ \A i \in 1 .. Len(queue) : queue[i] # job[w]
        /\ \A v \in Busy' : v \in Busy /\ job[v] # job[w]
    BY <1>own, <1>2, <1>7 DEF Apart
  <2>1. /\ \A g \in events : g.fd \in Fds \cup {listenfd}
        /\ \A i \in 1 .. Len(queue) : queue[i] \in Fds
        /\ \A v \in Busy : job[v] \in Fds
    BY <1>own DEF Types, Busy
  <2>2. \A g \in events' : g.fd # listenfd => interest'[g.fd] = "disarmed"
    BY <1>own, <1>2, <1>4, <2>0, <2>1 DEF Held
  <2>3. \A i \in 1 .. Len(queue') : interest'[queue'[i]] = "disarmed"
    BY <1>own, <1>2, <1>4, <2>0, <2>1 DEF Held
  <2>4. \A v \in Busy' : interest'[job'[v]] = "disarmed"
    BY <1>own, <1>2, <1>4, <2>0, <2>1 DEF Held
  <2> QED
    BY <2>2, <2>3, <2>4 DEF Held
<1>10. Forgotten'
  BY <1>own, <1>2, <1>3, <1>4, <1>7 DEF Forgotten
<1> QED
  BY <1>5, <1>6, <1>8, <1>10, <1>9 DEF Ownership

\* The worker returns to the pool without touching the connection.
LEMMA ReturnKeeps == ASSUME Ownership, NEW w \in Workers, returns(w) PROVE Ownership'
<1> USE NotClients DEF connVars, netVars
<1>own. Types /\ Rounds /\ Returning /\ Watched /\ Held /\ Apart /\ Forgotten
  BY DEF Ownership
<1>1. /\ w \in rearmed /\ rearmed' = rearmed \ {w} /\ job' = [job EXCEPT ![w] = NoJob]
      /\ UNCHANGED <<server, backlog, inData, hup, open, live, interest, events, queue, closed,
                     dropped>>
  BY DEF returns, Pool!Finish
<1>2. \A v \in Workers : job'[v] = IF v = w THEN NoJob ELSE job[v]
  BY <1>own, <1>1 DEF Types
<1>3. Types'
  <2>1. job' \in [Workers -> Fds \cup {NoJob}]
    BY <1>own, <1>1 DEF Types
  <2> QED
    BY <1>own, <1>1, <2>1 DEF Types
<1>4. Rounds' /\ Returning'
  BY <1>own, <1>1, <1>2 DEF Rounds, Returning, Types
<1>5. Busy' = Busy /\ \A v \in Busy : job'[v] = job[v]
  BY <1>1, <1>2 DEF Busy
<1>6. Watched' /\ Held' /\ Apart' /\ Forgotten'
  <2>1. Watched'
    BY <1>own, <1>1 DEF Watched
  <2>2. Held'
    BY <1>own, <1>1, <1>5 DEF Held
  <2>3. Apart'
    BY <1>own, <1>1, <1>5 DEF Apart
  <2>4. Forgotten'
    BY <1>own, <1>1, <1>5 DEF Forgotten
  <2> QED
    BY <2>1, <2>2, <2>3, <2>4
<1> QED
  BY <1>3, <1>4, <1>6 DEF Ownership

\* Every step keeps each connection with one holder.
LEMMA OwnershipStep == Ownership /\ [Next]_vars => Ownership'
<1> SUFFICES ASSUME Ownership, [Next]_vars PROVE Ownership'
  OBVIOUS
<1>1. ASSUME NEW e \in events, handle(e) PROVE Ownership'
  <2>1. CASE accept(e) \/ acceptFails(e)
    BY <2>1, AcceptKeeps
  <2>2. CASE hangUp(e)
    BY <2>2, CloseKeeps DEF hangUp
  <2>3. CASE readAppends(e)
    BY <2>3, AppendKeeps
  <2>4. CASE readRejected(e)
    BY <2>4, RejectKeeps
  <2>5. CASE readFails(e)
    BY <2>5, CloseKeeps DEF readFails
  <2>6. CASE write(e)
    BY <2>6, WriteKeeps
  <2>7. CASE writeCloses(e)
    BY <2>7, CloseKeeps DEF writeCloses
  <2> QED
    BY <1>1, <2>1, <2>2, <2>3, <2>4, <2>5, <2>6, <2>7 DEF handle
<1>2. ASSUME NEW w \in Workers, worker(w) PROVE Ownership'
  BY <1>2, TakeKeeps, ProcessKeeps, ReturnKeeps DEF worker
<1>3. CASE UNCHANGED vars
  <2>1. Busy' = Busy
    BY <1>3 DEF vars, Busy
  <2>2. Types' /\ Rounds' /\ Returning'
    BY <1>3 DEF vars, Ownership, Types, Rounds, Returning
  <2>3. Watched' /\ Held'
    BY <1>3, <2>1 DEF vars, Ownership, Watched, Held
  <2>4. Apart'
    BY <1>3, <2>1 DEF vars, Ownership, Apart
  <2>5. Forgotten'
    BY <1>3, <2>1 DEF vars, Ownership, Forgotten
  <2> QED
    BY <2>2, <2>3, <2>4, <2>5 DEF Ownership
<1> QED
  BY <1>1, <1>2, <1>3, ClientKeeps, WaitKeeps, StopKeeps DEF Next, main

\* What a step can do to the set of connections: nothing, close one of them,
\* or open one at the lowest free descriptor.
LEMMA OpenStep ==
    ASSUME Ownership, [Next]_vars
    PROVE  \/ UNCHANGED <<open, userCount>> /\ (server' = "undefined" => server = "undefined")
           \/ /\ server' = "running" /\ userCount' = userCount - 1
              /\ \E f \in open : open' = open \ {f}
           \/ /\ open # Fds /\ open' = open \cup {Min(Fds \ open)} /\ userCount' = userCount + 1
              /\ server' = "undefined" => ~(Min(Fds \ open) < MAX_FD)
<1> USE DEF connVars
<1> DEFINE Same == UNCHANGED <<open, userCount>> /\ (server' = "undefined" => server = "undefined")
           Less == /\ server' = "running" /\ userCount' = userCount - 1
                   /\ \E f \in open : open' = open \ {f}
           More == /\ open # Fds /\ open' = open \cup {Min(Fds \ open)} /\ userCount' = userCount + 1
                   /\ server' = "undefined" => ~(Min(Fds \ open) < MAX_FD)
<1>1. ASSUME NEW e \in events, handle(e) PROVE Same \/ Less \/ More
  <2>0. server = "running" /\ (e.mask # "ACCEPT" => e.fd \in live /\ live = open)
    <3>1. Alone(e) /\ live = open
      BY EventFacts DEF Ownership, Watched
    <3>2. server = "running"
      BY <1>1 DEF handle, acceptFails, accept, hangUp, readAppends, readRejected,
                  readFails, write, writeCloses, Handles
    <3> QED
      BY <3>1, <3>2 DEF Alone
  <2>1. CASE acceptFails(e) \/ readAppends(e) \/ readRejected(e) \/ write(e)
    <3>1. UNCHANGED <<open, userCount, server>>
      BY <2>0, <2>1 DEF acceptFails, readAppends, readRejected, write
    <3> QED
      BY <3>1
  <2>2. CASE accept(e)
    <3>1. open # Fds /\ (UNCHANGED <<server, open, userCount>> \/ init(Min(Fds \ open)))
      BY <2>2 DEF accept
    <3>2. CASE init(Min(Fds \ open))
      BY <2>0, <3>1, <3>2 DEF init
    <3> QED
      BY <3>1, <3>2
  <2>3. CASE hangUp(e) \/ readFails(e) \/ writeCloses(e)
    <3>1. e.mask # "ACCEPT" /\ close_conn(e.fd) /\ UNCHANGED server
      BY <2>3 DEF hangUp, readFails, writeCloses
    <3>2. Less
      BY <2>0, <3>1 DEF close_conn
    <3> QED
      BY <3>2
  <2> HIDE DEF Same, Less, More
  <2> QED
    BY <1>1, <2>1, <2>2, <2>3 DEF handle
<1>2. ASSUME NEW w \in Workers, worker(w) PROVE Same
  BY <1>2 DEF worker, take, process, returns
<1>3. CASE client
  BY <1>3 DEF client, clientConnects, clientSends, clientHangsUp
<1>4. CASE epoll_wait \/ epollFails
  BY <1>4 DEF epoll_wait, epollFails
<1>5. CASE UNCHANGED vars
  BY <1>5 DEF vars
<1> QED
  BY <1>1, <1>2, <1>3, <1>4, <1>5 DEF Next, main

\* The count is exact, and the array is left with too many connections only.
Counts == userCount = Cardinality(open) /\ ArrayHoldsFewClients

\* The inductive invariant of the server.
ServerInv == Ownership /\ Counts

\* The set of connections is finite.
LEMMA OpenFinite == ASSUME open \subseteq Fds PROVE IsFiniteSet(open) /\ Cardinality(open) \in Nat
<1>1. IsFiniteSet(Fds)
  BY FS_Interval, ServerAssumption DEF Fds, ServerAssumption
<1> QED
  BY <1>1, FS_Subset, FS_CardinalityType

\* Opening and closing keep the count.
LEMMA CountsStep == ServerInv /\ [Next]_vars => Counts'
<1> SUFFICES ASSUME ServerInv, [Next]_vars PROVE Counts'
  OBVIOUS
<1>1. /\ open \subseteq Fds /\ IsFiniteSet(open) /\ Cardinality(open) \in Nat
      /\ userCount = Cardinality(open)
      /\ server = "undefined" => userCount > MAX_FD - RESERVED
  BY OpenFinite DEF ServerInv, Ownership, Types, Counts, ArrayHoldsFewClients
<1>2. CASE UNCHANGED <<open, userCount>> /\ (server' = "undefined" => server = "undefined")
  BY <1>1, <1>2 DEF Counts, ArrayHoldsFewClients
<1>3. ASSUME NEW f \in open, open' = open \ {f}, userCount' = userCount - 1, server' = "running"
      PROVE  Counts'
  BY <1>1, <1>3, FS_RemoveElement DEF Counts, ArrayHoldsFewClients
<1>4. CASE /\ open # Fds /\ open' = open \cup {Min(Fds \ open)} /\ userCount' = userCount + 1
           /\ server' = "undefined" => ~(Min(Fds \ open) < MAX_FD)
  <2>1. PICK n \in Fds \ open : n = Min(Fds \ open) /\ RESERVED .. (n - 1) \subseteq open
    BY <1>1, <1>4, LowestFree
  <2>2. n \in Nat /\ RESERVED \in Nat /\ MAX_FD \in Nat /\ RESERVED <= n
    BY <2>1, NotClients, ServerAssumption DEF Fds, ServerAssumption
  <2>3. Cardinality(open') = userCount'
    BY <1>1, <1>4, <2>1, FS_AddElement
  <2>4. Cardinality(RESERVED .. (n - 1)) = n - RESERVED
    <3>1. n - 1 \in Int /\ RESERVED \in Int
      BY <2>2
    <3>2. Cardinality(RESERVED .. (n - 1)) = IF RESERVED > n - 1 THEN 0 ELSE (n - 1) - RESERVED + 1
      BY <3>1, FS_Interval
    <3> QED
      BY <2>2, <3>2
  <2>5. Cardinality(RESERVED .. (n - 1)) <= Cardinality(open)
    BY <1>1, <2>1, FS_Subset
  <2>6. server' = "undefined" => userCount' > MAX_FD - RESERVED
    BY <1>1, <1>4, <2>1, <2>2, <2>4, <2>5
  <2> QED
    BY <2>3, <2>6 DEF Counts, ArrayHoldsFewClients
<1> QED
  BY <1>2, <1>3, <1>4, OpenStep DEF ServerInv

\* ServerInv holds in every reachable state.
LEMMA ServerInvariant == Spec => []ServerInv
<1>1. Init => ServerInv
  BY OwnershipInit, FS_EmptySet DEF Init, ServerInv, Counts, ArrayHoldsFewClients
<1>2. ServerInv /\ [Next]_vars => ServerInv'
  BY OwnershipStep, CountsStep DEF ServerInv
<1> QED
  BY <1>1, <1>2, PTL DEF Spec

\* The queue has as many connections as entries, and the busy workers as many
\* as they are.
LEMMA NoDuplicates ==
    ASSUME ServerInv
    PROVE  /\ Cardinality(Queued) = Len(queue)
           /\ Cardinality(InProcess) = Cardinality(Busy)
<1>1. Cardinality(Queued) = Len(queue)
  <2>1. Len(queue) \in Nat
    BY LenProperties DEF ServerInv, Ownership, Types
  <2>2. [i \in 1 .. Len(queue) |-> queue[i]] \in Bijection(1 .. Len(queue), Queued)
    BY DEF Bijection, Injection, Surjection, IsInjective, Queued, ServerInv, Ownership, Apart
  <2> QED
    BY <2>1, <2>2, FS_CountingElements DEF ExistsBijection
<1>2. Cardinality(InProcess) = Cardinality(Busy)
  <2>1. IsFiniteSet(Busy)
    BY FS_Subset, ServerAssumption DEF Busy, ServerAssumption
  <2>2. [w \in Busy |-> job[w]] \in Bijection(Busy, InProcess)
    BY DEF Bijection, Injection, Surjection, IsInjective, InProcess, ServerInv, Ownership, Apart
  <2> QED
    BY <2>1, <2>2, FS_Bijection DEF ExistsBijection
<1> QED
  BY <1>1, <1>2

\* EPOLLONESHOT and the queue give every connection one holder at a time, for
\* any number of clients and workers (http_conn.cpp:43).
THEOREM SingleOwnerCorrect == Spec => []SingleOwner
<1>1. ServerInv => SingleOwner
  <2> SUFFICES ASSUME ServerInv PROVE SingleOwner
    OBVIOUS
  <2>1. TypeOK
    BY OpenFinite DEF ServerInv, Ownership, Types, Watched, Counts, TypeOK
  <2>2. Armed \cap (Reported \cup Queued \cup InProcess) = {}
    BY DEF ServerInv, Ownership, Held, Armed, Reported, Queued, InProcess
  <2>3. Reported \cap (Queued \cup InProcess) = {}
    BY DEF ServerInv, Ownership, Apart, Reported, Queued, InProcess
  <2>4. Queued \cap InProcess = {}
    BY DEF ServerInv, Ownership, Apart, Queued, InProcess
  <2>5. \A e1, e2 \in events : e1.fd = e2.fd => e1 = e2
    BY DEF ServerInv, Ownership, Rounds
  <2> QED
    BY <2>1, <2>2, <2>3, <2>4, <2>5, NoDuplicates DEF SingleOwner
<1> QED
  BY <1>1, ServerInvariant, PTL

\* No event, queue entry or worker refers to a descriptor that was closed and
\* may have been given to another client (main.cpp:99-150).
THEOREM NoStaleReferenceCorrect == Spec => []NoStaleReference
<1>1. ServerInv => NoStaleReference
  <2> SUFFICES ASSUME ServerInv
               PROVE  Armed \cup Reported \cup Queued \cup InProcess \subseteq open \cap live
    BY DEF NoStaleReference
  <2>1. \A f \in Fds : interest[f] # "none" => f \in open \cap live
    BY DEF ServerInv, Ownership, Watched
  <2>2. \A f \in Armed \cup Reported \cup Queued \cup InProcess : f \in Fds /\ interest[f] # "none"
    BY NotClients DEF ServerInv, Ownership, Types, Held, Armed, Reported, Queued, InProcess, Busy
  <2> QED
    BY <2>1, <2>2
<1> QED
  BY <1>1, ServerInvariant, PTL

\* userCount, changed without a lock, is the number of open connections
\* (http_conn.cpp:67-93).
THEOREM UserCountCorrect == Spec => []UserCountExact
<1>1. ServerInv => UserCountExact
  BY DEF ServerInv, Ownership, Watched, Counts, UserCountExact
<1> QED
  BY <1>1, ServerInvariant, PTL

\* A connection is lost by a refused append() and in no other way
\* (main.cpp:137).
THEOREM OnlyRejectionStrandsCorrect == Spec => []OnlyRejectionStrands
<1>1. ServerInv => OnlyRejectionStrands
  <2> SUFFICES ASSUME ServerInv, server = "running"
               PROVE  open \ (Armed \cup Reported \cup Queued \cup InProcess) = dropped
    BY DEF OnlyRejectionStrands
  <2>1. dropped \subseteq Fds /\ open \subseteq Fds /\ listenfd \notin Fds
    BY NotClients DEF ServerInv, Ownership, Types
  <2>2. \A f \in Fds : f \in dropped <=> /\ interest[f] = "disarmed"
                                         /\ f \notin Reported /\ f \notin Queued /\ f \notin InProcess
    BY <2>1 DEF ServerInv, Ownership, Forgotten, Reported, Queued, InProcess
  <2>3. \A f \in Fds : interest[f] = "disarmed" <=> f \in open /\ f \notin Armed
    BY DEF ServerInv, Ownership, Types, Watched, Armed, Interests
  <2> QED
    BY <2>1, <2>2, <2>3
<1> QED
  BY <1>1, ServerInvariant, PTL

\* With at most MAX_FD - RESERVED clients, no descriptor is outside users,
\* whatever the order of opens and closes (main.cpp:108-128).
THEOREM ArrayCorrect == Spec => []ArrayHoldsFewClients
<1>1. ServerInv => ArrayHoldsFewClients
  BY DEF ServerInv, Counts
<1> QED
  BY <1>1, ServerInvariant, PTL
=============================================================================
