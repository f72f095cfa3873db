-------------------------- MODULE RedisReplication --------------------------
(***************************************************************************)
(* Replication of the bundled redis 5.0.10 (replication.c): the backlog,   *)
(* replication IDs and offsets, PSYNC with partial and full resynchroni-   *)
(* sation, the cached master, REPLICAOF, lost connections and restarts.    *)
(*                                                                         *)
(* A data set is the sequence of the writes it results from; a write is a  *)
(* number, and one unit of the replication stream.  A connection is named  *)
(* by its replica and holds what its master sent and it has not read yet.  *)
(* The handshake before PSYNC changes no replication state and is one step *)
(* with it; a master sees at once that a replica closed its connection.    *)
(***************************************************************************)
EXTENDS Integers, Sequences, FiniteSets, SequencesExt

CONSTANTS Nodes,       \* the servers
          None,        \* no server, connection, cached master or child
          Root,        \* the master the others are configured to follow
          BacklogSize, \* server.repl_backlog_size, in writes
          Targets,     \* bound: the servers REPLICAOF promotes or names
          MaxWrites,   \* bound: writes accepted by masters
          MaxSaves,    \* bound: saves for persistence
          MaxMoves,    \* bound: REPLICAOF commands
          MaxFaults    \* bound: lost connections, failures, timeouts, restarts

ASSUME ReplicationAssumption ==
    /\ None \notin Nodes
    /\ Root \in Nodes /\ Targets \subseteq Nodes
    /\ BacklogSize \in Nat \ {0}
    /\ {MaxWrites, MaxSaves, MaxMoves, MaxFaults} \subseteq Nat

VARIABLES srv,     \* the replication state of each server
          conn,    \* the connection of each replica to its master, or None
          child,   \* the snapshot the BGSAVE child of a server writes, or None
          disk,    \* the RDB file of each server
          ids,     \* replication IDs generated so far
          writes, saves, moves, faults

vars == <<srv, conn, child, disk, ids, writes, saves, moves, faults>>

Fault == faults < MaxFaults /\ faults' = faults + 1

----------------------------------------------------------------------------
(* The backlog: a circular buffer of the last writes                       *)

NoBacklog == [on |-> FALSE, buf |-> [i \in 0..BacklogSize-1 |-> 0],
              idx |-> 0, histlen |-> 0, off |-> 0]

createReplicationBacklog(offset) == [NoBacklog EXCEPT !.on = TRUE, !.off = offset + 1]

\* One write, which makes the offset the one given.
feedReplicationBacklog(b, w, offset) ==
    LET histlen == IF b.histlen = BacklogSize THEN BacklogSize ELSE b.histlen + 1
    IN  [b EXCEPT !.buf[b.idx] = w,
                  !.idx = (b.idx + 1) % BacklogSize,
                  !.histlen = histlen,
                  !.off = offset - histlen + 1]

\* What the backlog holds from an offset on.
addReplyReplicationBacklog(b, offset) ==
    LET skip == offset - b.off
        first == (b.idx + (BacklogSize - b.histlen)) % BacklogSize
    IN  [i \in 1..(b.histlen - skip) |-> b.buf[(first + skip + i - 1) % BacklogSize]]

----------------------------------------------------------------------------
(* The stream                                                              *)

SlaveStates == {"wait_start", "wait_end", "send_bulk", "online"}

\* server.slaves: connections whose SYNC was accepted, not closed by the master.
SlavesIn(c, m) == {r \in Nodes : /\ c[r] # None
                                 /\ c[r].peer = m
                                 /\ c[r].open
                                 /\ c[r].st \in SlaveStates}

Slaves(m) == SlavesIn(conn, m)

Waiting(c, m, st) == {r \in SlavesIn(c, m) : c[r].st = st}

Message(w) == [type |-> "write", w |-> w]

\* What was sent on a closed connection may still be read.
disconnectSlaves(c, rs) == [r \in Nodes |-> IF r \in rs THEN [c[r] EXCEPT !.open = FALSE]
                                                        ELSE c[r]]

\* A write to the slaves of m: those waiting for a BGSAVE to start get nothing,
\* those not online yet accumulate it.
FeedSlaves(c, m, w) ==
    [r \in Nodes |->
        IF r \notin SlavesIn(c, m) \/ c[r].st = "wait_start" THEN c[r]
        ELSE IF c[r].st = "online" THEN [c[r] EXCEPT !.out = Append(@, Message(w))]
        ELSE [c[r] EXCEPT !.buf = Append(@, Message(w))]]

\* A server applies a write, and adds it to its backlog when it has one.
Apply(s, w) ==
    IF s.backlog.on
    THEN [s EXCEPT !.data = Append(@, w), !.offset = @ + 1,
                   !.backlog = feedReplicationBacklog(@, w, s.offset + 1)]
    ELSE [s EXCEPT !.data = Append(@, w)]

\* A client writes to a master.
Write(m) ==
    /\ srv[m].masterhost = None
    /\ writes < MaxWrites
    /\ writes' = writes + 1
    /\ srv' = [srv EXCEPT ![m] = Apply(@, writes')]
    /\ conn' = FeedSlaves(conn, m, writes')
    /\ UNCHANGED <<child, disk, ids, saves, moves, faults>>

----------------------------------------------------------------------------
(* Snapshots                                                               *)

\* Whether an RDB file gets the replication ID and offset.
rdbPopulateSaveInfo(s) ==
    \/ s.masterhost = None /\ s.backlog.on
    \/ s.master # None
    \/ s.cached # None

Snapshot(s) == [data |-> s.data, info |-> rdbPopulateSaveInfo(s),
                replid |-> s.replid, offset |-> s.offset]

\* Slave r of server s waits for the end of a BGSAVE that started at an offset.
SetupSlave(k, s, offset) ==
    [k EXCEPT !.st = "wait_end", !.init = offset,
              !.out = Append(@, [type |-> "fullresync",
                                     init |-> [id |-> s.replid, off |-> offset]])]

\* A BGSAVE of server m, in state s, for its slaves in WAIT_BGSAVE_START: when it
\* cannot start they get an error and are dropped.  failed counts the faults so far.
startBgsaveForReplication(c, m, s, failed) ==
    LET rs == Waiting(c, m, "wait_start") IN
    \/ /\ rdbPopulateSaveInfo(s)
       /\ child' = [child EXCEPT ![m] = Snapshot(s)]
       /\ conn' = [r \in Nodes |-> IF r \in rs THEN SetupSlave(c[r], s, s.offset) ELSE c[r]]
       /\ faults' = failed
    \/ /\ IF rdbPopulateSaveInfo(s) THEN failed < MaxFaults /\ faults' = failed + 1
                                  ELSE faults' = failed
       /\ child' = [child EXCEPT ![m] = None]
       /\ conn' = [r \in Nodes |->
                      IF r \notin rs THEN c[r]
                      ELSE [c[r] EXCEPT !.st = "refused", !.open = FALSE,
                                        !.out = Append(@, [type |-> "error"])]]

\* replicationCron(): slaves still wait for a BGSAVE to start.
StartBgsave(m) ==
    /\ Waiting(conn, m, "wait_start") # {}
    /\ child[m] = None
    /\ startBgsaveForReplication(conn, m, srv[m], faults)
    /\ UNCHANGED <<srv, disk, ids, writes, saves, moves>>

\* The end of a BGSAVE, for the slaves in c, then one for those who wait.
NextBgsave(c, m, failed) ==
    IF Waiting(c, m, "wait_start") # {}
    THEN startBgsaveForReplication(c, m, srv[m], failed)
    ELSE child' = [child EXCEPT ![m] = None] /\ conn' = c /\ faults' = failed

BgsaveDone(m) ==
    /\ child[m] # None
    /\ disk' = [disk EXCEPT ![m] = child[m]]
    /\ NextBgsave([r \in Nodes |->
                      IF r \in Waiting(conn, m, "wait_end")
                      THEN [conn[r] EXCEPT !.st = "send_bulk", !.rdb = child[m],
                                             !.init = 0]
                      ELSE conn[r]], m, faults)
    /\ UNCHANGED <<srv, ids, writes, saves, moves>>

\* The slaves that waited for it are freed.
BgsaveFails(m) ==
    /\ child[m] # None
    /\ faults < MaxFaults
    /\ NextBgsave(disconnectSlaves(conn, Waiting(conn, m, "wait_end")), m, faults + 1)
    /\ UNCHANGED <<srv, disk, ids, writes, saves, moves>>

\* The last of the file leaves, and what the slave accumulated follows it.
sendBulkToSlave(r) ==
    /\ conn[r] # None
    /\ r \in Waiting(conn, conn[r].peer, "send_bulk")
    /\ conn' = [conn EXCEPT ![r] =
                   [@ EXCEPT !.st = "online", !.rdb = None, !.buf = <<>>,
                             !.out = Append(@, [type |-> "rdb", snap |-> conn[r].rdb])
                                         \o conn[r].buf]]
    /\ UNCHANGED <<srv, child, disk, ids, writes, saves, moves, faults>>

\* A save for persistence, in one step.
Save(n) ==
    /\ child[n] = None
    /\ saves < MaxSaves
    /\ disk' = [disk EXCEPT ![n] = Snapshot(srv[n])]
    /\ saves' = saves + 1
    /\ UNCHANGED <<srv, conn, child, ids, writes, moves, faults>>

----------------------------------------------------------------------------
(* The master's side of PSYNC                                              *)

\* PSYNC ? -1
NoRequest == [id |-> -1, off |-> -1]

\* Mutant: the second ID is valid at every offset.
CanContinueAnyOffset(s, req) ==
    /\ \/ req.id = s.replid
       \/ req.id = s.replid2
    /\ s.backlog.on
    /\ req.off >= s.backlog.off
    /\ req.off <= s.backlog.off + s.backlog.histlen

\* masterTryPartialResynchronization(): this server knows the history asked for,
\* and still has what comes next.
CanContinue(s, req) ==
    /\ \/ req.id = s.replid
       \/ req.id = s.replid2 /\ req.off <= s.second
    /\ s.backlog.on
    /\ req.off >= s.backlog.off
    /\ req.off <= s.backlog.off + s.backlog.histlen

\* A server with a backlog created from scratch: a new ID and no second one.
FirstBacklog(s, id) == [s EXCEPT !.replid = id, !.replid2 = 0, !.second = -1,
                                 !.backlog = createReplicationBacklog(s.offset)]

\* The end of syncCommand(): slave r joins the BGSAVE in progress, with a copy of
\* what a slave that waits for it accumulated, waits for the next one, or one
\* starts, unless the append only file is being rewritten.
JoinBgsave(c, m, s, r) ==
    LET joined == Waiting(c, m, "wait_end") IN
    IF child[m] # None
    THEN /\ conn' = IF joined = {} THEN c
                    ELSE LET first == CHOOSE k \in joined : TRUE IN
                         [c EXCEPT ![r] = SetupSlave([@ EXCEPT !.buf = c[first].buf], s,
                                                     c[first].init)]
         /\ UNCHANGED <<child, faults>>
    ELSE \/ startBgsaveForReplication(c, m, s, faults)
         \/ conn' = c /\ Fault /\ UNCHANGED child

syncCommand(r) ==
    LET k == [conn[r] EXCEPT !.req = NoRequest]
        req == conn[r].req
        m == k.peer
        s == srv[m]
        fresh == Slaves(m) = {} /\ ~s.backlog.on
        full == IF fresh THEN FirstBacklog(s, ids + 1) ELSE s
    IN  /\ conn[r] # None
        /\ k.open /\ k.st = "psync"
        /\ \/ /\ s.masterhost # None /\ s.repl_state # "connected"
              /\ conn' = [conn EXCEPT ![r] = [k EXCEPT !.st = "refused",
                                             !.out = <<[type |-> "nomasterlink"]>>]]
              /\ UNCHANGED <<srv, child, ids, faults>>
           \/ /\ s.masterhost = None \/ s.repl_state = "connected"
              /\ CanContinue(s, req)
              /\ conn' = [conn EXCEPT ![r] = [k EXCEPT !.st = "online",
                      !.out = LET rest == addReplyReplicationBacklog(s.backlog, req.off)
                              IN  <<[type |-> "continue", id |-> s.replid]>>
                                     \o [i \in DOMAIN rest |-> Message(rest[i])]]]
              /\ UNCHANGED <<srv, child, ids, faults>>
           \/ /\ s.masterhost = None \/ s.repl_state = "connected"
              /\ ~CanContinue(s, req)
              /\ srv' = [srv EXCEPT ![m] = full]
              /\ ids' = IF fresh THEN ids + 1 ELSE ids
              /\ JoinBgsave([conn EXCEPT ![r] = [k EXCEPT !.st = "wait_start"]], m, full, r)
        /\ UNCHANGED <<disk, writes, saves, moves>>

\* Mutant: the ID is kept when the backlog is freed.
BacklogTimeoutKeepsId(m) ==
    /\ Fault
    /\ srv[m].masterhost = None /\ srv[m].backlog.on
    /\ Slaves(m) = {}
    /\ srv' = [srv EXCEPT ![m] = [@ EXCEPT !.replid2 = 0,
                                           !.second = -1, !.backlog = NoBacklog]]
    /\ UNCHANGED <<ids, conn, child, disk, writes, saves, moves>>

\* replicationCron(): no slave for long, so the backlog is freed, and a new ID
\* says that the offset is no longer kept.
BacklogTimeout(m) ==
    /\ Fault
    /\ srv[m].masterhost = None /\ srv[m].backlog.on
    /\ Slaves(m) = {}
    /\ srv' = [srv EXCEPT ![m] = [@ EXCEPT !.replid = ids + 1, !.replid2 = 0,
                                           !.second = -1, !.backlog = NoBacklog]]
    /\ ids' = ids + 1
    /\ UNCHANGED <<conn, child, disk, writes, saves, moves>>
----------------------------------------------------------------------------
(* The replica's side                                                      *)

\* The connection of r is gone; it tries again at the next cron.
Reconnect(s) == [s EXCEPT !.repl_state = "connect"]

\* freeClient() of the master, which replicationCacheMaster() keeps for a PSYNC.
LoseMaster(s) == IF s.master = None THEN Reconnect(s)
                 ELSE [Reconnect(s) EXCEPT !.cached = s.master, !.master = None]

OpenConnection(host, req) ==
    [peer |-> host, open |-> TRUE, st |-> "psync", req |-> req,
     out |-> <<>>, buf |-> <<>>, init |-> 0, rdb |-> None]

\* Mutant: PSYNC asks for the last write it has.
ConnectAtOffset(r) ==
    /\ srv[r].repl_state = "connect"
    /\ srv' = [srv EXCEPT ![r].repl_state = "receive_psync"]
    /\ conn' = [conn EXCEPT ![r] = OpenConnection(srv[r].masterhost,
           IF srv[r].cached = None THEN NoRequest
           ELSE [id |-> srv[r].cached.id, off |-> srv[r].cached.off])]
    /\ UNCHANGED <<child, disk, ids, writes, saves, moves, faults>>

\* replicationCron(), connectWithMaster() and syncWithMaster() up to the PSYNC.
Connect(r) ==
    /\ srv[r].repl_state = "connect"
    /\ srv' = [srv EXCEPT ![r].repl_state = "receive_psync"]
    /\ conn' = [conn EXCEPT ![r] = OpenConnection(srv[r].masterhost,
           IF srv[r].cached = None THEN NoRequest
           ELSE [id |-> srv[r].cached.id, off |-> srv[r].cached.off + 1])]
    /\ UNCHANGED <<child, disk, ids, writes, saves, moves, faults>>

\* The next message from the master of r has a type, and is consumed.
Reads(r, type) == /\ conn[r] # None
                  /\ conn[r].out # <<>>
                  /\ Head(conn[r].out).type = type

Consumed(r) == [conn EXCEPT ![r].out = Tail(@)]

\* PSYNC failed: no more partial resynchronization, and a file is awaited.
FullSync(s, init) == [s EXCEPT !.cached = None, !.backlog = NoBacklog,
                                  !.repl_state = "transfer", !.init = init]

\* Mutant: the slaves of r stay connected.
ReadFullResyncKeepsSlaves(r) ==
    /\ Reads(r, "fullresync")
    /\ srv' = [srv EXCEPT ![r] = FullSync(@, Head(conn[r].out).init)]
    /\ conn' = Consumed(r)
    /\ UNCHANGED <<child, disk, ids, writes, saves, moves, faults>>

ReadFullResync(r) ==
    /\ Reads(r, "fullresync")
    /\ srv' = [srv EXCEPT ![r] = FullSync(@, Head(conn[r].out).init)]
    /\ conn' = disconnectSlaves(Consumed(r), Slaves(r))
    /\ UNCHANGED <<child, disk, ids, writes, saves, moves, faults>>

\* An error is taken for a master without PSYNC: the SYNC sent next is not read.
ReadError(r) ==
    /\ Reads(r, "error")
    /\ srv' = [srv EXCEPT ![r] = FullSync(@, NoRequest)]
    /\ conn' = disconnectSlaves(Consumed(r), Slaves(r))
    /\ UNCHANGED <<child, disk, ids, writes, saves, moves, faults>>

ReadTryLater(r) ==
    /\ Reads(r, "nomasterlink")
    /\ srv' = [srv EXCEPT ![r] = Reconnect(@)]
    /\ conn' = [conn EXCEPT ![r] = None]
    /\ UNCHANGED <<child, disk, ids, writes, saves, moves, faults>>

\* The ID of a master that changed becomes the ID of r, the old one its second
\* ID, and the slaves of r are disconnected to learn of it.
ReadContinue(r) ==
    LET id == Head(conn[r].out).id
        s == srv[r]
        changed == id # s.cached.id
        renamed == IF changed
                   THEN [s EXCEPT !.replid2 = s.cached.id, !.second = s.offset + 1, !.replid = id]
                   ELSE s
    IN  /\ Reads(r, "continue")
        /\ srv' = [srv EXCEPT ![r] =
               [renamed EXCEPT !.master = [id |-> id, off |-> s.cached.off], !.cached = None,
                               !.repl_state = "connected",
                               !.backlog = IF @.on THEN @ ELSE createReplicationBacklog(s.offset)]]
        /\ conn' = disconnectSlaves(Consumed(r), IF changed THEN Slaves(r) ELSE {})
        /\ UNCHANGED <<child, disk, ids, writes, saves, moves, faults>>

\* The whole file is here: a child of r is killed, the file becomes the RDB file
\* of r, and its data replaces those of r.
readSyncBulkPayload(r) ==
    LET snap == Head(conn[r].out).snap
        init == srv[r].init
        loaded == [srv[r] EXCEPT
            !.data = snap.data, !.replid = init.id, !.offset = init.off,
            !.replid2 = 0, !.second = -1, !.master = init, !.init = NoRequest, !.repl_state = "connected",
            !.backlog = IF @.on THEN @ ELSE createReplicationBacklog(init.off)]
    IN  /\ Reads(r, "rdb")
        /\ disk' = [disk EXCEPT ![r] = snap]
        /\ child' = [child EXCEPT ![r] = None]
        /\ \/ /\ srv' = [srv EXCEPT ![r] = loaded]
              /\ conn' = Consumed(r)
              /\ UNCHANGED faults
           \/ /\ Fault
              /\ srv' = [srv EXCEPT ![r] = [Reconnect(@) EXCEPT !.data = <<>>]]
              /\ conn' = [conn EXCEPT ![r] = None]
        /\ UNCHANGED <<ids, writes, saves, moves>>

\* A write of the stream, applied and passed on as it is.
ReadWrite(r) ==
    LET w == Head(conn[r].out).w IN
    /\ Reads(r, "write")
    /\ srv' = [srv EXCEPT ![r] = Apply([@ EXCEPT !.master.off = @ + 1], w)]
    /\ conn' = FeedSlaves(Consumed(r), r, w)
    /\ UNCHANGED <<child, disk, ids, writes, saves, moves, faults>>

----------------------------------------------------------------------------
(* Faults and administration                                               *)

\* Mutant: the end of the stream is seen only once connected.
ReadEofWhenConnected(r) ==
    /\ conn[r] # None
    /\ ~conn[r].open /\ conn[r].out = <<>>
    /\ srv[r].master # None
    /\ srv' = [srv EXCEPT ![r] = LoseMaster(@)]
    /\ conn' = [conn EXCEPT ![r] = None]
    /\ UNCHANGED <<child, disk, ids, writes, saves, moves, faults>>

\* The master closed the connection, and all it sent was read.
ReadEof(r) ==
    /\ conn[r] # None
    /\ ~conn[r].open /\ conn[r].out = <<>>
    /\ srv' = [srv EXCEPT ![r] = LoseMaster(@)]
    /\ conn' = [conn EXCEPT ![r] = None]
    /\ UNCHANGED <<child, disk, ids, writes, saves, moves, faults>>

\* The replica loses its connection, or times out: what was sent is lost.  A
\* master flagged to be closed is not kept.
LoseConnection(r) ==
    /\ Fault
    /\ conn[r] # None
    /\ \E s \in {LoseMaster(srv[r]), [Reconnect(srv[r]) EXCEPT !.master = None]} :
          srv' = [srv EXCEPT ![r] = s]
    /\ conn' = [conn EXCEPT ![r] = None]
    /\ UNCHANGED <<child, disk, ids, writes, saves, moves>>

\* The master drops a slave: a timeout, an error, its output buffer limit.
DropSlave(r) ==
    /\ Fault
    /\ conn[r] # None
    /\ r \in Slaves(conn[r].peer)
    /\ conn' = disconnectSlaves(conn, {r})
    /\ UNCHANGED <<srv, child, disk, ids, writes, saves, moves>>

\* REPLICAOF host port.
replicationSetMaster(n, host) ==
    /\ moves < MaxMoves
    /\ host # n /\ host # srv[n].masterhost
    /\ srv' = [srv EXCEPT ![n] =
           IF srv[n].masterhost = None
           THEN [Reconnect(@) EXCEPT !.masterhost = host,
                                     !.cached = [id |-> srv[n].replid, off |-> srv[n].offset]]
           ELSE [LoseMaster(@) EXCEPT !.masterhost = host]]
    /\ conn' = [disconnectSlaves(conn, Slaves(n)) EXCEPT ![n] = None]
    /\ moves' = moves + 1
    /\ UNCHANGED <<child, disk, ids, writes, saves, faults>>

\* Mutant: a promoted server keeps the ID of its master.
shiftIdKept(s, id) == [s EXCEPT !.replid2 = s.replid, !.second = s.offset + 1]

\* Mutant: the second ID is valid for one write too many.
shiftIdOffByOne(s, id) == [s EXCEPT !.replid2 = s.replid, !.second = s.offset + 2, !.replid = id]

\* The history so far, up to the first write not in it, gets the second ID.
shiftReplicationId(s, id) ==
    [s EXCEPT !.replid2 = s.replid, !.second = s.offset + 1, !.replid = id]

\* REPLICAOF NO ONE.
replicationUnsetMaster(n) ==
    /\ moves < MaxMoves
    /\ srv[n].masterhost # None
    /\ srv' = [srv EXCEPT ![n] = [shiftReplicationId(@, ids + 1) EXCEPT
                   !.masterhost = None, !.repl_state = "none", !.master = None, !.cached = None]]
    /\ conn' = [disconnectSlaves(conn, Slaves(n)) EXCEPT ![n] = None]
    /\ ids' = ids + 1
    /\ moves' = moves + 1
    /\ UNCHANGED <<child, disk, writes, saves, faults>>

\* The server replicaof names in the configuration file of n.
Configured(n) == IF n = Root THEN None ELSE Root

\* A server that starts with an RDB file: a replica resumes where the file says.
loadDataFromDisk(host, rdb, id) ==
    LET known == host # None /\ rdb.info IN
    [masterhost |-> host, repl_state |-> IF host = None THEN "none" ELSE "connect",
     replid |-> IF known THEN rdb.replid ELSE id, offset |-> IF known THEN rdb.offset ELSE 0,
     replid2 |-> 0, second |-> -1, backlog |-> NoBacklog, data |-> rdb.data, master |-> None,
     cached |-> IF known THEN [id |-> rdb.replid, off |-> rdb.offset] ELSE None,
     init |-> NoRequest]

\* A crash and restart, with the configuration file as it was or rewritten.
Restart(n) ==
    /\ Fault
    /\ \E host \in {Configured(n), srv[n].masterhost} :
          srv' = [srv EXCEPT ![n] = loadDataFromDisk(host, disk[n], ids + 1)]
    /\ conn' = [r \in Nodes |-> IF r = n \/ conn[r] = None THEN None
                               ELSE IF conn[r].peer = n THEN [conn[r] EXCEPT !.open = FALSE]
                               ELSE conn[r]]
    /\ child' = [child EXCEPT ![n] = None]
    /\ ids' = ids + 1
    /\ UNCHANGED <<disk, writes, saves, moves>>

\* The configured replicas have synchronized with Root for the first time.
Init ==
    LET first == [data |-> <<>>, info |-> TRUE, replid |-> 1, offset |-> 0]
        position == [id |-> 1, off |-> 0]
        synced == [loadDataFromDisk(Root, first, 1) EXCEPT
                      !.repl_state = "connected", !.master = position, !.cached = None,
                      !.backlog = createReplicationBacklog(0)]
    IN  /\ srv = [n \in Nodes |-> IF n # Root THEN synced
                                 ELSE FirstBacklog(loadDataFromDisk(None, first, 0), 1)]
        /\ conn = [n \in Nodes |-> IF n = Root THEN None
                                  ELSE [OpenConnection(Root, NoRequest) EXCEPT !.st = "online"]]
        /\ child = [n \in Nodes |-> None]
        /\ disk = [n \in Nodes |-> first]
        /\ ids = 1
        /\ writes = 0 /\ saves = 0 /\ moves = 0 /\ faults = 0

\* What the servers do by themselves.
Serve(m) == StartBgsave(m) \/ BgsaveDone(m)

Follow(r) == \/ Connect(r) \/ syncCommand(r) \/ sendBulkToSlave(r)
             \/ ReadFullResync(r) \/ ReadError(r) \/ ReadTryLater(r) \/ ReadContinue(r)
             \/ readSyncBulkPayload(r) \/ ReadWrite(r) \/ ReadEof(r)

Next ==
    \/ \E n \in Nodes : Serve(n) \/ Follow(n)
    \/ \E n \in Nodes : \/ Write(n) \/ Save(n)
                       \/ \E host \in Targets : replicationSetMaster(n, host)
    \/ \E n \in Targets : replicationUnsetMaster(n)
    \/ \E n \in Nodes : \/ BgsaveFails(n) \/ BacklogTimeout(n) \/ LoseConnection(n)
                       \/ DropSlave(n) \/ Restart(n)

Spec == Init /\ [][Next]_vars

\* The event loop and the cron of every server run, and a BGSAVE ends.
FairSpec == Spec /\ \A n \in Nodes : WF_vars(Serve(n)) /\ WF_vars(Follow(n))

----------------------------------------------------------------------------
(* Properties                                                              *)

Position == [id : Nat, off : Nat]

\* The state of every server, connection, child and file is one of its kind.
TypeOK ==
    /\ \A n \in Nodes :
          /\ srv[n].masterhost \in (Nodes \ {n}) \cup {None}
          /\ srv[n].repl_state \in {"none", "connect", "receive_psync", "transfer", "connected"}
          /\ (srv[n].repl_state = "none") = (srv[n].masterhost = None)
          /\ (srv[n].repl_state = "connected") = (srv[n].master # None)
          /\ (srv[n].repl_state \in {"none", "connect"}) = (conn[n] = None)
          /\ srv[n].master \in Position \cup {None}
          /\ srv[n].cached \in Position \cup {None}
          /\ srv[n].backlog.histlen \in 0..BacklogSize
          /\ conn[n] # None => conn[n].peer = srv[n].masterhost
    /\ ids \in Nat

\* Every place where a data set is held together with a replication ID and an
\* offset that describe it, by the code's own rule (rdbPopulateSaveInfo).
Snapshots ==
    {s \in {Snapshot(srv[n]) : n \in Nodes} \cup {disk[n] : n \in Nodes}
            \cup ({child[n] : n \in Nodes} \ {None}) : s.info}

Continues(s, t) == /\ IsPrefix(s.data, t.data)
                   /\ Len(t.data) - Len(s.data) = t.offset - s.offset

\* A replication ID names one history: of two servers, files or children that
\* know the same ID, the one at the smaller offset holds the data of the other
\* one less the writes between the two offsets (replication.c, the comments on
\* changeReplicationId() and on freeing the backlog).
OneHistoryPerId ==
    \A s, t \in Snapshots :
        s.replid = t.replid /\ s.offset <= t.offset => Continues(s, t)

\* The second ID of a server that serves a backlog is a history it continues, up
\* to second_replid_offset - 1 (masterTryPartialResynchronization).
SecondIdIsPast ==
    \A n \in Nodes : \A s \in Snapshots :
        (srv[n].backlog.on /\ s.replid = srv[n].replid2 /\ s.offset < srv[n].second)
            => Continues(s, Snapshot(srv[n]))

\* A replica linked to its master has the master's ID, and its data, less what
\* is on its way: no write is lost, doubled or reordered whatever mix of full and
\* partial resynchronizations led there (readSyncBulkPayload, ReadContinue).
LinkedReplicaFollows ==
    \A r \in Nodes : srv[r].master # None /\ conn[r].open =>
        LET m == srv[conn[r].peer] IN
        /\ srv[r].replid = m.replid
        /\ srv[r].data \o [i \in DOMAIN conn[r].out |-> conn[r].out[i].w] = m.data
        /\ srv[r].offset + Len(conn[r].out) = m.offset

\* What the code takes for granted of a server's replication state: "We can't
\* have slaves attached and no backlog" (replicationFeedSlaves); and a replica
\* advances its offset only with data from its master, so the position it asks
\* to resume from is its own (rdbPopulateSaveInfo, rdb.c).
RolesConsistent ==
    /\ TypeOK
    /\ \A m \in Nodes : Slaves(m) # {} => srv[m].backlog.on
    /\ \A n \in Nodes : srv[n].cached # None =>
          srv[n].cached = [id |-> srv[n].replid, off |-> srv[n].offset]

\* No server follows, through others, itself.
Acyclic == \E rank \in [Nodes -> 1..Cardinality(Nodes)] :
               \A n \in Nodes : srv[n].masterhost # None => rank[srv[n].masterhost] < rank[n]

Agrees(r) == LET m == srv[srv[r].masterhost] IN
             srv[r].data = m.data /\ srv[r].replid = m.replid /\ srv[r].offset = m.offset

\* Once clients, operators and faults leave the servers alone, every replica ends
\* with the data, the ID and the offset of its master, unless servers follow each
\* other in a circle (replicationCron, syncWithMaster and the retries of both).
ReplicasConverge ==
    <>[](Acyclic => \A r \in Nodes : srv[r].masterhost # None => Agrees(r))
=============================================================================
