----------------------------- MODULE RedisMulti -----------------------------
(***************************************************************************)
(* Transactions of the bundled redis 5.0.10: WATCH, MULTI, the queueing in *)
(* processCommand(), EXEC and DISCARD (multi.c), and what call() and       *)
(* execCommand() feed to the append only file and the replication stream.  *)
(*                                                                         *)
(* A key is identified by its database and its name.  A value is only      *)
(* present or absent; a write is a change of value even when it is neither *)
(* created nor removed.  The server has one thread: while running # None   *)
(* it is inside execCommand() of that client, one queued command per step, *)
(* and no other action is enabled.                                         *)
(***************************************************************************)
EXTENDS Naturals, Sequences, FiniteSets

CONSTANTS Clients,    \* connected clients
          DBs,        \* the two databases SWAPDB exchanges
          Names,      \* key names
          None,       \* no client
          MaxOpen,    \* bound: clients inside MULTI at a time
          MaxQueue,   \* bound: commands a client queues
          QueuedOps   \* bound: the operations clients queue

ASSUME MultiAssumption == /\ None \notin Clients
                          /\ \A d \in DBs : \E e \in DBs : e # d
                          /\ MaxOpen \in Nat
                          /\ MaxQueue \in Nat

VARIABLES exists,        \* db->dict: which keys have a value
          watched_keys,  \* db->watched_keys: the clients watching a key
          watching,      \* c->watched_keys: the keys a client watches
          flags,         \* c->flags
          commands,      \* c->mstate.commands
          masterhost,    \* server.masterhost # NULL: a read-only replica
          running,       \* the client inside execCommand(), or None
          must_propagate,\* MULTI of the running EXEC was propagated
          was_master,    \* the role when the running EXEC started
          aof,           \* the append only file
          repl,          \* the replication stream and backlog
          changed,       \* history: a command changed a key the client watches
          refused,       \* history: how commands were refused since MULTI
          recast         \* history: some EXEC changed the server's role

data == <<exists, aof, repl>>
client == <<watched_keys, watching, flags, commands>>
exec == <<running, must_propagate, was_master>>
vars == <<exists, watched_keys, watching, flags, commands, masterhost, running,
          must_propagate, was_master, aof, repl, changed, refused, recast>>

Key == DBs \X Names
Flag == {"MULTI", "DIRTY_CAS", "DIRTY_EXEC"}

----------------------------------------------------------------------------
(* The commands: the three kinds the flags of the command table tell apart *)

\* The argument of a command that names no key.
NoKey == CHOOSE k \in Key : TRUE

Command == [op : {"set", "del", "flushdb"}, at : Key]
           \cup [op : {"get", "swapdb", "unwatch", "replicaof", "noone"}, at : {NoKey}]

CMD_WRITE(cmd) == cmd.op \in {"set", "del", "flushdb", "swapdb"}
CMD_READONLY(cmd) == cmd.op = "get"
CMD_ADMIN(cmd) == cmd.op \in {"replicaof", "noone"}

\* The key a key becomes when the two databases are exchanged.
OtherDB(d) == CHOOSE e \in DBs : e # d
Swapped(k) == <<OtherDB(k[1]), k[2]>>

\* The data set after a command ran on data set e.
Applied(cmd, e) ==
    [k \in Key |-> CASE cmd.op = "set" /\ k = cmd.at -> TRUE
                     [] cmd.op = "del" /\ k = cmd.at -> FALSE
                     [] cmd.op = "flushdb" /\ k[1] = cmd.at[1] -> FALSE
                     [] cmd.op = "swapdb" -> e[Swapped(k)]
                     [] OTHER -> e[k]]

\* The keys whose value a command changes.
Modified(cmd, e) ==
    {k \in Key : \/ cmd.op = "set" /\ k = cmd.at
                 \/ cmd.op = "del" /\ k = cmd.at /\ e[k]
                 \/ cmd.op = "flushdb" /\ k[1] = cmd.at[1] /\ e[k]
                 \/ cmd.op = "swapdb" /\ (e[k] \/ e[Swapped(k)])}

\* Mutant: a command is dirty only when it changes a value.
DirtyByValue(cmd, e) == Modified(cmd, e) # {} /\ cmd.op # "swapdb"

\* server.dirty: SWAPDB counts as a change whatever the databases hold.
Dirty(cmd, e) == Modified(cmd, e) # {} \/ cmd.op = "swapdb"

touchWatchedKey(k) == watched_keys[k]

\* Mutant: a flush touches watched keys that do not exist.
touchAllOnFlush(d) == {c \in Clients : \E k \in watching[c] : k[1] = d}

touchWatchedKeysOnFlush(d) ==
    {c \in Clients : \E k \in watching[c] : k[1] = d /\ exists[k]}

\* The clients a command flags CLIENT_DIRTY_CAS.  SWAPDB signals no key.
Touched(cmd) ==
    CASE cmd.op = "flushdb" -> touchWatchedKeysOnFlush(cmd.at[1])
      [] cmd.op \in {"set", "del"} ->
            UNION {touchWatchedKey(k) : k \in Modified(cmd, exists)}
      [] OTHER -> {}

Flagged(cs) == [c \in Clients |-> IF c \in cs THEN flags[c] \cup {"DIRTY_CAS"}
                                              ELSE flags[c]]

\* History: the clients that watch a key a command changes.
Noted(ks) == [c \in Clients |-> changed[c] \/ watching[c] \cap ks # {}]

----------------------------------------------------------------------------
(* The two streams.  The file is kept as the data set its replay rebuilds  *)
(* and the state of its MULTI bracket, the replication stream as the state *)
(* of its bracket alone.  A stream is torn when EXEC arrives outside a     *)
(* MULTI, or a command of a transaction arrives outside its bracket.       *)

Bracket(b, token) == CASE token = "MULTI" -> IF b = "flat" THEN "open" ELSE "torn"
                       [] token = "EXEC" -> IF b = "open" THEN "flat" ELSE "torn"
                       [] token = "write" /\ running = None -> b
                       [] OTHER -> IF b = "open" THEN b ELSE "torn"

FedAof(a, token) == [a EXCEPT !.bracket = Bracket(@, token)]

\* replicationFeedSlaves(): a replica only relays its master's stream.
FedRepl(r, token, replica) == IF replica THEN r ELSE Bracket(r, token)

\* call() of an ordinary command, once the streams hold a and r.
Call(c, cmd, a, r) ==
    LET dirty == Dirty(cmd, exists)
        bracket == IF dirty THEN FedAof(a, "write") ELSE a
    IN  /\ exists' = Applied(cmd, exists)
        /\ masterhost' = CASE cmd.op = "replicaof" -> TRUE
                           [] cmd.op = "noone" -> FALSE
                           [] OTHER -> masterhost
        /\ aof' = IF dirty THEN [bracket EXCEPT !.db = Applied(cmd, @)] ELSE a
        /\ repl' = IF dirty THEN FedRepl(r, "write", masterhost) ELSE r

----------------------------------------------------------------------------
(* Watching                                                                *)

\* Mutant: the entry of a key goes with the first client that stops watching.
UnwatchedByAll(c) == [k \in Key |-> IF k \in watching[c] THEN {}
                                                       ELSE watched_keys[k]]

\* db->watched_keys once unwatchAllKeys(c) removed the client.
UnwatchedBy(c) == [k \in Key |-> IF k \in watching[c] THEN watched_keys[k] \ {c}
                                                      ELSE watched_keys[k]]

unwatchAllKeys(c) ==
    /\ watched_keys' = UnwatchedBy(c)
    /\ watching' = [watching EXCEPT ![c] = {}]

discardTransaction(c) ==
    /\ flags' = [flags EXCEPT ![c] = {}]
    /\ commands' = [commands EXCEPT ![c] = <<>>]
    /\ unwatchAllKeys(c)
    /\ changed' = [changed EXCEPT ![c] = FALSE]
    /\ refused' = [refused EXCEPT ![c] = {}]

Init ==
    /\ exists \in [Key -> BOOLEAN]
    /\ watched_keys = [k \in Key |-> {}]
    /\ watching = [c \in Clients |-> {}]
    /\ flags = [c \in Clients |-> {}]
    /\ commands = [c \in Clients |-> <<>>]
    /\ masterhost = FALSE
    /\ running = None
    /\ must_propagate = FALSE
    /\ was_master = TRUE
    /\ aof = [bracket |-> "flat", db |-> exists]
    /\ repl = "flat"
    /\ changed = [c \in Clients |-> FALSE]
    /\ refused = [c \in Clients |-> {}]
    /\ recast = FALSE

\* WATCH of one key; inside MULTI it is refused and changes nothing.
watchCommand(c, k) ==
    /\ running = None
    /\ "MULTI" \notin flags[c]
    /\ k \notin watching[c]
    /\ watched_keys' = [watched_keys EXCEPT ![k] = @ \cup {c}]
    /\ watching' = [watching EXCEPT ![c] = @ \cup {k}]
    /\ UNCHANGED <<data, flags, commands, masterhost, exec, changed, refused, recast>>

multiCommand(c) ==
    /\ running = None
    /\ "MULTI" \notin flags[c]
    /\ Cardinality({d \in Clients : "MULTI" \in flags[d]}) < MaxOpen
    /\ flags' = [flags EXCEPT ![c] = @ \cup {"MULTI"}]
    /\ refused' = [refused EXCEPT ![c] = {}]
    /\ UNCHANGED <<data, watched_keys, watching, commands, masterhost, exec, changed, recast>>

discardCommand(c) ==
    /\ running = None
    /\ "MULTI" \in flags[c]
    /\ discardTransaction(c)
    /\ UNCHANGED <<data, masterhost, exec, recast>>

\* freeClient(), and a new client in its place.
freeClient(c) ==
    /\ running = None
    /\ discardTransaction(c)
    /\ UNCHANGED <<data, masterhost, exec, recast>>

----------------------------------------------------------------------------
(* processCommand()                                                        *)

\* A command refused before it is queued, with flagTransaction(): unknown
\* command, wrong arity, no authentication, out of memory, disk error, too
\* few replicas, link with the master down, a script that does not end.
Refuse(c) ==
    /\ running = None
    /\ "MULTI" \in flags[c]
    /\ flags' = [flags EXCEPT ![c] = @ \cup {"DIRTY_EXEC"}]
    /\ refused' = [refused EXCEPT ![c] = @ \cup {"flagged"}]
    /\ UNCHANGED <<data, watched_keys, watching, commands, masterhost, exec, changed, recast>>

ReadOnlyError(cmd) == masterhost /\ CMD_WRITE(cmd)

\* A write sent to a read-only replica is refused without flagTransaction().
RefuseWrite(c, cmd) ==
    /\ running = None
    /\ "MULTI" \in flags[c]
    /\ ReadOnlyError(cmd)
    /\ refused' = [refused EXCEPT ![c] = @ \cup {"read-only"}]
    /\ UNCHANGED <<data, client, masterhost, exec, changed, recast>>

queueMultiCommand(c, cmd) ==
    /\ running = None
    /\ "MULTI" \in flags[c]
    /\ ~ReadOnlyError(cmd)
    /\ Len(commands[c]) < MaxQueue
    /\ cmd.op \in QueuedOps
    /\ commands' = [commands EXCEPT ![c] = Append(@, cmd)]
    /\ UNCHANGED <<data, watched_keys, watching, flags, masterhost, exec,
                   changed, refused, recast>>

\* call() of UNWATCH, in and out of EXEC.
unwatchCommand(c) ==
    /\ unwatchAllKeys(c)
    /\ flags' = [flags EXCEPT ![c] = @ \ {"DIRTY_CAS"}]
    /\ changed' = [changed EXCEPT ![c] = FALSE]

\* What a command run for client c does to the clients' transactions.
Signal(c, cmd) ==
    \/ /\ cmd.op = "unwatch"
       /\ unwatchCommand(c)
    \/ /\ cmd.op # "unwatch"
       /\ flags' = Flagged(Touched(cmd))
       /\ changed' = IF cmd.op = "swapdb" THEN changed ELSE Noted(Modified(cmd, exists))
       /\ UNCHANGED <<watched_keys, watching>>

\* A command of a client that is not in a transaction.
Execute(c, cmd) ==
    /\ running = None
    /\ "MULTI" \notin flags[c]
    /\ ~ReadOnlyError(cmd)
    /\ Call(c, cmd, aof, repl)
    /\ Signal(c, cmd)
    /\ UNCHANGED <<commands, exec, refused, recast>>

\* A write in the stream of the master, run by the client of the master link
\* and relayed to the replication stream byte for byte.
MasterWrite(cmd) ==
    /\ running = None
    /\ masterhost
    /\ CMD_WRITE(cmd)
    /\ Call(None, cmd, aof, repl)
    /\ Signal(None, cmd)
    /\ UNCHANGED <<commands, exec, refused, recast>>

\* A key expires: expireIfNeeded() or the active cycle of a master deletes it
\* and propagates DEL, signalling no watcher.
expireIfNeeded(k) ==
    LET del == [op |-> "del", at |-> k] IN
    /\ running = None
    /\ ~masterhost
    /\ exists[k]
    /\ Call(None, del, aof, repl)
    /\ UNCHANGED <<client, exec, changed, refused, recast>>

----------------------------------------------------------------------------
(* execCommand()                                                           *)

Queued(c) == {commands[c][i] : i \in DOMAIN commands[c]}

\* Mutant: only a touched key aborts the transaction.
AbortCas(c) == "DIRTY_CAS" \in flags[c]

\* A watched key was touched, or a command was refused while queueing.
AbortFlags(c) == flags[c] \cap {"DIRTY_CAS", "DIRTY_EXEC"} # {}

\* Writes queued before the server became a read-only replica.
NowReadOnly(c) == masterhost /\ \E cmd \in Queued(c) : CMD_WRITE(cmd)

ExecAbort(c) ==
    /\ running = None
    /\ "MULTI" \in flags[c]
    /\ AbortFlags(c) \/ NowReadOnly(c)
    /\ discardTransaction(c)
    /\ UNCHANGED <<data, masterhost, exec, recast>>

ExecStart(c) ==
    /\ running = None
    /\ "MULTI" \in flags[c]
    /\ ~AbortFlags(c)
    /\ ~NowReadOnly(c)
    /\ unwatchAllKeys(c)
    /\ running' = c
    /\ was_master' = ~masterhost
    /\ changed' = [changed EXCEPT ![c] = FALSE]
    /\ UNCHANGED <<data, flags, commands, masterhost, must_propagate, refused, recast>>

\* The next command of the loop; the first that is neither read-only nor
\* administrative has MULTI propagated before it.
ExecNext(c) ==
    LET cmd == Head(commands[c])
        opens == ~must_propagate /\ ~CMD_READONLY(cmd) /\ ~CMD_ADMIN(cmd)
    IN  /\ running = c
        /\ commands[c] # <<>>
        /\ Call(c, cmd, IF opens THEN FedAof(aof, "MULTI") ELSE aof,
                        IF opens THEN FedRepl(repl, "MULTI", masterhost) ELSE repl)
        /\ Signal(c, cmd)
        /\ commands' = [commands EXCEPT ![c] = Tail(@)]
        /\ must_propagate' = (must_propagate \/ opens)
        /\ recast' = (recast \/ masterhost' # masterhost)
        /\ UNCHANGED <<running, was_master, refused>>

\* Mutant: the backlog of a demoted server is left as it is.
BacklogAsIs(r) == r

\* What feedReplicationBacklog() adds when the transaction demoted the server.
BacklogEnd(r) == IF was_master /\ masterhost THEN Bracket(r, "EXEC") ELSE r

\* The end of the loop: EXEC follows MULTI into both streams.
ExecEnd(c) ==
    /\ running = c
    /\ commands[c] = <<>>
    /\ discardTransaction(c)
    /\ running' = None
    /\ must_propagate' = FALSE
    /\ was_master' = TRUE
    /\ aof' = IF must_propagate THEN FedAof(aof, "EXEC") ELSE aof
    /\ repl' = IF must_propagate
               THEN FedRepl(BacklogEnd(repl), "EXEC", masterhost) ELSE repl
    /\ UNCHANGED <<exists, masterhost, recast>>

Next ==
    \/ \E c \in Clients, k \in Key : watchCommand(c, k)
    \/ \E c \in Clients : multiCommand(c)
    \/ \E c \in Clients : discardCommand(c)
    \/ \E c \in Clients : freeClient(c)
    \/ \E c \in Clients : Refuse(c)
    \/ \E c \in Clients, cmd \in Command : RefuseWrite(c, cmd)
    \/ \E c \in Clients, cmd \in Command : queueMultiCommand(c, cmd)
    \/ \E c \in Clients, cmd \in Command : Execute(c, cmd)
    \/ \E cmd \in Command : MasterWrite(cmd)
    \/ \E k \in Key : expireIfNeeded(k)
    \/ \E c \in Clients : ExecAbort(c)
    \/ \E c \in Clients : ExecStart(c)
    \/ \E c \in Clients : ExecNext(c)
    \/ \E c \in Clients : ExecEnd(c)

Spec == Init /\ [][Next]_vars

----------------------------------------------------------------------------
(* Properties                                                              *)

\* The types of the variables; only a client inside MULTI has queued commands,
\* as discardTransaction() empties the queue.
TypeOK ==
    /\ exists \in [Key -> BOOLEAN]
    /\ watched_keys \in [Key -> SUBSET Clients]
    /\ watching \in [Clients -> SUBSET Key]
    /\ flags \in [Clients -> SUBSET Flag]
    /\ commands \in [Clients -> Seq(Command)]
    /\ masterhost \in BOOLEAN
    /\ running \in Clients \cup {None}
    /\ must_propagate \in BOOLEAN
    /\ was_master \in BOOLEAN
    /\ aof \in [bracket : {"flat", "open", "torn"}, db : [Key -> BOOLEAN]]
    /\ repl \in {"flat", "open", "torn"}
    /\ changed \in [Clients -> BOOLEAN]
    /\ refused \in [Clients -> SUBSET {"flagged", "read-only"}]
    /\ recast \in BOOLEAN
    /\ \A c \in Clients : commands[c] # <<>> => "MULTI" \in flags[c]

\* The two directions of watching agree, so that unwatchAllKeys() finds the
\* client in every list its serverAssert demands, whatever mix of WATCH,
\* EXEC, DISCARD, UNWATCH and disconnections came before.
WatchListsAgree ==
    \A c \in Clients, k \in Key : c \in watched_keys[k] <=> k \in watching[c]

\* The check-and-set of WATCH: a client is dirty exactly when a command changed
\* one of the keys it still watches.  SWAPDB and expiry change keys unnoticed.
DirtyIffWritten ==
    \A c \in Clients : "DIRTY_CAS" \in flags[c] <=> changed[c]

\* A transaction starts only if no command changed a watched key since WATCH
\* and no command of it was refused, but for writes refused by a read-only
\* replica, which processCommand() does not flag.
ExecIsClean ==
    [][\A c \in Clients : running = None /\ running' = c =>
          ~changed[c] /\ refused[c] \subseteq {"read-only"}]_vars

\* Replaying the append only file gives the data set, and every transaction
\* in it is complete, whenever the server is between two commands.
AofReplays == running = None => aof = [bracket |-> "flat", db |-> exists]

\* The replication stream holds only whole transactions, but for those of a
\* server whose role an EXEC changed.
ReplBracketed == running = None => repl = "flat" \/ (repl = "torn" /\ recast)
=============================================================================
