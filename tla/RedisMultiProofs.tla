-------------------------- MODULE RedisMultiProofs --------------------------
(***************************************************************************)
(* Proofs about RedisMulti for any clients, keys and queue lengths.        *)
(***************************************************************************)
EXTENDS RedisMulti, TLAPS

\* A refusal that calls flagTransaction() leaves its mark until the
\* transaction is discarded.
RefusalsMarked ==
    \A c \in Clients : "flagged" \in refused[c] => "DIRTY_EXEC" \in flags[c]

\* The file in the middle of a transaction: it already replays to the data
\* set, and its bracket is open exactly when MULTI was propagated.
FileFollows ==
    /\ running = None => ~must_propagate
    /\ aof.db = exists
    /\ aof.bracket = IF must_propagate THEN "open" ELSE "flat"

MultiInv == /\ TypeOK
            /\ WatchListsAgree
            /\ DirtyIffWritten
            /\ RefusalsMarked
            /\ FileFollows

\* Exchanging the databases maps keys to keys.
LEMMA SwappedKey == ASSUME NEW k \in Key PROVE Swapped(k) \in Key
<1>1. k[1] \in DBs /\ k[2] \in Names
  BY DEF Key
<1>2. OtherDB(k[1]) \in DBs
  BY <1>1, MultiAssumption DEF MultiAssumption, OtherDB
<1> QED
  BY <1>1, <1>2 DEF Swapped, Key

\* A command maps a data set to a data set.
LEMMA AppliedType ==
    ASSUME NEW e \in [Key -> BOOLEAN], NEW cmd
    PROVE  Applied(cmd, e) \in [Key -> BOOLEAN]
<1> SUFFICES ASSUME NEW k \in Key
             PROVE  Applied(cmd, e)[k] \in BOOLEAN
  BY DEF Applied
<1>1. e[Swapped(k)] \in BOOLEAN
  BY SwappedKey
<1> QED
  BY <1>1 DEF Applied

\* The clients that a command flags are those that watch a key it changes.
LEMMA TouchedWatchers ==
    ASSUME TypeOK, WatchListsAgree, NEW cmd \in Command, cmd.op # "swapdb",
           NEW c \in Clients
    PROVE  c \in Touched(cmd) <=> watching[c] \cap Modified(cmd, exists) # {}
<1>1. CASE cmd.op = "flushdb"
  BY <1>1 DEF Touched, touchWatchedKeysOnFlush, Modified, TypeOK
<1>2. CASE cmd.op \in {"set", "del"}
  BY <1>2 DEF Touched, touchWatchedKey, Modified, TypeOK, WatchListsAgree
<1>3. CASE cmd.op \notin {"set", "del", "flushdb"}
  BY <1>3 DEF Touched, Modified
<1> QED
  BY <1>1, <1>2, <1>3

\* The initial states satisfy the invariant.
LEMMA InitInv == Init => MultiInv
<1> SUFFICES ASSUME Init PROVE MultiInv
  OBVIOUS
<1>1. aof \in [bracket : {"flat", "open", "torn"}, db : [Key -> BOOLEAN]]
  BY DEF Init
<1>2. commands \in [Clients -> Seq(Command)]
  BY DEF Init
<1>3. TypeOK
  BY <1>1, <1>2 DEF Init, TypeOK, Flag
<1>4. WatchListsAgree /\ DirtyIffWritten /\ RefusalsMarked
  BY DEF Init, WatchListsAgree, DirtyIffWritten, RefusalsMarked
<1>5. FileFollows
  BY DEF Init, FileFollows
<1> QED
  BY <1>3, <1>4, <1>5 DEF MultiInv

\* unwatchAllKeys() keeps the types and the agreement of the watch lists.
LEMMA UnwatchKeeps ==
    ASSUME TypeOK, WatchListsAgree, NEW c \in Clients, unwatchAllKeys(c)
    PROVE  /\ watched_keys' \in [Key -> SUBSET Clients]
           /\ watching' \in [Clients -> SUBSET Key]
           /\ WatchListsAgree'
<1>1. watched_keys' \in [Key -> SUBSET Clients]
  BY DEF unwatchAllKeys, UnwatchedBy, TypeOK
<1>2. watching' \in [Clients -> SUBSET Key]
  BY DEF unwatchAllKeys, TypeOK
<1>3. WatchListsAgree'
  BY DEF unwatchAllKeys, UnwatchedBy, TypeOK, WatchListsAgree
<1> QED
  BY <1>1, <1>2, <1>3

\* Discarding a transaction keeps everything the invariant says of clients.
LEMMA DiscardKeeps ==
    ASSUME MultiInv, NEW c \in Clients, discardTransaction(c)
    PROVE  /\ watched_keys' \in [Key -> SUBSET Clients]
           /\ watching' \in [Clients -> SUBSET Key]
           /\ flags' \in [Clients -> SUBSET Flag]
           /\ commands' \in [Clients -> Seq(Command)]
           /\ changed' \in [Clients -> BOOLEAN]
           /\ refused' \in [Clients -> SUBSET {"flagged", "read-only"}]
           /\ \A d \in Clients : commands'[d] # <<>> => "MULTI" \in flags'[d]
           /\ WatchListsAgree' /\ DirtyIffWritten' /\ RefusalsMarked'
<1>1. unwatchAllKeys(c) /\ TypeOK /\ WatchListsAgree
  BY DEF discardTransaction, MultiInv
<1>2. /\ watched_keys' \in [Key -> SUBSET Clients]
      /\ watching' \in [Clients -> SUBSET Key]
      /\ WatchListsAgree'
  BY <1>1, UnwatchKeeps
<1>3. /\ flags' \in [Clients -> SUBSET Flag]
      /\ changed' \in [Clients -> BOOLEAN]
      /\ refused' \in [Clients -> SUBSET {"flagged", "read-only"}]
  BY <1>1 DEF discardTransaction, TypeOK
<1>4. /\ commands' \in [Clients -> Seq(Command)]
      /\ \A d \in Clients : commands'[d] # <<>> => "MULTI" \in flags'[d]
  BY <1>1 DEF discardTransaction, TypeOK
<1>5. DirtyIffWritten' /\ RefusalsMarked'
  BY DEF discardTransaction, MultiInv, TypeOK, DirtyIffWritten, RefusalsMarked
<1> QED
  BY <1>2, <1>3, <1>4, <1>5

\* A command that runs keeps everything the invariant says of watching.
LEMMA SignalKeeps ==
    ASSUME MultiInv, NEW cmd \in Command, NEW c, Signal(c, cmd),
           c \in Clients \/ cmd.op # "unwatch"
    PROVE  /\ watched_keys' \in [Key -> SUBSET Clients]
           /\ watching' \in [Clients -> SUBSET Key]
           /\ flags' \in [Clients -> SUBSET Flag]
           /\ changed' \in [Clients -> BOOLEAN]
           /\ \A d \in Clients : flags[d] \ {"DIRTY_CAS"} \subseteq flags'[d]
           /\ WatchListsAgree' /\ DirtyIffWritten'
<1>0. TypeOK /\ WatchListsAgree /\ DirtyIffWritten
  BY DEF MultiInv
<1>1. CASE cmd.op = "unwatch"
  <2>1. c \in Clients /\ unwatchCommand(c) /\ unwatchAllKeys(c)
    BY <1>1 DEF Signal, unwatchCommand
  <2>2. /\ watched_keys' \in [Key -> SUBSET Clients]
        /\ watching' \in [Clients -> SUBSET Key]
        /\ WatchListsAgree'
    BY <1>0, <2>1, UnwatchKeeps
  <2>3. /\ flags' \in [Clients -> SUBSET Flag]
        /\ changed' \in [Clients -> BOOLEAN]
        /\ \A d \in Clients : flags[d] \ {"DIRTY_CAS"} \subseteq flags'[d]
    BY <1>0, <2>1 DEF unwatchCommand, TypeOK
  <2>4. DirtyIffWritten'
    BY <1>0, <2>1 DEF unwatchCommand, TypeOK, DirtyIffWritten
  <2> QED
    BY <2>2, <2>3, <2>4
<1>2. CASE cmd.op # "unwatch"
  <2>1. /\ flags' = Flagged(Touched(cmd))
        /\ changed' = IF cmd.op = "swapdb" THEN changed
                                            ELSE Noted(Modified(cmd, exists))
        /\ watched_keys' = watched_keys
        /\ watching' = watching
    BY <1>2 DEF Signal
  <2>2. /\ flags' \in [Clients -> SUBSET Flag]
        /\ \A d \in Clients : flags[d] \subseteq flags'[d]
    BY <1>0, <2>1 DEF Flagged, Flag, TypeOK
  <2>3. changed' \in [Clients -> BOOLEAN]
    BY <1>0, <2>1 DEF Noted, TypeOK
  <2>4. ASSUME NEW d \in Clients
        PROVE  "DIRTY_CAS" \in flags'[d] <=> changed'[d]
    <3>1. "DIRTY_CAS" \in flags[d] <=> changed[d]
      BY <1>0 DEF DirtyIffWritten
    <3>2. "DIRTY_CAS" \in flags'[d] <=> "DIRTY_CAS" \in flags[d] \/ d \in Touched(cmd)
      BY <2>1 DEF Flagged
    <3>3. CASE cmd.op = "swapdb"
      <4>1. d \notin Touched(cmd)
        BY <3>3 DEF Touched
      <4> QED
        BY <2>1, <3>1, <3>2, <3>3, <4>1
    <3>4. CASE cmd.op # "swapdb"
      <4>1. d \in Touched(cmd) <=> watching[d] \cap Modified(cmd, exists) # {}
        BY <1>0, <3>4, TouchedWatchers
      <4>2. changed'[d] <=> changed[d] \/ watching[d] \cap Modified(cmd, exists) # {}
        BY <2>1, <3>4 DEF Noted
      <4> QED
        BY <3>1, <3>2, <4>1, <4>2
    <3> QED
      BY <3>3, <3>4
  <2> QED
    BY <1>0, <2>1, <2>2, <2>3, <2>4 DEF TypeOK, WatchListsAgree, DirtyIffWritten
<1> QED
  BY <1>1, <1>2

\* A command that is not counted as dirty leaves the data set as it is.
LEMMA CleanKeepsData ==
    ASSUME NEW e \in [Key -> BOOLEAN], NEW cmd \in Command, ~Dirty(cmd, e)
    PROVE  Applied(cmd, e) = e
<1> SUFFICES ASSUME NEW k \in Key PROVE Applied(cmd, e)[k] = e[k]
  BY DEF Applied
<1>1. cmd.op # "swapdb" /\ k \notin Modified(cmd, e)
  BY DEF Dirty
<1>2. Applied(cmd, e)[k] = CASE cmd.op = "set" /\ k = cmd.at -> TRUE
                             [] cmd.op = "del" /\ k = cmd.at -> FALSE
                             [] cmd.op = "flushdb" /\ k[1] = cmd.at[1] -> FALSE
                             [] cmd.op = "swapdb" -> e[Swapped(k)]
                             [] OTHER -> e[k]
  BY DEF Applied
<1>3. /\ ~(cmd.op = "set" /\ k = cmd.at)
      /\ cmd.op = "del" /\ k = cmd.at => ~e[k]
      /\ cmd.op = "flushdb" /\ k[1] = cmd.at[1] => ~e[k]
  BY <1>1 DEF Modified
<1>4. e[k] \in BOOLEAN
  OBVIOUS
<1> QED
  BY <1>1, <1>2, <1>3, <1>4

AofType == [bracket : {"flat", "open", "torn"}, db : [Key -> BOOLEAN]]

\* call() keeps the file equal to the data set and its bracket as it was,
\* provided a dirty command of a transaction finds the bracket open.
LEMMA CallKeeps ==
    ASSUME TypeOK, NEW c, NEW cmd \in Command,
           NEW a \in AofType, NEW r \in {"flat", "open", "torn"},
           a.db = exists,
           running = None \/ a.bracket = "open" \/ ~Dirty(cmd, exists),
           Call(c, cmd, a, r)
    PROVE  /\ exists' \in [Key -> BOOLEAN]
           /\ masterhost' \in BOOLEAN
           /\ aof' \in AofType
           /\ aof'.db = exists'
           /\ aof'.bracket = a.bracket
           /\ repl' \in {"flat", "open", "torn"}
<1>1. exists \in [Key -> BOOLEAN] /\ exists' = Applied(cmd, exists)
  BY DEF Call, TypeOK
<1>2. exists' \in [Key -> BOOLEAN]
  BY <1>1, AppliedType
<1>3. masterhost' \in BOOLEAN
  BY DEF Call, TypeOK
<1>4. repl' \in {"flat", "open", "torn"}
  BY DEF Call, FedRepl, Bracket
<1>5. CASE Dirty(cmd, exists)
  <2>1. Bracket(a.bracket, "write") = a.bracket
    BY <1>5 DEF Bracket
  <2>2. FedAof(a, "write") = a
    BY <2>1 DEF FedAof, AofType
  <2>3. aof' = [a EXCEPT !.db = Applied(cmd, @)]
    BY <1>5, <2>2 DEF Call
  <2> QED
    BY <1>1, <1>2, <1>3, <1>4, <2>3 DEF AofType
<1>6. CASE ~Dirty(cmd, exists)
  <2>1. aof' = a /\ exists' = exists
    BY <1>1, <1>6, CleanKeepsData DEF Call
  <2> QED
    BY <1>2, <1>3, <1>4, <2>1
<1> QED
  BY <1>5, <1>6

\* Every step keeps the invariant, action by action.
LEMMA StepInv == MultiInv /\ [Next]_vars => MultiInv'
<1> SUFFICES ASSUME MultiInv, [Next]_vars PROVE MultiInv'
  OBVIOUS
<1>0. /\ TypeOK /\ WatchListsAgree /\ DirtyIffWritten
      /\ RefusalsMarked /\ FileFollows
  BY DEF MultiInv
<1>a. aof \in AofType
  BY <1>0 DEF TypeOK, AofType
<1>b. None \notin Clients
  BY MultiAssumption DEF MultiAssumption
<1>1. ASSUME NEW c \in Clients, NEW k \in Key, watchCommand(c, k) PROVE MultiInv'
  <2>1. /\ watched_keys' \in [Key -> SUBSET Clients]
        /\ watching' \in [Clients -> SUBSET Key]
    BY <1>0, <1>1 DEF watchCommand, TypeOK
  <2>2. TypeOK'
    BY <1>0, <1>1, <2>1 DEF watchCommand, TypeOK, data, exec
  <2>3. WatchListsAgree'
    BY <1>0, <1>1 DEF watchCommand, TypeOK, WatchListsAgree
  <2>4. DirtyIffWritten' /\ RefusalsMarked' /\ FileFollows'
    BY <1>0, <1>1 DEF watchCommand, DirtyIffWritten, RefusalsMarked, FileFollows, data, exec
  <2> QED
    BY <2>2, <2>3, <2>4 DEF MultiInv
<1>2. ASSUME NEW c \in Clients, multiCommand(c) PROVE MultiInv'
  <2>1. TypeOK'
    BY <1>0, <1>2 DEF multiCommand, TypeOK, data, exec, Flag
  <2>2. WatchListsAgree' /\ FileFollows'
    BY <1>0, <1>2 DEF multiCommand, WatchListsAgree, FileFollows, data, exec
  <2>3. DirtyIffWritten' /\ RefusalsMarked'
    BY <1>0, <1>2 DEF multiCommand, DirtyIffWritten, RefusalsMarked, TypeOK
  <2> QED
    BY <2>1, <2>2, <2>3 DEF MultiInv
<1>3. ASSUME NEW c \in Clients, discardTransaction(c),
             UNCHANGED <<data, masterhost, exec, recast>>
      PROVE  MultiInv'
  <2>1. TypeOK'
    BY <1>0, <1>3, DiscardKeeps DEF TypeOK, data, exec
  <2>2. FileFollows'
    BY <1>0, <1>3 DEF FileFollows, data, exec
  <2> QED
    BY <1>3, <2>1, <2>2, DiscardKeeps DEF MultiInv
<1>4. ASSUME NEW c \in Clients, Refuse(c) PROVE MultiInv'
  <2>1. TypeOK'
    BY <1>0, <1>4 DEF Refuse, TypeOK, data, exec, Flag
  <2>2. WatchListsAgree' /\ FileFollows'
    BY <1>0, <1>4 DEF Refuse, WatchListsAgree, FileFollows, data, exec
  <2>3. DirtyIffWritten' /\ RefusalsMarked'
    BY <1>0, <1>4 DEF Refuse, DirtyIffWritten, RefusalsMarked, TypeOK
  <2> QED
    BY <2>1, <2>2, <2>3 DEF MultiInv
<1>5. ASSUME NEW c \in Clients, NEW cmd \in Command, RefuseWrite(c, cmd) PROVE MultiInv'
  <2>1. TypeOK'
    BY <1>0, <1>5 DEF RefuseWrite, TypeOK, data, client, exec
  <2>2. WatchListsAgree' /\ FileFollows' /\ DirtyIffWritten'
    BY <1>0, <1>5 DEF RefuseWrite, WatchListsAgree, FileFollows, DirtyIffWritten,
                      data, client, exec
  <2>3. RefusalsMarked'
    BY <1>0, <1>5 DEF RefuseWrite, RefusalsMarked, TypeOK, client
  <2> QED
    BY <2>1, <2>2, <2>3 DEF MultiInv
<1>6. ASSUME NEW c \in Clients, NEW cmd \in Command, queueMultiCommand(c, cmd)
      PROVE  MultiInv'
  <2>1. commands' \in [Clients -> Seq(Command)]
    BY <1>0, <1>6 DEF queueMultiCommand, TypeOK
  <2>2. \A d \in Clients : commands'[d] # <<>> => "MULTI" \in flags'[d]
    BY <1>0, <1>6 DEF queueMultiCommand, TypeOK
  <2>3. TypeOK'
    BY <1>0, <1>6, <2>1, <2>2 DEF queueMultiCommand, TypeOK, data, exec
  <2>4. WatchListsAgree' /\ FileFollows' /\ DirtyIffWritten' /\ RefusalsMarked'
    BY <1>0, <1>6 DEF queueMultiCommand, WatchListsAgree, FileFollows,
                      DirtyIffWritten, RefusalsMarked, data, exec
  <2> QED
    BY <2>3, <2>4 DEF MultiInv
<1>7. ASSUME NEW c \in Clients \cup {None}, NEW cmd \in Command,
             c \in Clients \/ cmd.op # "unwatch", running = None,
             Call(c, cmd, aof, repl), Signal(c, cmd),
             UNCHANGED <<commands, exec, refused, recast>>
      PROVE  MultiInv'
  <2>1. /\ exists' \in [Key -> BOOLEAN]
        /\ masterhost' \in BOOLEAN
        /\ aof' \in AofType
        /\ aof'.db = exists'
        /\ aof'.bracket = aof.bracket
        /\ repl' \in {"flat", "open", "torn"}
    <3>1. repl \in {"flat", "open", "torn"} /\ aof.db = exists
      BY <1>0 DEF TypeOK, FileFollows
    <3> QED
      BY <1>0, <1>a, <1>7, <3>1, CallKeeps
  <2>2. /\ watched_keys' \in [Key -> SUBSET Clients]
        /\ watching' \in [Clients -> SUBSET Key]
        /\ flags' \in [Clients -> SUBSET Flag]
        /\ changed' \in [Clients -> BOOLEAN]
        /\ \A d \in Clients : flags[d] \ {"DIRTY_CAS"} \subseteq flags'[d]
        /\ WatchListsAgree' /\ DirtyIffWritten'
    BY <1>7, SignalKeeps
  <2>3. TypeOK'
    BY <1>0, <1>7, <2>1, <2>2 DEF TypeOK, AofType, exec
  <2>4. FileFollows' /\ RefusalsMarked'
    BY <1>0, <1>7, <2>1, <2>2 DEF FileFollows, RefusalsMarked, exec
  <2> QED
    BY <2>2, <2>3, <2>4 DEF MultiInv
<1>8. ASSUME NEW k \in Key, expireIfNeeded(k) PROVE MultiInv'
  <2> DEFINE del == [op |-> "del", at |-> k]
  <2>0. del \in Command
    BY DEF Command
  <2>1. /\ exists' \in [Key -> BOOLEAN]
        /\ masterhost' \in BOOLEAN
        /\ aof' \in AofType
        /\ aof'.db = exists'
        /\ aof'.bracket = aof.bracket
        /\ repl' \in {"flat", "open", "torn"}
    <3>1. repl \in {"flat", "open", "torn"} /\ aof.db = exists /\ running = None
      BY <1>0, <1>8 DEF TypeOK, FileFollows, expireIfNeeded
    <3>2. Call(None, del, aof, repl)
      BY <1>8 DEF expireIfNeeded
    <3> HIDE DEF del
    <3> QED
      BY <1>0, <1>a, <2>0, <3>1, <3>2, CallKeeps
  <2>2. UNCHANGED <<client, exec, changed, refused, recast>>
    BY <1>8 DEF expireIfNeeded
  <2>3. TypeOK'
    BY <1>0, <2>1, <2>2 DEF TypeOK, AofType, client, exec
  <2>4. WatchListsAgree' /\ FileFollows' /\ DirtyIffWritten' /\ RefusalsMarked'
    BY <1>0, <2>1, <2>2 DEF WatchListsAgree, FileFollows, DirtyIffWritten,
                            RefusalsMarked, client, exec
  <2> QED
    BY <2>3, <2>4 DEF MultiInv
<1>9. ASSUME NEW c \in Clients, ExecStart(c) PROVE MultiInv'
  <2>1. unwatchAllKeys(c) /\ "DIRTY_CAS" \notin flags[c]
    BY <1>9 DEF ExecStart, AbortFlags
  <2>2. /\ watched_keys' \in [Key -> SUBSET Clients]
        /\ watching' \in [Clients -> SUBSET Key]
        /\ WatchListsAgree'
    BY <1>0, <2>1, UnwatchKeeps
  <2>3. TypeOK'
    BY <1>0, <1>9, <2>2 DEF ExecStart, TypeOK, data
  <2>4. DirtyIffWritten'
    BY <1>0, <1>9, <2>1 DEF ExecStart, DirtyIffWritten, TypeOK
  <2>5. RefusalsMarked' /\ FileFollows'
    BY <1>0, <1>9 DEF ExecStart, RefusalsMarked, FileFollows, data
  <2> QED
    BY <2>2, <2>3, <2>4, <2>5 DEF MultiInv
<1>10. ASSUME NEW c \in Clients, ExecNext(c) PROVE MultiInv'
  <2> DEFINE cmd == Head(commands[c])
             opens == ~must_propagate /\ ~CMD_READONLY(cmd) /\ ~CMD_ADMIN(cmd)
             a == IF opens THEN FedAof(aof, "MULTI") ELSE aof
             r == IF opens THEN FedRepl(repl, "MULTI", masterhost) ELSE repl
  <2>1. commands[c] \in Seq(Command) /\ commands[c] # <<>>
    BY <1>0, <1>10 DEF ExecNext, TypeOK
  <2>2. cmd \in Command /\ Tail(commands[c]) \in Seq(Command)
    BY <2>1
  <2>3. /\ running = c
        /\ Call(c, cmd, a, r)
        /\ Signal(c, cmd)
        /\ commands' = [commands EXCEPT ![c] = Tail(@)]
        /\ must_propagate' = (must_propagate \/ opens)
        /\ recast' = (recast \/ masterhost' # masterhost)
        /\ UNCHANGED <<running, was_master, refused>>
    BY <1>10 DEF ExecNext
  <2>4. r \in {"flat", "open", "torn"}
    BY <1>0 DEF FedRepl, Bracket, TypeOK
  <2>5. /\ a \in AofType
        /\ a.db = exists
        /\ a.bracket = IF must_propagate \/ opens THEN "open" ELSE "flat"
    <3>1. CASE opens
      <4>1. aof.bracket = "flat" /\ aof.db = exists
        BY <1>0, <3>1 DEF FileFollows
      <4>2. Bracket(aof.bracket, "MULTI") = "open"
        BY <4>1 DEF Bracket
      <4>3. a = [aof EXCEPT !.bracket = "open"]
        BY <3>1, <4>2 DEF FedAof
      <4> QED
        BY <1>a, <3>1, <4>1, <4>3 DEF AofType
    <3>2. CASE ~opens
      BY <1>0, <1>a, <3>2 DEF FileFollows
    <3> QED
      BY <3>1, <3>2
  <2>6. a.bracket = "open" \/ ~Dirty(cmd, exists)
    <3>1. CASE must_propagate \/ opens
      BY <2>5, <3>1
    <3>2. CASE ~must_propagate /\ ~opens
      <4>1. cmd.op \in {"get", "replicaof", "noone"}
        BY <3>2 DEF CMD_READONLY, CMD_ADMIN
      <4> QED
        BY <4>1 DEF Dirty, Modified
    <3> QED
      BY <3>1, <3>2
  <2> HIDE DEF cmd, opens, a, r
  <2>7. /\ exists' \in [Key -> BOOLEAN]
        /\ masterhost' \in BOOLEAN
        /\ aof' \in AofType
        /\ aof'.db = exists'
        /\ aof'.bracket = a.bracket
        /\ repl' \in {"flat", "open", "torn"}
    BY <1>0, <2>2, <2>3, <2>4, <2>5, <2>6, CallKeeps
  <2>8. /\ watched_keys' \in [Key -> SUBSET Clients]
        /\ watching' \in [Clients -> SUBSET Key]
        /\ flags' \in [Clients -> SUBSET Flag]
        /\ changed' \in [Clients -> BOOLEAN]
        /\ \A d \in Clients : flags[d] \ {"DIRTY_CAS"} \subseteq flags'[d]
        /\ WatchListsAgree' /\ DirtyIffWritten'
    BY <2>2, <2>3, SignalKeeps
  <2>9. /\ commands' \in [Clients -> Seq(Command)]
        /\ \A d \in Clients : commands'[d] # <<>> => commands[d] # <<>>
    BY <1>0, <2>1, <2>2, <2>3 DEF TypeOK
  <2>10. \A d \in Clients : commands'[d] # <<>> => "MULTI" \in flags'[d]
    BY <1>0, <2>8, <2>9 DEF TypeOK
  <2>11. must_propagate' \in BOOLEAN /\ recast' \in BOOLEAN
    BY <1>0, <2>3 DEF TypeOK
  <2>12. TypeOK'
    BY <1>0, <2>3, <2>7, <2>8, <2>9, <2>10, <2>11 DEF TypeOK, AofType
  <2>13. RefusalsMarked'
    BY <1>0, <2>3, <2>8 DEF RefusalsMarked
  <2>14. FileFollows'
    BY <1>b, <2>3, <2>5, <2>7 DEF FileFollows
  <2> QED
    BY <2>8, <2>12, <2>13, <2>14 DEF MultiInv
<1>11. ASSUME NEW c \in Clients, ExecEnd(c) PROVE MultiInv'
  <2>1. /\ discardTransaction(c)
        /\ running' = None
        /\ must_propagate' = FALSE
        /\ was_master' = TRUE
        /\ aof' = IF must_propagate THEN FedAof(aof, "EXEC") ELSE aof
        /\ UNCHANGED <<exists, masterhost, recast>>
    BY <1>11 DEF ExecEnd
  <2>2. repl' \in {"flat", "open", "torn"}
    BY <1>0, <1>11 DEF ExecEnd, FedRepl, BacklogEnd, Bracket, TypeOK
  <2>3. aof' \in AofType /\ aof'.db = exists /\ aof'.bracket = "flat"
    <3>1. CASE must_propagate
      <4>1. aof.bracket = "open" /\ aof.db = exists
        BY <1>0, <3>1 DEF FileFollows
      <4>2. Bracket(aof.bracket, "EXEC") = "flat"
        BY <4>1 DEF Bracket
      <4>3. aof' = [aof EXCEPT !.bracket = "flat"]
        BY <2>1, <3>1, <4>2 DEF FedAof
      <4> QED
        BY <1>a, <4>1, <4>3 DEF AofType
    <3>2. CASE ~must_propagate
      BY <1>0, <1>a, <2>1, <3>2 DEF FileFollows
    <3> QED
      BY <1>0, <3>1, <3>2 DEF TypeOK
  <2>4. TypeOK'
    BY <1>0, <2>1, <2>2, <2>3, DiscardKeeps DEF TypeOK, AofType
  <2>5. FileFollows'
    BY <2>1, <2>3 DEF FileFollows
  <2> QED
    BY <2>1, <2>4, <2>5, DiscardKeeps DEF MultiInv
<1>12. CASE UNCHANGED vars
  BY <1>0, <1>12 DEF vars, MultiInv, TypeOK, WatchListsAgree, DirtyIffWritten,
                     RefusalsMarked, FileFollows
<1>13. ASSUME NEW c \in Clients, discardCommand(c) \/ freeClient(c) \/ ExecAbort(c)
       PROVE  MultiInv'
  BY <1>3, <1>13 DEF discardCommand, freeClient, ExecAbort
<1>14. ASSUME NEW c \in Clients, NEW cmd \in Command, Execute(c, cmd) PROVE MultiInv'
  BY <1>7, <1>14 DEF Execute
<1>15. ASSUME NEW cmd \in Command, MasterWrite(cmd) PROVE MultiInv'
  <2>1. cmd.op # "unwatch"
    BY <1>15 DEF MasterWrite, CMD_WRITE
  <2> QED
    BY <1>7, <1>15, <2>1 DEF MasterWrite
<1> QED
  BY <1>1, <1>2, <1>4, <1>5, <1>6, <1>8, <1>9, <1>10, <1>11, <1>12, <1>13,
     <1>14, <1>15 DEF Next

\* Between two commands the append only file replays to the data set, the watch
\* lists agree and a client is dirty exactly when a watched key was written,
\* for any number of clients, keys and queued commands.
THEOREM MultiCorrect == Spec => [](WatchListsAgree /\ DirtyIffWritten /\ AofReplays)
<1>1. MultiInv => WatchListsAgree /\ DirtyIffWritten /\ AofReplays
  <2> SUFFICES ASSUME MultiInv, running = None
               PROVE  aof = [bracket |-> "flat", db |-> exists]
    BY DEF MultiInv, AofReplays
  <2>1. aof \in AofType /\ aof.db = exists /\ aof.bracket = "flat"
    BY DEF MultiInv, FileFollows, TypeOK, AofType
  <2> QED
    BY <2>1 DEF AofType
<1> QED
  BY <1>1, InitInv, StepInv, PTL DEF Spec

\* EXEC runs a queue only when no command changed a key watched since WATCH
\* and no refused command was flagged.
THEOREM ExecCleanCorrect == Spec => ExecIsClean
<1>1. MultiInv /\ [Next]_vars =>
        [\A c \in Clients : running = None /\ running' = c =>
            ~changed[c] /\ refused[c] \subseteq {"read-only"}]_vars
  <2> SUFFICES ASSUME MultiInv, Next, NEW c \in Clients, running = None, running' = c
               PROVE  ~changed[c] /\ refused[c] \subseteq {"read-only"}
    OBVIOUS
  <2>0. None \notin Clients
    BY MultiAssumption DEF MultiAssumption
  <2>1. ExecStart(c)
    <3>1. running' # running /\ running' # None
      BY <2>0
    <3>2. \E d \in Clients : ExecStart(d)
      BY <3>1 DEF Next, watchCommand, multiCommand, discardCommand, freeClient, Refuse,
            RefuseWrite, queueMultiCommand, Execute, MasterWrite, expireIfNeeded,
            ExecAbort, ExecNext, ExecEnd, exec
    <3> QED
      BY <3>2 DEF ExecStart
  <2>2. "DIRTY_CAS" \notin flags[c] /\ "DIRTY_EXEC" \notin flags[c]
    BY <2>1 DEF ExecStart, AbortFlags
  <2>3. ~changed[c]
    BY <2>2 DEF MultiInv, DirtyIffWritten
  <2>4. "flagged" \notin refused[c]
    BY <2>2 DEF MultiInv, RefusalsMarked
  <2>5. refused[c] \subseteq {"flagged", "read-only"}
    BY DEF MultiInv, TypeOK
  <2> QED
    BY <2>3, <2>4, <2>5
<1> QED
  BY <1>1, InitInv, StepInv, PTL DEF Spec, ExecIsClean
=============================================================================
