------------------------------ MODULE RedisDict ------------------------------
(* The hash table of redis (dict.c): chained buckets, a second table while *)
(* the entries move to it bucket by bucket, safe iterators, and the        *)
(* stateless scan behind the SCAN family of commands.                      *)
(*                                                                         *)
(* A dictionary is a record d: ht[0] and ht[1] are the tables, each with   *)
(* its size, its entry counter used and its buckets.  A chain is the set   *)
(* of its keys, its order being irrelevant to the properties.  Operations  *)
(* of dict.c are operators from a dictionary to a dictionary, so that an   *)
(* action is the whole call with the rehash step it performs first.        *)
EXTENDS Integers, FiniteSets

CONSTANTS
    Keys,
    None,             \* NULL, not a key
    Hash,             \* dictHashKey
    Bits,             \* width of unsigned long
    InitialSize,      \* DICT_HT_INITIAL_SIZE
    ForceRatio,       \* dict_force_resize_ratio
    MinFill,          \* HASHTABLE_MIN_FILL, a percentage
    VisitsPerStep,    \* empty buckets a rehash step may skip (10)
    CronBuckets,      \* buckets of one call by the cron (100)
    ExpandSizes       \* sizes callers pass to dictExpand

Powers == {InitialSize * 2^i : i \in 0..Bits}

ASSUME DictAssumption ==
    /\ None \notin Keys /\ IsFiniteSet(Keys)
    /\ Bits \in Nat /\ InitialSize \in Nat \ {0} /\ Hash \in [Keys -> 0..(2^Bits - 1)]
    /\ ForceRatio \in Nat /\ MinFill \in Nat
    /\ VisitsPerStep \in Nat \ {0} /\ CronBuckets \in Nat \ {0}
    /\ ExpandSizes \subseteq Nat

VARIABLES
    d,                \* the dictionary
    dict_can_resize,  \* FALSE while a child process saves the data set
    iter,             \* the safe iterator of the running command
    cursor,           \* the cursor of a scan; 0 before and after one
    owed,             \* history: keys a traversal still has to return
    paid              \* history: keys the iterator returned, still present

vars == <<d, dict_can_resize, iter, cursor, owed, paid>>

-----------------------------------------------------------------------------
(* Tables                                                                  *)

NewTable(n) == [size |-> n, used |-> 0, table |-> [i \in 0..(n - 1) |-> {}]]

\* dictReset
NoTable == NewTable(0)

NewDict == [ht |-> [t \in 0..1 |-> NoTable], rehashidx |-> -1, iterators |-> 0]

dictIsRehashing(e) == e.rehashidx # -1

dictSize(e) == e.ht[0].used + e.ht[1].used

dictSlots(e) == e.ht[0].size + e.ht[1].size

EntriesOf(h) == UNION {h.table[i] : i \in 0..(h.size - 1)}

Contents(e) == EntriesOf(e.ht[0]) \cup EntriesOf(e.ht[1])

\* h & sizemask, the size being a power of two
IndexIn(h, k) == Hash[k] % h.size

HeldIn(h, k) == h.size # 0 /\ k \in h.table[IndexIn(h, k)]

Linked(h, S) ==
    [h EXCEPT !.used = @ + Cardinality(S),
              !.table = [i \in 0..(h.size - 1) |->
                            h.table[i] \cup {k \in S : IndexIn(h, k) = i}]]

Unlinked(h, k) ==
    [h EXCEPT !.used = @ - 1, !.table[IndexIn(h, k)] = @ \ {k}]

-----------------------------------------------------------------------------
(* Resizing                                                                *)

\* dictNextPower, below the limit LONG_MAX
dictNextPower(n) == CHOOSE p \in Powers : p >= n /\ \A q \in Powers : q >= n => p <= q

ExpandFails(e, n) ==
    \/ dictIsRehashing(e)
    \/ e.ht[0].used > n
    \/ dictNextPower(n) = e.ht[0].size

dictExpand(e, n) ==
    IF ExpandFails(e, n) THEN e
    ELSE IF e.ht[0].size = 0
         THEN [e EXCEPT !.ht[0] = NewTable(dictNextPower(n))]
         ELSE [e EXCEPT !.ht[1] = NewTable(dictNextPower(n)), !.rehashidx = 0]

dictResize(e, can) ==
    IF ~can \/ dictIsRehashing(e) THEN e
    ELSE dictExpand(e, IF e.ht[0].used < InitialSize THEN InitialSize ELSE e.ht[0].used)

htNeedsResize(e) ==
    /\ dictSlots(e) > InitialSize
    /\ (dictSize(e) * 100) \div dictSlots(e) < MinFill

\* the size dictExpandIfNeeded asks dictExpand for, 0 for none
GrowTo(e, can) ==
    CASE dictIsRehashing(e) -> 0
      [] e.ht[0].size = 0 -> InitialSize
      [] OTHER -> IF /\ e.ht[0].used >= e.ht[0].size
                     /\ can \/ e.ht[0].used \div e.ht[0].size > ForceRatio
                  THEN e.ht[0].used * 2
                  ELSE 0

dictExpandIfNeeded(e, can) ==
    IF GrowTo(e, can) = 0 THEN e ELSE dictExpand(e, GrowTo(e, can))

ExpandIfNeededFails(e, can) ==
    GrowTo(e, can) # 0 /\ ExpandFails(e, GrowTo(e, can))

-----------------------------------------------------------------------------
(* Incremental rehashing                                                   *)

Walked(e, j) == e.rehashidx..(j - 1)

Occupied(e, j) == {i \in Walked(e, j) : e.ht[0].table[i] # {}}

Moved(e, j) == UNION {e.ht[0].table[i] : i \in Walked(e, j)}

\* Where the loop of dictRehash(d, n) stops: behind the n-th chain it moved,
\* when it skipped n * VisitsPerStep empty buckets, or with ht[0] empty.
StopsAt(e, n, j) ==
    \/ Cardinality(Occupied(e, j)) = n
    \/ Cardinality(Walked(e, j) \ Occupied(e, j)) = n * VisitsPerStep
    \/ Cardinality(Moved(e, j)) = e.ht[0].used

RehashStop(e, n) ==
    CHOOSE j \in e.rehashidx..e.ht[0].size :
        /\ StopsAt(e, n, j)
        /\ \A i \in e.rehashidx..(j - 1) : ~StopsAt(e, n, i)

\* Mutant: the end of the rehash is taken from the size.
AllMovedBySize(h) == h.size = 0

\* a finished table is dropped and ht[1] takes its place
AllMoved(h) == h.used = 0

dictRehash(e, n) ==
    IF ~dictIsRehashing(e) THEN e
    ELSE LET j == RehashStop(e, n)
             old == [e.ht[0] EXCEPT !.used = @ - Cardinality(Moved(e, j)),
                                    !.table = [i \in 0..(e.ht[0].size - 1) |->
                                        IF i \in Walked(e, j) THEN {} ELSE e.ht[0].table[i]]]
             new == Linked(e.ht[1], Moved(e, j))
         IN  IF AllMoved(old)
             THEN [e EXCEPT !.ht = [t \in 0..1 |-> IF t = 0 THEN new ELSE NoTable],
                            !.rehashidx = -1]
             ELSE [e EXCEPT !.ht = [t \in 0..1 |-> IF t = 0 THEN old ELSE new],
                            !.rehashidx = j]

\* Mutant: a step is performed under open iterators.
dictRehashStepAlways(e) == dictRehash(e, 1)

dictRehashStep(e) == IF e.iterators = 0 THEN dictRehash(e, 1) ELSE e

-----------------------------------------------------------------------------
(* Lookup, insertion and removal                                           *)

\* Mutant: only the first table is searched.
SearchedFirst(e) == {0}

Searched(e) == IF dictIsRehashing(e) THEN {0, 1} ELSE {0}

Found(e, k) == dictSize(e) # 0 /\ \E t \in Searched(e) : HeldIn(e.ht[t], k)

dictFind(e) == IF dictSize(e) = 0 THEN e ELSE dictRehashStep(e)

\* Mutant: insertions go to the old table.
InsertTableOld(e) == 0

\* dictAddRaw: insertion into ht[1] while rehashing, so that ht[0] only shrinks
InsertTable(e) == IF dictIsRehashing(e) THEN 1 ELSE 0

dictAddRaw(e, k, can) ==
    LET stepped == dictRehashStep(e)
        grown == dictExpandIfNeeded(stepped, can)
    IN  IF ExpandIfNeededFails(stepped, can) \/ Found(grown, k) THEN grown
        ELSE [grown EXCEPT !.ht[InsertTable(grown)] = Linked(@, {k})]

dictGenericDelete(e, k) ==
    LET stepped == dictRehashStep(e)
        t == IF HeldIn(stepped.ht[0], k) THEN 0 ELSE 1
    IN  IF dictSize(e) = 0 THEN e
        ELSE IF ~Found(stepped, k) THEN stepped
        ELSE [stepped EXCEPT !.ht[t] = Unlinked(@, k)]

\* setTypeRemove, hashTypeDelete, zsetDel: shrink right after a removal
ResizeAfterDelete(e, can) == IF htNeedsResize(e) THEN dictResize(e, can) ELSE e

\* Mutant: the bucket at rehashidx is skipped as well.
RandomIndexesBehind(e) ==
    IF dictIsRehashing(e) THEN (e.rehashidx + 1)..(dictSlots(e) - 1) ELSE 0..(e.ht[0].size - 1)

\* dictGetRandomKey: h >= ht[0].size is a bucket of ht[1]
RandomIndexes(e) ==
    IF dictIsRehashing(e) THEN e.rehashidx..(dictSlots(e) - 1) ELSE 0..(e.ht[0].size - 1)

RandomKeys(e) ==
    UNION {IF h >= e.ht[0].size THEN e.ht[1].table[h - e.ht[0].size] ELSE e.ht[0].table[h] :
              h \in RandomIndexes(e)}

-----------------------------------------------------------------------------
(* The scan                                                                *)

Words == 0..(2^Bits - 1)

BitOf(v, i) == (v \div 2^i) % 2

rev == [v \in Words |->
           CHOOSE u \in Words : \A i \in 0..(Bits - 1) : BitOf(u, i) = BitOf(v, Bits - 1 - i)]

\* Mutant: the cursor counts up from the low bits.
AdvanceForward(v, n) == (v + 1) % n

\* v |= ~m; v = rev(v); v++; v = rev(v), with m the mask of a table of size n
Advance(v, n) == rev[(rev[(v % n) + (2^Bits - n)] + 1) % 2^Bits]

Smaller(e) == IF e.ht[0].size > e.ht[1].size THEN e.ht[1] ELSE e.ht[0]
Larger(e) == IF e.ht[0].size > e.ht[1].size THEN e.ht[0] ELSE e.ht[1]

\* The cursors at which dictScan visits the larger table, and the one behind
\* them: the loop ends when no bit of m0 ^ m1 is set.
Expansion(e, v) ==
    LET n == Larger(e).size
        walk[i \in 0..n] == IF i = 0 THEN v ELSE Advance(walk[i - 1], n)
        Ends(i) == (walk[i] % n) \div Smaller(e).size = 0
        last == CHOOSE i \in 1..n : Ends(i) /\ \A j \in 1..(i - 1) : ~Ends(j)
    IN  [visited |-> {walk[i] % n : i \in 0..(last - 1)}, next |-> walk[last]]

\* What one dictScan call returns: the keys it emits and the next cursor.
dictScan(e, v) ==
    CASE dictSize(e) = 0 -> [emitted |-> {}, next |-> 0]
      [] dictIsRehashing(e) ->
            [emitted |-> Smaller(e).table[v % Smaller(e).size]
                            \cup UNION {Larger(e).table[i] : i \in Expansion(e, v).visited},
             next |-> Expansion(e, v).next]
      [] OTHER -> [emitted |-> e.ht[0].table[v % e.ht[0].size],
                   next |-> Advance(v, e.ht[0].size)]

-----------------------------------------------------------------------------
(* The safe iterator                                                       *)

NoIterator == [open |-> FALSE, table |-> 0, index |-> -1, entry |-> None, rest |-> {}]

Unstarted(it) == it.index = -1 /\ it.table = 0

\* The bucket dictNext goes to when the chain at hand is exhausted: the next
\* non-empty one of this table, then of ht[1] while rehashing, or the end.
BucketsFrom(h, i) == {j \in i..(h.size - 1) : h.table[j] # {}}

First(S) == CHOOSE i \in S : \A j \in S : i <= j

NextBucket(e, it) ==
    LET here == BucketsFrom(e.ht[it.table], it.index + 1)
        there == BucketsFrom(e.ht[1], 0)
        both == dictIsRehashing(e) /\ it.table = 0
    IN  CASE here # {} -> <<it.table, First(here)>>
          [] here = {} /\ both /\ there # {} -> <<1, First(there)>>
          [] OTHER -> IF both THEN <<1, e.ht[1].size>> ELSE <<it.table, e.ht[it.table].size>>

\* dictNext returned NULL
Ended(it) == it.open /\ ~Unstarted(it) /\ it.entry = None

-----------------------------------------------------------------------------
(* Actions.  A command runs to completion: cron work, forks and the scans  *)
(* of other clients happen only while no iterator is open.                 *)

Idle == ~iter.open

\* A traversal no longer owes a key that was removed.
Forget(S) == owed' = owed \ S /\ paid' = paid \ S

Keep == UNCHANGED <<owed, paid>>

Init ==
    /\ d = NewDict
    /\ dict_can_resize = TRUE
    /\ iter = NoIterator
    /\ cursor = 0
    /\ owed = {} /\ paid = {}

Add(k) ==
    /\ d' = dictAddRaw(d, k, dict_can_resize)
    /\ Keep
    /\ UNCHANGED <<dict_can_resize, iter, cursor>>

\* While iterating, the user may delete the entry dictNext returned.
MayDelete(k) == iter.open => k = iter.entry

Delete(k) ==
    /\ MayDelete(k)
    /\ d' = dictGenericDelete(d, k)
    /\ Forget({k})
    /\ UNCHANGED <<dict_can_resize, iter, cursor>>

DeleteAndResize(k) ==
    /\ MayDelete(k)
    /\ Found(d, k)
    /\ d' = ResizeAfterDelete(dictGenericDelete(d, k), dict_can_resize)
    /\ Forget({k})
    /\ UNCHANGED <<dict_can_resize, iter, cursor>>

Find ==
    /\ d' = dictFind(d)
    /\ Keep
    /\ UNCHANGED <<dict_can_resize, iter, cursor>>

\* the loop over empty buckets ends because some bucket in reach is not empty
dictGetRandomKey ==
    /\ dictSize(d) # 0
    /\ d' = dictRehashStep(d)
    /\ RandomKeys(d') # {}
    /\ Keep
    /\ UNCHANGED <<dict_can_resize, iter, cursor>>

Expand(n) ==
    /\ Idle
    /\ d' = dictExpand(d, n)
    /\ Keep
    /\ UNCHANGED <<dict_can_resize, iter, cursor>>

dictEmpty ==
    /\ Idle
    /\ d' = NewDict
    /\ Forget(Keys)
    /\ UNCHANGED <<dict_can_resize, iter, cursor>>

\* databasesCron: no resizing and no rehashing beside a child process.
\* dictRehashMilliseconds stops behind any call, one or two of them here.
Cron ==
    /\ Idle /\ dict_can_resize
    /\ LET e == IF htNeedsResize(d) THEN dictResize(d, TRUE) ELSE d
            once == dictRehash(e, CronBuckets)
       IN  d' = once \/ d' = dictRehash(once, CronBuckets)
    /\ Keep
    /\ UNCHANGED <<dict_can_resize, iter, cursor>>

\* updateDictResizePolicy, when a child is forked and when it is reaped
updateDictResizePolicy ==
    /\ Idle
    /\ dict_can_resize' = ~dict_can_resize
    /\ Keep
    /\ UNCHANGED <<d, iter, cursor>>

Scan ==
    /\ Idle
    /\ LET r == dictScan(d, cursor)
       IN  /\ cursor' = r.next
           /\ owed' = (IF cursor = 0 THEN Contents(d) ELSE owed) \ r.emitted
    /\ UNCHANGED <<d, dict_can_resize, iter, paid>>

dictGetSafeIterator ==
    /\ Idle /\ cursor = 0
    /\ iter' = [NoIterator EXCEPT !.open = TRUE]
    /\ Keep
    /\ UNCHANGED <<d, dict_can_resize, cursor>>

Returned(k, t, i, rest) ==
    /\ iter' = [iter EXCEPT !.table = t, !.index = i, !.entry = k, !.rest = rest]
    /\ owed' = (IF Unstarted(iter) THEN Contents(d) ELSE owed) \ {k}
    /\ paid' = IF k = None THEN paid
               ELSE paid \cup ({k} \cap (IF Unstarted(iter) THEN Contents(d) ELSE owed))

dictNext ==
    /\ iter.open /\ ~Ended(iter)
    /\ d' = IF Unstarted(iter) THEN [d EXCEPT !.iterators = @ + 1] ELSE d
    /\ \/ \E k \in iter.rest : Returned(k, iter.table, iter.index, iter.rest \ {k})
       \/ /\ iter.rest = {}
          /\ LET t == NextBucket(d, iter)[1]
                 i == NextBucket(d, iter)[2]
             IN  IF i = d.ht[t].size
                 THEN Returned(None, t, i, {})
                 ELSE \E k \in d.ht[t].table[i] : Returned(k, t, i, d.ht[t].table[i] \ {k})
    /\ UNCHANGED <<dict_can_resize, cursor>>

dictReleaseIterator ==
    /\ iter.open
    /\ d' = IF Unstarted(iter) THEN d ELSE [d EXCEPT !.iterators = @ - 1]
    /\ iter' = NoIterator
    /\ owed' = {} /\ paid' = {}
    /\ UNCHANGED <<dict_can_resize, cursor>>

Next ==
    \/ \E k \in Keys : Add(k) \/ Delete(k) \/ DeleteAndResize(k)
    \/ \E n \in ExpandSizes : Expand(n)
    \/ Find \/ dictGetRandomKey \/ dictEmpty \/ Cron \/ updateDictResizePolicy
    \/ Scan \/ dictGetSafeIterator \/ dictNext \/ dictReleaseIterator

Spec == Init /\ [][Next]_vars

-----------------------------------------------------------------------------
(* Properties                                                              *)

TableType(h) ==
    /\ h.size \in {0} \cup Powers /\ h.used \in Nat
    /\ h.table \in [0..(h.size - 1) -> SUBSET Keys]

\* The dictionary, the iterator and the cursor hold values of their types: no
\* counter goes below zero and rehashidx stays inside ht[0].
TypeOK ==
    /\ TableType(d.ht[0]) /\ TableType(d.ht[1])
    /\ d.rehashidx \in -1..d.ht[0].size /\ d.iterators \in Nat
    /\ dict_can_resize \in BOOLEAN
    /\ iter.open \in BOOLEAN /\ iter.table \in 0..1 /\ iter.index \in Int
    /\ iter.entry \in Keys \cup {None} /\ iter.rest \subseteq Keys
    /\ cursor \in Words /\ owed \subseteq Keys /\ paid \subseteq Keys

\* The tables are consistent after any mixture of operations: every key hangs
\* in the bucket of its hash, in one table only; the counters are exact; and
\* ht[0] has no entries below rehashidx, which dictRehash's walk, dictGetRandomKey
\* and dictGetSomeKeys rely on to stay inside the table.
TablesConsistent ==
    /\ TypeOK
    /\ \A t \in 0..1 : \A i \in 0..(d.ht[t].size - 1) :
          \A k \in d.ht[t].table[i] : IndexIn(d.ht[t], k) = i
    /\ EntriesOf(d.ht[0]) \cap EntriesOf(d.ht[1]) = {}
    /\ \A t \in 0..1 : d.ht[t].used = Cardinality(EntriesOf(d.ht[t]))
    /\ dictIsRehashing(d) => /\ d.ht[0].size # 0 /\ d.ht[1].size # 0
                             /\ \A i \in 0..(d.rehashidx - 1) : d.ht[0].table[i] = {}
    /\ ~dictIsRehashing(d) => d.ht[1] = NoTable

Abstract == INSTANCE KeySet WITH keys <- {k \in Keys : Found(d, k)}

\* What dictFind answers behaves like a plain set of keys: growing, shrinking
\* and half-finished rehashing never lose, resurrect or invent a key.
ImplementsKeySet == Abstract!Spec

\* Whatever state the tables are in, an insertion (dictAddRaw) makes its key
\* found and a removal (dictGenericDelete) makes it not found, in whichever
\* table it has to go to or come from and with the rehash step that is due.
OperationsTakeEffect ==
    \A k \in Keys : /\ Found(dictAddRaw(d, k, dict_can_resize), k)
                    /\ ~Found(dictGenericDelete(d, k), k)

\* dictGetRandomKey skips the buckets below rehashidx; every key is still
\* within its reach, and without keys outside it.
RandomReachesAll == RandomKeys(d) = Contents(d)

\* dictScan's guarantee (comment above dictScan): the calls between cursor 0
\* and the next cursor 0 return every element present from start to end,
\* however often the table is grown, shrunk or rehashed in between.
ScanReturnsAll == cursor = 0 /\ Idle => owed = {}

\* A safe iterator returns each key that stays in the dictionary, and none of
\* them twice, although the user adds keys, deletes returned ones and starts a
\* resize meanwhile.
IterationIsExact ==
    /\ [](Ended(iter) => owed = {})
    /\ [][iter'.open /\ iter' # iter => iter'.entry \notin paid]_vars

\* Rehashing gets somewhere: a step leaves the rehash finished or further on,
\* for the single step of an operation and for the cron's share, so the cron
\* alone ends it within size calls.  And nothing undoes it: as long as a rehash
\* lasts, no operation puts an entry into ht[0] or moves rehashidx back.
RehashProgresses ==
    /\ [](dictIsRehashing(d) =>
            \A n \in {1, CronBuckets} :
                LET e == dictRehash(d, n)
                IN  ~dictIsRehashing(e) \/ e.rehashidx > d.rehashidx)
    /\ [][dictIsRehashing(d) /\ dictIsRehashing(d') /\ d'.ht[0].size = d.ht[0].size =>
             /\ EntriesOf(d'.ht[0]) \subseteq EntriesOf(d.ht[0])
             /\ d'.rehashidx >= d.rehashidx]_vars

=============================================================================
