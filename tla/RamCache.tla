------------------------------- MODULE RamCache -------------------------------
(***************************************************************************)
(* The in-memory cache of ram_ht.c: a hash table whose chains link items   *)
(* built from fixed blocks, an LRU list of the items, a free list of the   *)
(* blocks and an evictor that any thread short of blocks turns into.       *)
(*                                                                         *)
(* A thread in cache_ht_get or cache_ht_set owns its bucket's entry lock;  *)
(* it walks the chain under the bucket's barrier, which the evictor needs  *)
(* to unlink an item of that bucket.  An item is used under its own lock:  *)
(* a writer or the evictor holds it alone, readers share it and the last   *)
(* of them drops it.  The LRU list and the free list are changed under     *)
(* their own locks in sections that call nothing, one action each.         *)
(*                                                                         *)
(* Abstractions.  A key stands for its bytes, a value for the number of    *)
(* fragments it spills into.  The LRU list and the free list are           *)
(* sequences.  Chain pointers, item locks and the word that a free block   *)
(* or a fragment uses for its size and an item for its state lock are      *)
(* kept as they are: threads that hold a stale pointer read them.  A       *)
(* fragment's payload is taken never to look like the hash of a key.       *)
(***************************************************************************)
EXTENDS Integers, FiniteSets, Sequences, SequencesExt

CONSTANTS Threads,     \* lcores that call the cache
          Keys, Hash,  \* Hash[k] is the hv the caller passes for key k
          NumBuckets,  \* ht_entry_num
          NumBlocks,   \* num_entries
          EvictPoint,  \* EVICT_POINT
          MinEvict,    \* blocks evict frees: MIN_EVICT / LOG_BLOCK_SIZE + 1
          FragBytes,   \* what a fragment in use has in its size field
          Writes,      \* pairs of a version and the fragments its value needs
          MaxCalls,    \* bound: calls started in a behaviour
          Nobody, NoKey

ASSUME BlocksAssumption ==
    /\ NumBlocks \in Nat \ {0} /\ NumBuckets \in Nat \ {0}
    /\ EvictPoint \in Nat /\ MinEvict \in Nat \ {0} /\ FragBytes \in Nat \ {0}
    /\ Writes \subseteq Nat \X Nat /\ MaxCalls \in Nat
ASSUME ThreadsAssumption ==
    /\ IsFiniteSet(Threads) /\ Cardinality(Threads) <= 255
    /\ Nobody \notin Threads
ASSUME KeysAssumption == Hash \in [Keys -> Nat \ {0}] /\ NoKey \notin Keys

Blocks == 1 .. NumBlocks
NULL == 0
Buckets == 0 .. NumBuckets - 1
Bucket(hv) == hv % NumBuckets

VARIABLES
    entryLock, barrier, valid, chain,   \* struct ht_entry of each bucket
    block,                              \* the header in each block
    lru,                                \* the LRU list, head first
    free, num_free_blocks,              \* the free list and its count, a
                                        \* size_t: below zero it has wrapped
    evict_lock,
    th,            \* the call each thread is in, and where
    calls,         \* calls started
    leaked,        \* items whose lock a set has left behind
    harm           \* history: which use of an evicted block has happened

table == <<entryLock, barrier, valid, chain>>
lists == <<lru, free, num_free_blocks, evict_lock>>
vars == <<table, block, lists, th, calls, leaked, harm>>

Header == [hv : Nat, key : Keys \cup {NoKey}, next : 0 .. NumBlocks,
           prev : 0 .. NumBlocks, lock : BOOLEAN, slock : Nat,
           state : {"-", "r", "w"}, readers : 0 .. 255, size : Nat,
           ver : Nat, frags : Seq(Blocks)]

\* memset(it, 0, sizeof(struct cache_item))
Zero == [hv |-> 0, key |-> NoKey, next |-> NULL, prev |-> NULL,
         lock |-> FALSE, slock |-> 0, state |-> "-", readers |-> 0,
         size |-> 0, ver |-> 0, frags |-> << >>]

\* Where a thread may be.
Label == {"idle", "enter", "head", "barrier", "walk", "state", "choose", "own",
          "pass", "leave", "copy", "room", "evict_lock", "tail", "try",
          "unchain", "reclaim", "evict_end", "pop", "fill", "drop", "count",
          "finish", "publish", "crash"}

(* What a thread knows: place, arguments, whether the item it writes is    *)
(* the first of its bucket, inserted or overwritten, chain position it,    *)
(* the item it builds or overwrites (mine), the block it took from the LRU *)
(* tail or the free list (got), evict's amount and freed_tot.              *)
Thread == [pc : Label, op : {"get", "set"}, key : Keys \cup {NoKey},
           ver : Nat, frags : Nat, as : {"first", "insert", "over"},
           it : 0 .. NumBlocks, mine : 0 .. NumBlocks, got : 0 .. NumBlocks,
           amount : Int, freed_tot : Nat]

Idle == [pc |-> "idle", op |-> "get", key |-> NoKey, ver |-> 0, frags |-> 0,
         as |-> "insert", it |-> NULL, mine |-> NULL, got |-> NULL,
         amount |-> 0, freed_tot |-> 0]

At(t, label) == th[t].pc = label
Goto(t, label) == th' = [th EXCEPT ![t].pc = label]
Return(t) == th' = [th EXCEPT ![t] = Idle]
Hv(t) == Hash[th[t].key]
B(t) == Bucket(Hv(t))
Here(t) == block[th[t].it]
KeyMatches(t) == Here(t).key = th[t].key

Take(locks, t, b) == locks[b] = Nobody /\ locks' = [locks EXCEPT ![b] = t]
Drop(locks, b) == locks' = [locks EXCEPT ![b] = Nobody]

\* lru_update: move or insert at the head.
Without(x) ==
    IF x \in ToSet(lru) THEN RemoveAt(lru, CHOOSE i \in DOMAIN lru : lru[i] = x)
                        ELSE lru
ToFront(x) == <<x>> \o Without(x)

\* Items that a bucket's chain leads to.
Linked == ToSet(lru) \ {th[t].got : t \in {u \in Threads : At(u, "reclaim")}}
-----------------------------------------------------------------------------
(* Entering a bucket. *)

\* A get of a bucket that is not valid returns NULL at once: no step.
BeginGet(t, k) ==
    /\ At(t, "idle") /\ calls < MaxCalls /\ valid[Bucket(Hash[k])]
    /\ th' = [th EXCEPT ![t] = [Idle EXCEPT !.pc = "enter", !.key = k]]
    /\ calls' = calls + 1
    /\ UNCHANGED <<table, block, lists, leaked>>

BeginSet(t, k, w) ==
    /\ At(t, "idle") /\ calls < MaxCalls
    /\ th' = [th EXCEPT ![t] = [Idle EXCEPT !.pc = "enter", !.op = "set",
                                   !.key = k, !.ver = w[1], !.frags = w[2]]]
    /\ calls' = calls + 1
    /\ UNCHANGED <<table, block, lists, leaked>>

\* A get reads entry->it here, before it takes the barrier.
Enter(t) ==
    /\ At(t, "enter") /\ Take(entryLock, t, B(t))
    /\ th' = [th EXCEPT ![t] =
          IF th[t].op = "get" THEN [@ EXCEPT !.pc = "barrier", !.it = chain[B(t)]]
          ELSE IF valid[B(t)] THEN [@ EXCEPT !.pc = "head"]
          ELSE [@ EXCEPT !.pc = "room", !.as = "first"]]
    /\ UNCHANGED <<barrier, valid, chain, block, lists, calls, leaked>>

\* A set reads entry->it under the barrier.
ReadHead(t) ==
    /\ At(t, "head") /\ Take(barrier, t, B(t))
    /\ th' = [th EXCEPT ![t] = [@ EXCEPT !.pc = "walk", !.it = chain[B(t)]]]
    /\ UNCHANGED <<entryLock, valid, chain, block, lists, calls, leaked>>

\* Both come back here, with the item they were at, after they let the
\* evictor in.
TakeBarrier(t) ==
    /\ At(t, "barrier") /\ Take(barrier, t, B(t))
    /\ Goto(t, "walk")
    /\ UNCHANGED <<entryLock, valid, chain, block, lists, calls, leaked>>
-----------------------------------------------------------------------------
(* Walking the chain. *)

WalkOn(t) ==
    /\ At(t, "walk") /\ th[t].it # NULL
    /\ th' = [th EXCEPT ![t] = IF Here(t).hv = Hv(t)
                               THEN [@ EXCEPT !.pc = "state"]
                               ELSE [@ EXCEPT !.it = Here(t).next]]
    /\ UNCHANGED <<table, block, lists, calls, leaked>>

\* The key is not in the chain: a get returns NULL, a set makes an item.
WalkEnds(t) ==
    /\ At(t, "walk") /\ th[t].it = NULL
    /\ Drop(barrier, B(t))
    /\ IF th[t].op = "get" THEN Drop(entryLock, B(t)) /\ Return(t)
                           ELSE Goto(t, "room") /\ UNCHANGED entryLock
    /\ UNCHANGED <<valid, chain, block, lists, calls, leaked>>

\* RTE_LOCK(&it->state_lock) waits while the word is not zero.
TakeState(t) ==
    /\ At(t, "state") /\ Here(t).slock = 0
    /\ block' = [block EXCEPT ![th[t].it].slock = 1]
    /\ Goto(t, "choose")
    /\ UNCHANGED <<table, lists, calls, leaked>>

\* Being read: a get joins the readers.
GetShares(t) ==
    /\ At(t, "choose") /\ th[t].op = "get" /\ Here(t).state = "r"
    /\ block' = [block EXCEPT ![th[t].it] =
                    [@ EXCEPT !.slock = 0, !.readers = (Here(t).readers + 1) % 256]]
    /\ IF KeyMatches(t) THEN lru' = ToFront(th[t].it) /\ Goto(t, "leave")
                        ELSE UNCHANGED lru /\ Goto(t, "pass")
    /\ UNCHANGED <<table, free, num_free_blocks, evict_lock, calls, leaked>>

\* Slip: a set does not wait for the readers.
SetPassesReaders(t) ==
    /\ At(t, "choose") /\ th[t].op = "set" /\ Here(t).state = "r"
    /\ block' = [block EXCEPT ![th[t].it].slock = 0]
    /\ th' = [th EXCEPT ![t] = [@ EXCEPT !.pc = "walk", !.it = Here(t).next]]
    /\ UNCHANGED <<table, lists, calls, leaked>>

\* Being read: a set waits with the barrier open.
SetWaits(t) ==
    /\ At(t, "choose") /\ th[t].op = "set" /\ Here(t).state = "r"
    /\ block' = [block EXCEPT ![th[t].it].slock = 0]
    /\ Drop(barrier, B(t))
    /\ Goto(t, "barrier")
    /\ UNCHANGED <<entryLock, valid, chain, lists, calls, leaked>>

TryItem(t) ==
    /\ At(t, "choose") /\ Here(t).state # "r" /\ ~Here(t).lock
    /\ block' = [block EXCEPT ![th[t].it] =
                    [@ EXCEPT !.slock = 0, !.lock = TRUE]]
    /\ Goto(t, "own")
    /\ UNCHANGED <<table, lists, calls, leaked>>

\* Locked by somebody else, taken to be the evictor: step over the item and
\* let the evictor have the barrier.
SkipItem(t) ==
    /\ At(t, "choose") /\ Here(t).state # "r" /\ Here(t).lock
    /\ block' = [block EXCEPT ![th[t].it].slock = 0]
    /\ th' = [th EXCEPT ![t] = [@ EXCEPT !.pc = "barrier", !.it = Here(t).next]]
    /\ Drop(barrier, B(t))
    /\ UNCHANGED <<entryLock, valid, chain, lists, calls, leaked>>

OtherKey(t) ==
    /\ At(t, "own") /\ ~KeyMatches(t)
    /\ block' = [block EXCEPT ![th[t].it].lock = FALSE]
    /\ th' = [th EXCEPT ![t] = [@ EXCEPT !.pc = "walk", !.it = Here(t).next]]
    /\ UNCHANGED <<table, lists, calls, leaked>>

GetOwn(t) ==
    /\ At(t, "own") /\ th[t].op = "get" /\ KeyMatches(t) /\ Here(t).slock = 0
    /\ block' = [block EXCEPT ![th[t].it] =
                    [@ EXCEPT !.state = "r", !.readers = 1]]
    /\ lru' = ToFront(th[t].it)
    /\ Goto(t, "leave")
    /\ UNCHANGED <<table, free, num_free_blocks, evict_lock, calls, leaked>>

\* An older version leaves with the item's lock still taken.
SetTooOld(t) ==
    /\ At(t, "own") /\ th[t].op = "set" /\ KeyMatches(t)
    /\ th[t].ver < Here(t).ver
    /\ Drop(barrier, B(t)) /\ Drop(entryLock, B(t))
    /\ leaked' = leaked \cup {th[t].it}
    /\ Return(t)
    /\ UNCHANGED <<valid, chain, block, lists, calls>>

\* What cache_write does next: get a block, give blocks back, or end.
AfterWrite(have, want) ==
    CASE have < want -> "room"
      [] have > want -> "drop"
      [] OTHER       -> "finish"

\* Slip: the item keeps its old size.
SetOwnKeepsSize(t) ==
    /\ At(t, "own") /\ th[t].op = "set" /\ KeyMatches(t)
    /\ th[t].ver >= Here(t).ver /\ Here(t).slock = 0
    /\ Drop(barrier, B(t))
    /\ block' = [block EXCEPT ![th[t].it] =
                    [@ EXCEPT !.state = "w", !.ver = th[t].ver]]
    /\ th' = [th EXCEPT ![t] =
          [@ EXCEPT !.mine = th[t].it, !.as = "over",
                    !.pc = AfterWrite(Len(Here(t).frags), th[t].frags)]]
    /\ UNCHANGED <<entryLock, valid, chain, lists, calls, leaked>>

\* overwrite starts over with it->size = 1; the fragments the item has are
\* used again and not counted.
SetOwn(t) ==
    /\ At(t, "own") /\ th[t].op = "set" /\ KeyMatches(t)
    /\ th[t].ver >= Here(t).ver /\ Here(t).slock = 0
    /\ Drop(barrier, B(t))
    /\ block' = [block EXCEPT ![th[t].it] =
                    [@ EXCEPT !.state = "w", !.size = 1, !.ver = th[t].ver]]
    /\ th' = [th EXCEPT ![t] =
          [@ EXCEPT !.mine = th[t].it, !.as = "over",
                    !.pc = AfterWrite(Len(Here(t).frags), th[t].frags)]]
    /\ UNCHANGED <<entryLock, valid, chain, lists, calls, leaked>>
-----------------------------------------------------------------------------
(* read_release, by a get that passed another key and by one that has      *)
(* copied its item.                                                        *)

\* Slip: every reader that leaves drops the item's lock.
ReleasedByEach(h) ==
    [h EXCEPT !.readers = (@ + 255) % 256, !.state = "-", !.lock = FALSE]

Released(h) ==
    IF (h.readers + 255) % 256 = 0
    THEN [h EXCEPT !.readers = 0, !.state = "-", !.lock = FALSE]
    ELSE [h EXCEPT !.readers = (@ + 255) % 256]

Pass(t) ==
    /\ At(t, "pass") /\ Here(t).slock = 0
    /\ block' = [block EXCEPT ![th[t].it] = Released(@)]
    /\ th' = [th EXCEPT ![t] = [@ EXCEPT !.pc = "walk", !.it = Here(t).next]]
    /\ UNCHANGED <<table, lists, calls, leaked>>

\* cache_item_to_line copies the item while pc is "copy".
Leave(t) ==
    /\ At(t, "leave")
    /\ Drop(barrier, B(t)) /\ Drop(entryLock, B(t))
    /\ Goto(t, "copy")
    /\ UNCHANGED <<valid, chain, block, lists, calls, leaked>>

EndCopy(t) ==
    /\ At(t, "copy") /\ Here(t).slock = 0
    /\ block' = [block EXCEPT ![th[t].it] = Released(@)]
    /\ Return(t)
    /\ UNCHANGED <<table, lists, calls, leaked>>
-----------------------------------------------------------------------------
(* getFree and evict. *)

\* A count that has wrapped is a huge one.
Short == num_free_blocks \in 0 .. EvictPoint - 1

Room(t) ==
    /\ At(t, "room")
    /\ Goto(t, IF Short THEN "evict_lock" ELSE "pop")
    /\ UNCHANGED <<table, block, lists, calls, leaked>>

\* The count is read again under evict_lock.
EvictLock(t) ==
    /\ At(t, "evict_lock") /\ evict_lock = Nobody
    /\ IF Short
       THEN /\ evict_lock' = t
            /\ th' = [th EXCEPT ![t] = [@ EXCEPT !.pc = "tail", !.freed_tot = 0,
                                           !.amount = MinEvict]]
       ELSE Goto(t, "pop") /\ UNCHANGED evict_lock
    /\ UNCHANGED <<table, block, lru, free, num_free_blocks, calls, leaked>>

\* An empty LRU list has a NULL tail, and evict follows it.
ReadTail(t) ==
    /\ At(t, "tail")
    /\ th' = [th EXCEPT ![t] =
          IF lru = << >> THEN [@ EXCEPT !.pc = "crash"]
          ELSE [@ EXCEPT !.pc = "try", !.got = Last(lru)]]
    /\ UNCHANGED <<table, block, lists, calls, leaked>>

\* Slip: the evictor takes the tail whether or not it is in use.
TryTailForced(t) ==
    /\ At(t, "try")
    /\ block' = [block EXCEPT ![th[t].got].lock = TRUE]
    /\ Goto(t, "unchain")
    /\ UNCHANGED <<table, lists, calls, leaked>>

TryTail(t) ==
    /\ At(t, "try")
    /\ IF block[th[t].got].lock
       THEN lru' = ToFront(th[t].got) /\ Goto(t, "tail") /\ UNCHANGED block
       ELSE /\ block' = [block EXCEPT ![th[t].got].lock = TRUE]
            /\ Goto(t, "unchain")
            /\ UNCHANGED lru
    /\ UNCHANGED <<table, free, num_free_blocks, evict_lock, calls, leaked>>

\* Slip: the item behind the removed one keeps its prev.
UnlinkedOneWay(p, n) ==
    [x \in Blocks |-> IF x = p THEN [block[x] EXCEPT !.next = n] ELSE block[x]]

\* The headers once the item between p and n has left its chain.
Unlinked(p, n) ==
    [x \in Blocks |-> CASE x = p -> [block[x] EXCEPT !.next = n]
                        [] x = n -> [block[x] EXCEPT !.prev = p]
                        [] OTHER -> block[x]]

\* remove_from_chain
Unchain(t) ==
    LET x == block[th[t].got]
        b == Bucket(x.hv)
    IN  /\ At(t, "unchain") /\ barrier[b] = Nobody
        /\ block' = Unlinked(x.prev, x.next)
        /\ IF x.prev = NULL
           THEN /\ chain' = [chain EXCEPT ![b] = x.next]
                /\ valid' = [valid EXCEPT ![b] = @ /\ x.next # NULL]
           ELSE UNCHANGED <<chain, valid>>
        /\ Goto(t, "reclaim")
        /\ UNCHANGED <<entryLock, barrier, lists, calls, leaked>>

\* evict_item: the size of the first block overlays its state lock.
Evicted(x, frags) ==
    [y \in Blocks |-> CASE y = x -> [Zero EXCEPT !.slock = 1 + Len(frags)]
                        [] y \in ToSet(frags) -> Zero
                        [] OTHER -> block[y]]

\* remove_from_lru, evict_item and add_to_free
Reclaim(t) ==
    LET x == th[t].got
        n == block[x].size
    IN  /\ At(t, "reclaim")
        /\ lru' = Without(x)
        /\ block' = Evicted(x, block[x].frags)
        /\ free' = <<x>> \o block[x].frags \o free
        /\ th' = [th EXCEPT ![t] =
              [@ EXCEPT !.amount = th[t].amount - n,
                        !.freed_tot = th[t].freed_tot + n, !.got = NULL,
                        !.pc = IF th[t].amount > n THEN "tail" ELSE "evict_end"]]
        /\ leaked' = leaked \ {x}
        /\ UNCHANGED <<table, num_free_blocks, evict_lock, calls>>

\* Slip: the blocks freed are never added to the count.
EvictEndUncounted(t) ==
    /\ At(t, "evict_end")
    /\ evict_lock' = Nobody
    /\ Goto(t, "pop")
    /\ UNCHANGED <<table, block, lru, free, num_free_blocks, calls, leaked>>

EvictEnd(t) ==
    /\ At(t, "evict_end")
    /\ num_free_blocks' = num_free_blocks + th[t].freed_tot
    /\ evict_lock' = Nobody
    /\ Goto(t, "pop")
    /\ UNCHANGED <<table, block, lru, free, calls, leaked>>

\* The head of the list is handed out.  Behind the end of the list lies
\* memory that the log does not own.
Pop(t) ==
    /\ At(t, "pop")
    /\ num_free_blocks' = num_free_blocks - 1
    /\ IF free = << >>
       THEN Goto(t, "crash") /\ UNCHANGED <<free, block>>
       ELSE /\ th' = [th EXCEPT ![t] = [@ EXCEPT !.pc = "fill",
                                                 !.got = Head(free)]]
            /\ block' = [block EXCEPT ![Head(free)] = Zero]
            /\ free' = Tail(free)
    /\ UNCHANGED <<table, lru, evict_lock, calls, leaked>>
-----------------------------------------------------------------------------
(* Writing an item: write_entry, overwrite and cache_write. *)

\* The block becomes the item ...
FillItem(t) ==
    /\ At(t, "fill") /\ th[t].mine = NULL
    /\ block' = [block EXCEPT ![th[t].got] =
          [Zero EXCEPT !.hv = Hv(t), !.key = th[t].key, !.size = 1,
                       !.ver = th[t].ver]]
    /\ th' = [th EXCEPT ![t] =
          [@ EXCEPT !.mine = th[t].got, !.got = NULL,
                    !.pc = AfterWrite(0, th[t].frags)]]
    /\ UNCHANGED <<table, lists, calls, leaked>>

\* ... or the next fragment of it.
FillFragment(t) ==
    LET m == th[t].mine
        f == Append(block[m].frags, th[t].got)
    IN  /\ At(t, "fill") /\ m # NULL
        /\ block' = [block EXCEPT ![th[t].got].slock = FragBytes,
                                  ![m].frags = f, ![m].size = block[m].size + 1]
        /\ th' = [th EXCEPT ![t] =
              [@ EXCEPT !.got = NULL, !.pc = AfterWrite(Len(f), th[t].frags)]]
        /\ UNCHANGED <<table, lists, calls, leaked>>

\* Slip: the item keeps its pointer to the fragments it gives back.
GiveBackKept(t) ==
    LET m == th[t].mine
        extra == SubSeq(block[m].frags, th[t].frags + 1, Len(block[m].frags))
    IN  /\ At(t, "drop")
        /\ block' = Evicted(Head(extra), Tail(extra))
        /\ free' = extra \o free
        /\ th' = [th EXCEPT ![t] = [@ EXCEPT !.pc = "count", !.got = Head(extra),
                                       !.freed_tot = Len(extra)]]
        /\ UNCHANGED <<table, lru, num_free_blocks, evict_lock, calls, leaked>>

\* The value became shorter: the fragments behind it go to the free list ...
GiveBack(t) ==
    LET m == th[t].mine
        kept == SubSeq(block[m].frags, 1, th[t].frags)
        extra == SubSeq(block[m].frags, th[t].frags + 1, Len(block[m].frags))
    IN  /\ At(t, "drop")
        /\ IF extra = << >>
           THEN Goto(t, "finish") /\ UNCHANGED <<block, free>>
           ELSE /\ block' = [Evicted(Head(extra), Tail(extra))
                                EXCEPT ![m].frags = kept]
                /\ free' = extra \o free
                /\ th' = [th EXCEPT ![t] =
                      [@ EXCEPT !.pc = "count", !.got = Head(extra),
                                !.freed_tot = Len(extra)]]
        /\ UNCHANGED <<table, lru, num_free_blocks, evict_lock, calls, leaked>>

\* ... and are counted afterwards, by the size left in the first of them.
CountBack(t) ==
    /\ At(t, "count")
    /\ num_free_blocks' = num_free_blocks + block[th[t].got].slock
    /\ Goto(t, "finish")
    /\ UNCHANGED <<table, block, lru, free, evict_lock, calls, leaked>>

\* The first item of a bucket is published without the barrier ...
FinishFirst(t) ==
    /\ At(t, "finish") /\ th[t].as = "first"
    /\ chain' = [chain EXCEPT ![B(t)] = th[t].mine]
    /\ lru' = ToFront(th[t].mine)
    /\ th' = [th EXCEPT ![t] = [@ EXCEPT !.pc = "publish", !.mine = NULL]]
    /\ UNCHANGED <<entryLock, barrier, valid, block, free, num_free_blocks,
                   evict_lock, calls, leaked>>

\* ... and may be evicted again before valid is set.
Publish(t) ==
    /\ At(t, "publish")
    /\ valid' = [valid EXCEPT ![B(t)] = TRUE]
    /\ Drop(entryLock, B(t))
    /\ Return(t)
    /\ UNCHANGED <<barrier, chain, block, lists, calls, leaked>>

LinkedBefore(x, old) ==
    [y \in Blocks |-> CASE y = x -> [block[y] EXCEPT !.next = old]
                        [] y = old -> [block[y] EXCEPT !.prev = x]
                        [] OTHER -> block[y]]

FinishInsert(t) ==
    /\ At(t, "finish") /\ th[t].as = "insert" /\ barrier[B(t)] = Nobody
    /\ block' = LinkedBefore(th[t].mine, chain[B(t)])
    /\ chain' = [chain EXCEPT ![B(t)] = th[t].mine]
    /\ valid' = [valid EXCEPT ![B(t)] = @ \/ chain[B(t)] = NULL]
    /\ lru' = ToFront(th[t].mine)
    /\ Drop(entryLock, B(t))
    /\ Return(t)
    /\ UNCHANGED <<barrier, free, num_free_blocks, evict_lock, calls, leaked>>

FinishOverwrite(t) ==
    /\ At(t, "finish") /\ th[t].as = "over" /\ block[th[t].mine].slock = 0
    /\ lru' = ToFront(th[t].mine)
    /\ block' = [block EXCEPT ![th[t].mine] =
                    [@ EXCEPT !.state = "-", !.lock = FALSE]]
    /\ Drop(entryLock, B(t))
    /\ Return(t)
    /\ UNCHANGED <<barrier, valid, chain, free, num_free_blocks, evict_lock,
                   calls, leaked>>
-----------------------------------------------------------------------------
Begin(t) ==
    \E k \in Keys : BeginGet(t, k) \/ \E w \in Writes : BeginSet(t, k, w)

Walk(t) ==
    \/ Enter(t) \/ ReadHead(t) \/ TakeBarrier(t) \/ WalkOn(t) \/ WalkEnds(t)
    \/ TakeState(t) \/ TryItem(t) \/ SkipItem(t) \/ OtherKey(t)

Get(t) == GetShares(t) \/ GetOwn(t) \/ Pass(t) \/ Leave(t) \/ EndCopy(t)

GetFree(t) ==
    \/ Room(t) \/ EvictLock(t) \/ ReadTail(t) \/ TryTail(t) \/ Unchain(t)
    \/ Reclaim(t) \/ EvictEnd(t) \/ Pop(t)

Set(t) ==
    \/ SetWaits(t) \/ SetTooOld(t) \/ SetOwn(t) \/ FillItem(t)
    \/ FillFragment(t) \/ GiveBack(t) \/ CountBack(t) \/ FinishFirst(t)
    \/ Publish(t) \/ FinishInsert(t) \/ FinishOverwrite(t)

(* History: the windows in which a thread works on a block that has been   *)
(* evicted under it.                                                       *)
Gone(t) == ~(th[t].it \in Linked /\ Bucket(Here(t).hv) = B(t))

\* t walks on from a block that its chain does not lead to any more.
CutOff(t) == th[t].pc \in {"walk", "state"} /\ th[t].it # NULL /\ Gone(t)

\* t works on the locks of such a block.
Astray(t) == th[t].pc \in {"choose", "own", "pass"} /\ Gone(t)

\* t counts a size that is no longer the one it left behind.
Misreads(t) == At(t, "count") /\ block[th[t].got].slock # th[t].freed_tot

Watch ==
    harm' = harm \cup {h \in {"walk", "locks", "count"} : \E t \in Threads :
                          \/ h = "walk" /\ CutOff(t)'
                          \/ h = "locks" /\ Astray(t)'
                          \/ h = "count" /\ Misreads(t)'}

Init ==
    /\ entryLock = [b \in Buckets |-> Nobody]
    /\ barrier = [b \in Buckets |-> Nobody]
    /\ valid = [b \in Buckets |-> FALSE]
    /\ chain = [b \in Buckets |-> NULL]
    /\ block = [x \in Blocks |-> Zero]
    /\ lru = << >>
    /\ free = [x \in Blocks |-> x]
    /\ num_free_blocks = NumBlocks
    /\ evict_lock = Nobody
    /\ th = [t \in Threads |-> Idle]
    /\ calls = 0
    /\ leaked = {}
    /\ harm = {}

\* A crash ends the process.
Next ==
    /\ \A t \in Threads : ~At(t, "crash")
    /\ \E t \in Threads : Begin(t) \/ Walk(t) \/ Get(t) \/ GetFree(t) \/ Set(t)
    /\ Watch

Spec == Init /\ [][Next]_vars
-----------------------------------------------------------------------------
\* No more threads than blocks left when eviction starts.
FewThreads == Cardinality(Threads) <= EvictPoint

(* Types.  The count of free blocks does not wrap below zero with as few   *)
(* threads as that.                                                        *)
TypeOK ==
    /\ entryLock \in [Buckets -> Threads \cup {Nobody}]
    /\ barrier \in [Buckets -> Threads \cup {Nobody}]
    /\ valid \in [Buckets -> BOOLEAN]
    /\ chain \in [Buckets -> 0 .. NumBlocks]
    /\ block \in [Blocks -> Header]
    /\ lru \in Seq(Blocks) /\ free \in Seq(Blocks)
    /\ num_free_blocks \in Int /\ (FewThreads => num_free_blocks \in Nat)
    /\ evict_lock \in Threads \cup {Nobody}
    /\ th \in [Threads -> Thread]
    /\ calls \in 0 .. MaxCalls
    /\ leaked \subseteq Blocks
    /\ harm \subseteq {"walk", "locks", "count"}

(* The chains are doubly linked lists of live items, each in the chain of  *)
(* its own bucket and nowhere else, whatever evicts and inserts around, as *)
(* long as no thread has worked on the locks of a block that was evicted   *)
(* under it (ram_ht.c:239, 381, 474).                                      *)
ChainsIntact == "locks" \notin harm =>
    /\ \A x \in Linked :
          LET h == block[x]
              b == Bucket(h.hv)
          IN  /\ h.key # NoKey
              /\ h.prev = NULL => chain[b] = x
              /\ h.prev # NULL => h.prev \in Linked /\ block[h.prev].next = x
              /\ h.next # NULL => /\ h.next \in Linked
                                  /\ block[h.next].prev = x
                                  /\ Bucket(block[h.next].hv) = b
    /\ \A b \in Buckets : chain[b] # NULL =>
          /\ chain[b] \in Linked
          /\ block[chain[b]].prev = NULL
          /\ Bucket(block[chain[b]].hv) = b
          /\ valid[b] \/ \E t \in Threads : At(t, "publish") /\ B(t) = b

Items == ToSet(lru) \cup ({th[t].mine : t \in Threads} \ {NULL})
Fragments(x) == ToSet(block[x].frags)
InHand == {t \in Threads : At(t, "fill")}

(* Every block of the log is in exactly one place: once on the free list,  *)
(* an item, a fragment of one item, or in the hands of one thread; under   *)
(* the same exception.                                                     *)
BlocksOnce == "locks" \notin harm =>
    LET fragments == UNION {Fragments(x) : x \in Items}
        inHand == {th[t].got : t \in InHand}
    IN  /\ Blocks = ToSet(free) \cup Items \cup fragments \cup inHand
        /\ ToSet(free) \cap (Items \cup fragments \cup inHand) = {}
        /\ Items \cap (fragments \cup inHand) = {}
        /\ fragments \cap inHand = {}
        /\ IsInjective(free) /\ IsInjective(lru)
        /\ \A x \in Items : IsInjective(block[x].frags)
        /\ \A x, y \in Items : x # y => Fragments(x) \cap Fragments(y) = {}
        /\ \A t, u \in InHand : t # u => th[t].got # th[u].got

(* Who uses an item. *)
Readers(x) == {t \in Threads : th[t].pc \in {"leave", "copy", "pass"} /\ th[t].it = x}
Writers(x) == {t \in Threads : th[t].mine = x /\ th[t].as = "over"}
Evictors(x) == {t \in Threads : th[t].pc \in {"unchain", "reclaim"} /\ th[t].got = x}
Owners(x) == {t \in Threads : At(t, "own") /\ th[t].it = x}

(* While a get copies an item, nobody overwrites or evicts it and no other *)
(* reader's release takes its lock away; a writer and the evictor are      *)
(* alone; and an item's lock is held exactly while somebody uses the item, *)
(* or for good after a set with an older version.  The same exception.     *)
UseIsExclusive ==
    "locks" \notin harm => \A x \in Blocks :
        /\ Cardinality(Writers(x)) + Cardinality(Evictors(x))
             + Cardinality(Owners(x)) + (IF Readers(x) = {} THEN 0 ELSE 1) <= 1
        /\ Readers(x) # {} => /\ block[x].state = "r" /\ x \in Linked
                              /\ block[x].readers = Cardinality(Readers(x))
        /\ x \in Linked =>
              (block[x].lock <=> \/ x \in leaked
                                 \/ Readers(x) \cup Writers(x) \cup Evictors(x)
                                       \cup Owners(x) # {})

(* With no more threads than EVICT_POINT, the count of free blocks always  *)
(* covers the threads that are about to take a block, so that it never     *)
(* wraps below zero; and with any number of them, unless it has wrapped,   *)
(* it never promises more than the free list has, as long as no release    *)
(* has read another thread's size (ram_ht.c:1283) and the locks were left  *)
(* alone as above.                                                         *)
FreeCount ==
    /\ FewThreads =>
          num_free_blocks >= Cardinality({t \in Threads : At(t, "pop")})
    /\ harm \cap {"count", "locks"} = {} => num_free_blocks <= Len(free)

(* A key has one item that can be found, unless an item's lock was left    *)
(* behind or a walk was cut short by an eviction.                          *)
OneItemPerKey ==
    harm \cap {"walk", "locks"} = {} /\ leaked = {} =>
        \A x, y \in Linked : block[x].key = block[y].key /\ x # y =>
            Evictors(x) \cup Evictors(y) # {}

(* "even when evicting, the it->next should still give us the next thing   *)
(* in the list" (ram_ht.c:254): the block a walk is at is one that its     *)
(* bucket's chain leads to or led to just now, its next still in place.    *)
WalkStaysInChain == \A t \in Threads : CutOff(t) => Evictors(th[t].it) # {}
=============================================================================
