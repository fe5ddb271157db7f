# Verification of FlexKVS

FlexKVS is a key-value server. Worker lcores receive SET and GET packets; SETs
are appended to a circular log in NVDIMM and answered at once, and a
maintenance lcore moves the log's items to a hash table on SSD with a RAM cache
in front of it. An older engine that keeps its items in memory segments lies
beside it. This directory models the program in TLA+, checks the models on small
instances with TLC, and proves with TLAPS, for every value of the constants, the
main invariants of the log's threads and of what clients may expect of the log,
of the layers put together, of the RAM cache, of the SSD table's page buffers, and of
the first engine's segments, references and table.

All source paths are below `src/flexkvs/server/`.

## The system

| component | state | operations | interacts with |
|---|---|---|---|
| server (`main.c`) | per worker a batch of packets | `packet_loop`, `processing_thread`, `maintenance` | calls `NVDIMM_write_entry` for a SET, `database_get` for a GET, `NVDIMM_write_out_next` for ever |
| database (`database.c`) | none | `database_get`, `database_set` | log, then cache, then SSD; fills the cache |
| NVDIMM log (`NVDIMM.c`) | `circ_buffer` (head, next, tail, capacity), the `nv_line` headers in the buffer | `write_entry`, `read`, `find`, `allocate`, `claim_next`, `write_out`, `consume`, `invalidate` | workers and the maintenance thread share it; `write_out` calls `database_set` |
| RAM cache (`ram_ht.c`) | bucket chains, LRU list, item states and locks, free blocks | `cache_ht_get`, `cache_ht_set`, `getFree`, `evict`, `cache_flush` | called by the database from every lcore |
| SSD table (`ssd_ht.c`) | bucket chains, item versions, page buffer, current page | `ssd_ht_get`, `ssd_ht_set`, write-out of pages | called by the database; versions order cache updates |
| first engine (`ialloc.c`, `hashtable.c`, `iokvs.h`, `old/`) | log segments, hash buckets, reference counts | allocate, free, clean; get, put | still compiled in part, used by `old/main.c` only |
| the rest | | `settings.c`, `global.c`, `jenkins_hash.c`, testers, superseded copies | |

What is hard in it: every operation on the log is a sequence of short lock
sections (`circ_buffer.lock`, the lock of an item) between which other lcores
run; items change hands between a writer, readers, flushers and a thread that
overwrites them, and are freed by whoever comes by; workers that find the log
full become flushers; head, next and tail are moved by different operations;
the byte layout wraps and leaves a gap at the end of the buffer. In the cache,
gets, sets and evictions meet on one item under four locks. In the SSD table, a
page of the buffer is written by several lcores and written out by one. Between the
layers no lock is held, so a key's value moves from log to SSD to cache while a
GET looks for it in the other order. In the first engine a maintenance thread
reclaims segments that workers still allocate from, and copies race with SETs.

What makes each part correct:

* log, threads: an item in use is never freed; reader counts are exact; items
  are claimed once and in order; nothing is dropped before it is stored or
  superseded; requests end;
* log, layout: items do not overlap, walks find exactly the items, free space
  is exact, next is where the next unclaimed item is;
* database: a GET that follows a SET finds that value or a later one, wherever
  it is;
* cache: an item is not evicted or overwritten while it is read; every block
  is in one chain or free; a fill does not replace a newer value;
* SSD table: versions of a key grow; a set that returned is on the SSD, complete
  and where its item says; pages are not written out while they are written to,
  and none is lost; sets return;
* first engine: references and freed bytes are exact; a segment is in one place;
  copying an item never revives or loses a value.

## Modules

| module | subject |
|---|---|
| `LogQueue` | what the log promises: a queue whose items are claimed in order and once, released in any order, and leave as a released prefix |
| `NvLog` | the threads of the log: workers serving SETs and GETs, flushers, the maintenance thread |
| `NvLogHistory` | `NvLog` with history variables, and what clients may expect |
| `NvRing` | the byte layout of the log |
| `NvRingProofs` | the proofs that items share no byte, headers chain, capacity is exact and next is on an item, for every size of buffer, header and items, and that the layout implements `LogQueue` |
| `NvLogProofs` | the inductive invariant of `NvLog`, what follows from it, the proof that it implements `LogQueue`; then, about `NvLogHistory`, that nothing is lost and an answered SET is found |
| `RamCache` | the RAM cache: chains, LRU list, item locks, blocks, eviction |
| `RamCacheProofs` | types, locks and pointers of `RamCache` at each place of a thread |
| `RamCacheUseProofs` | the invariant of who uses which item and where each block is |
| `RamCacheListProofs` | the proofs that the chains stay intact, with one item of a key, and that the free list holds what its count promises |
| `VersionStore` | what the SSD table promises: one version per key, counted up |
| `SsdTable` | the SSD table: items, page buffers, write-out |
| `SsdTableProofs` | the inductive invariant of `SsdTable` and what follows |
| `Database` | the server's requests over log, cache and SSD |
| `DatabaseProofs` | its invariant, the proof that it uses the log as `LogQueue`, that cache and SSD agree on what is at rest, and that a GET is not told anything old |
| `SegmentLog` | the first engine: segments, reference counts, hash table, cleaning |
| `SegmentLogProofs` | its inductive invariant, and the proofs that a segment has one place, references and freed bytes are exact and the table holds the newest value |
| `MC*` | values of the constants and symmetry for TLC |

How they fit. `NvLog` and `NvRing` implement `LogQueue`, `SsdTable` implements
`VersionStore`; `Database` composes the layers at this level (the log as a queue
of items, the SSD as the versions stored, the cache as a key's chain), and is
shown to use the log as `LogQueue` allows. `RamCache` has no abstract
specification beside its invariants, because what it forgets is not promised.
`SegmentLog` stands alone, as the engine it models does.

### NvLog

The variables head, next, tail, capacity are those of `circ_buffer`, counted in
slots of one item each. `item[p]` is the `nv_line` in slot p with its state
byte as a set of flags and its reader count. `pc[t]` is where a thread is, in
the order of the code: `set_find`, `set_mark`, `set_unread`, `set_inval`,
`alloc`, `write_key`, `write_val` for `NVDIMM_write_entry`; `get_*` for
`NVDIMM_read` within `database_get`; `claim` to `flush_inval` for
`NVDIMM_write_out_next`. `it`, `old`, `buf` are the local pointers to the item
being worked on, to the item found, and the copy on the heap. `exited` is a call
of `exit(0)`.

One action is one lock section. `NVDIMM_find`, `NVDIMM_allocate`,
`NVDIMM_claim_next` up to its unlock and `NVDIMM_invalidate` hold
`circ_buffer.lock` throughout, so each is atomic for everything that lock
guards; state bytes are changed under the item's lock by `change_state`,
`change_and_remove_state` and `remove_state`, one action each. Three things
are less obvious:

* `NVDIMM_find` waits, under `circ_buffer.lock`, for an item whose key is being
  written. The writer does not need that lock to finish, so the wait is a guard:
  `FoundAt` and `NotFound` hold only when no such item lies before the match.
* `NVDIMM_read_item` copies without a lock. A copy made while the writer still
  fills in the value is a data race, modelled as a choice between the value and
  `Torn`.
* The check `NEXT IS BAD 1` (NVDIMM.c:742) runs after the unlock; its two
  conditions are two actions, `CheckBetween` and `CheckTail`.

A claim fails when another thread is inside a section of the item's lock
(`ClaimLockBusy`); what lies at the tail was never initialised or is stale, so
the trylock there may give either answer.

Abstractions: one slot per item; a key stands for its hash and bytes; the cache
and the SSD table behind `database_get` and `database_set` are one register per
key, `store`. `ReaderValues` is the width of the reader count.

### NvRing

Offsets stand for pointers. `mem` says what lies at each offset: the first byte
of a header, or bytes that make no sense as one. Items are allocated at tail or,
when no header fits before the end, at 0; payloads wrap; find and invalidate
walk header by header, because a walk may not end. Item states are reduced to
what layout depends on, and the threads to whoever holds `circ_buffer.lock`.

`items`, `behind` and `lost` are history variables: the real items, how many of
them next has passed, and whether a lock holder went past the last item. From
there on the code reads bytes that are no header (see *Disagreements*), so the
model stops at `lost`; the properties are what holds up to that point.

### NvLogHistory

`known`, `newest`, `promised` record which SETs were answered, the last
value answered under each key and what a GET is owed; `fate` records why an item
need not be kept. No step of `NvLog` reads them.

### RamCache

`entryLock`, `barrier`, `valid` and `chain` are the fields of `struct ht_entry`,
`block[x]` is the header in block x of the cache's memory, whether it is an item,
a fragment or free, so a stale pointer reads what is there now. `th[t].pc` is the
place in `cache_ht_get` and `cache_ht_set` (`enter`, `head`, `barrier`, `walk`,
`state`, `choose`, `own`, `pass`, `copy`, `leave`, then `fill`, `drop`, `count`,
`publish`, `finish`) or in `getFree` and `evict` (`room`, `evict_lock`, `tail`,
`try`, `unchain`, `reclaim`, `evict_end`, `pop`). One action
is a section of one lock. Two words of a block that share their place in memory
(the size of a fragment or free block, the state lock of an item) are one field
`slock`, which is how a thread can count a size it did not write.

`harm` and `leaked` are history variables. They record that a thread walked on
from a block evicted under it (`walk`), took or dropped the locks of such a
block (`locks`), or read the size of a block already handed out (`count`), and
which items a set with an older version has left locked (ram_ht.c:474). The
properties name the windows they except: `locks` for all of them but the first
half of FreeCount, since a thread that unlocks or marks an evicted block touches
whatever the block has become; `count` for the second half of FreeCount; `walk`
and a lock left behind for OneItemPerKey.

### SsdTable

`item[k]` is the `ssd_item` of a key, `page[p]` the `free_page_header` of a page
buffer, `buffer[p]` the chunks in it, `ssd` the chunks on the SSD by page number;
`cur_page`, `page_num`, `offset` and `freeLock` are `ssd_free_pages`. `th[t]` is
a thread in `ssd_write`: `page` to `leave` place, link and write the chunks of a
record one after the other, `swap` and `dress` are `swap_current_page` and the
second half of `get_new_page`, `purge` and `drain` are `write_out_all`, whose
rounds (`round`: the pages of the array still to be tried) go page by page: try
the page's lock (`headLock`), compare with the current page (`current`), if it is
that, try `ssd_free_pages.lock` as well, whether the first was got or not
(`try_free`, `gotFree`), then `judge` and `flush` with the locks needed or `pass`
without. A page that another thread has written out is taken off the array even
without a lock. A round after which no page is off the array is repeated at once
(`NextRound`, ssd_ht.c:860). `recent` stands for the age of the page's timestamp; `Elapse` lets it run out. A chunk keeps the key and
version it is of and where the next is, so `ReadBack` reads a value as `ssd_read`
does, from the SSD alone, and finds out when any of it is missing or overwritten.

### Database

`log` is the queue with what each item carries and whether it is `live` (not
consumed) and `busy` (being written out); `ssd[k]` the values stored under a key,
one per version; `cache[k]` the items of a key in the cache, newest first, `stuck`
those left locked; `th` a thread in `packet_loop` (after the datagram was read),
`database_get`, or `NVDIMM_write_out_next` with `database_set` in it. A value is
the number of its SET, so that older and newer can be told apart. `Drop` has the
conditions under which a datagram is left without an answer (main.c:296-405).
`harm` records the four windows in which a GET may be told something old.

### SegmentLog

`seg[s]` is a `segment_header`, `mem[s]` the item headers in the segment's memory
(those of its former use included), `table` the buckets with their slots and
overflow, `ia` the `item_allocator` of each worker, `cq` its cleanup queue.
`th[w]` is a worker in a SET (`alloc`, `segment_alloc` step by step from `seg` to `more`,
`install`, `put`, `release`), a GET or `clean_log` (`clean`, `copy`, `reserve`); `mt` the maintenance thread in
`ialloc_maintenance` (walk, weigh, push, scan). `segalloc_lock` is taken and
dropped in steps of its own, because `segment_alloc` drops it on a path that has
not taken it (ialloc.c:103). `harm` records that this let two threads in
(`lock`), and that a scan went on in a segment given back (`scan`, ialloc.c:404).

## Runs

| run | instance | states | question |
|---|---|---|---|
| `log_threads` | 2 workers, maintenance, 1 key, 1 value, 3 slots, symmetry | 920 000 | the safety of the log under all interleavings, no loss, refinement of `LogQueue` |
| `client_alone` | 1 worker, maintenance, 2 keys, 2 values, 3 slots | 2 900 000 | what an answered SET guarantees to the only client |
| `log_live` | 2 workers, maintenance, 1 key, 2 slots | 51 000 | GETs and claims end, somebody gets room |
| `ring_layout` | 19 bytes, header 3, items of 3 sizes, gaps of 1 and 2 bytes at the end | 420 000 | layout, accounting, refinement of `LogQueue` |
| `ram_cache` | 2 threads, 4 keys (two with one hash, three in one bucket), 4 blocks, 4 calls, symmetry | 1 730 000 | chains, blocks, free count and item locks while sets evict |
| `ssd_table` | 2 threads, 2 keys, 4 page buffers of 6 units, records of 1 and 9, 3 sets | 283 000 | pages counted and kept, refinement of `VersionStore`, sets return unless two trylocks defeat each other for ever |
| `database` | 2 workers, maintenance, 2 keys, log of 2, 4 datagrams, symmetry | 273 000 | what a GET is told, agreement of cache and SSD, refinement of `LogQueue`, no deadlock |
| `first_engine` | 2 workers (3 requests and 1), maintenance, 3 keys, 5 segments of 10 units | 379 000 | reference counts, freed bytes, segments, newest value, no deadlock |
| `ram_walk` | as `ram_cache` | | refuted: a walk stays in its chain |
| `log_stuck` | as `log_live` | | refuted: a full log is always cleared out |
| `clients_lost_get` | 2 workers, 1 key | | refuted: a GET after an answered SET finds the key |
| `ring_exit` | 11 bytes, header 3 | | refuted: the check NEXT IS BAD holds |

Why the bounds are enough. Two workers and the maintenance thread give three
flushers, two writers and two readers on the same item; a third worker repeats
the roles. Three slots hold two items, since one slot always stays free: enough
for an old item behind a new one of the same key, for a freed slot to be reused
and for next to lie between two items. Two slots (`log_live`) make the log
full with one item, so that every SET meets `AllocateFails`. Two keys and two
values are what `client_alone` needs to tell a wrong value and a wrong key.
A buffer of 19 bytes with headers of 3 lets items of different sizes end at
every distance from the end of the buffer, the gap included. State sets are
finite without further bounds: counters are part of the state (slots, bytes),
none grows.

The other modules bound the calls started in a behaviour (`MaxCalls`, `MaxSets`,
`MaxRequests`), since versions and page numbers grow:

* `ram_cache`: four blocks hold four items or two with a fragment each, so that
  the third call evicts (EvictPoint 2) while the fourth runs beside it. Two keys
  share a hash and three a bucket, so that walks pass items of other keys and
  unlink in the middle of a chain; writes are longer, shorter and older than what
  they replace. Two threads are no more than EvictPoint, as `FewThreads` has it. With
  EvictPoint 1 they are more: then TLC finds a count below zero, and more threads past
  the check of the count than free blocks, while the other invariants still hold.
* `ssd_table`: two records of 1 fit on a page of 6 and leave it the current page,
  which then grows old on the arrays of two threads; one of 9 takes the rest of
  one page, and more of the next; PAGES_PER_CORE 2 makes the second chunk purge.
  Two keys in two buckets, as sets of one bucket exclude each other. Three sets
  reuse page buffers. Four buffers are what two such threads need: with three the
  model deadlocks in `get_new_page`, each thread with a page it has yet to write
  out. The code's ring has `(lcores + 1) * PAGES_PER_CORE + 5` (ssd_ht.c:175),
  more than the threads can have on their arrays.
* `database`: a log of two is full with one item waiting, so workers become
  flushers; four datagrams are two SETs and two GETs or three and one, in any
  order, with any of the malformed ones between.
* `first_engine`: five segments are two for each worker at the start and one to
  take. A small item and a large one make a segment nearly dead, so the run cleans,
  uses the reserve and runs out of segments for a SET. `Unharmed` is a CONSTRAINT: behaviours are
  explored up to the first harm, and the properties say `harm = {}` (or
  name the one kind of it that matters) for the last state.

`CHECK_DEADLOCK FALSE` is set where `exit(0)` ends the process (log), where `lost`
stops the model (ring), where a lock left behind or a crash stops the threads
(cache), and where all `MaxSets` sets have been made (SSD table). `database` and
`first_engine` are checked for deadlock; in the second this also says that the
abort in `clean_log` (old/main.c:672) is not reached in that instance.

The history variables `harm` (and `leaked`) are how a property says exactly under
which conditions it holds. Each window is a defect or a race of the code named
with its line; outside these windows the property must hold, and the mutants
break it there.

Fairness (`log_live`, `log_stuck`). Each lcore runs its thread alone, so each
step that stays possible is taken (WF). Threads that compete for a spinlock get
it at some time, because every holder releases it after a bounded section: `SF`
for `SetFind`, `GetFind` and `Claim`, whose guards other threads turn on and
off. Nothing of the kind is assumed of `Allocate`: other workers may take the
room each time, so the property is that some worker gets it.

Fairness (`ssd_table`). Again WF for each thread, and for time to go on (`Elapse`),
since a page that nobody fills is written out only when it is old. `SF` is for the
steps that wait for a spinlock (`TakesLock`). Nothing is assumed of the locks that
`write_out_all` only tries: a round that wrote nothing is repeated at once
(ssd_ht.c:860; the sleep of ssd_ht.c:930 comes only after a page has left the
array), so of two lcores with one old current page each may get one of the two
locks and miss the other for ever. SetReturns has this as its only exception: it
says that every set returns in a behaviour in which, from some time on, no thread
misses a lock because of another that only tries, too (`Collide`). Without that
premise TLC refutes it. It leaves nothing else out: that a page has writers, is not
full, is not old yet, or that the lock is held by somebody who writes are still
reasons to come back that must end by themselves.

## What is proved

`NvLogProofs` proves, for every finite set of fewer than 255 workers and every
number of slots from two, `Spec => []` of TypeOK, HeldInLog,
RingConsistent, ReadersExact, OneFlusherPerItem, NoItemSkipped and
FoundItemKeepsItsKey. Assumptions are those `NvLog` names: `SlotsAssumption`,
`ThreadsAssumption` (fewer than 255 workers, for the reader count is a byte) and
`ValuesAssumption` (the null values differ from the real ones).

None of these is inductive alone. HeldInLog needs that an item in use is not
evictable, which holds because each role has a bit in the state byte: a reader
READING, a writer WRITING_KEY or WRITING_VAL, a flusher WRITING_TO_SSD. So the
invariant `IInv` adds BitsHeld (the bit is there), OneWriterPerItem and
OneFlusherPerItem (nobody else clears it), ReadersExact (READING stays as long
as somebody reads), PointersFollowPc (who holds what at which program point) and
RequestHeld (the found item has the key and is not being given another). In
turn ReadersExact needs HeldInLog: an allocation resets the count of a slot that
nobody must be reading.

The proof has one lemma per action. Steps that only move a thread between
points with the same duties go through `LocalStep`; all four calls of
NVDIMM_invalidate through `InvalidateStep`, which turns the walk into distances
from head (`DistSplit`, `DistBehind`); the counts rest on `ReaderAdded` and
`ReaderLeft`, where the bound on the number of threads excludes an overflow.

It also proves `Spec => ImplementsQueue`: under the refinement mapping
of `NvLog` (an item of the queue per slot from head to tail, released when it is
evictable; claimed = the distance from head to next) Claim is `ClaimOldest`,
Allocate is `Enter`, an invalidation that frees something is `Leave`, and the
last release of an item is `Release`; every other step stutters. It needs
`IInv`: that a held item lies in the log and is not evictable makes the steps of
its holder releases or stutters, and RingConsistent keeps `Behind` at most the
length of the queue.

Its second part proves `HSpec => []AnsweredKeyIsKept` and
`HSpec => NothingDropped` from the assumptions of `NvLog`. The invariant `HInv`
says why an item is there at each state of it (ItemsInPhase), so that one of
the log that can be evicted was consumed; that whoever consumes an item has
saved its value or replaced it (ConsumedHaveFate, FlushersStore); and that a key
that was answered can be read, is stored, or is owed by a worker about to write
it (KeyIsKept). LogHoldsNewest, OnlyCompleteItemsClaimed and GetAfterSetFinds are
proved under `OneWorker`, for any number of keys, values and slots: with two
workers they are false, which `clients_lost_get` shows for the last. Their
invariant `ClientInv` is that an item is written with nobody else at the key
(WrittenAlone, ClearedFirst, MarksLast), so that a key has one live item
(OneLive), the newest value (LiveIsNewest), and that the newest value is live or
stored until the maintenance thread has moved it (KnownHasNewest, PromiseKept,
MaintFlushes). Both have one lemma per action; `KeepStep`, `BitsChange` and
`MoveStep` treat the steps that do the same to items.

`NvRingProofs` proves, for every size of the buffer, of a header and of the items,
`Spec => []` of TypeOK, NoOverlap, HeadersChain, AccountingExact and NextOnItem, and
`Spec => ImplementsQueue`, from `SizesAssumption` alone: a header is smaller than the
buffer and no item larger. NoOverlap is not inductive: that a new item meets no old
one needs that capacity is right, and that capacity is right after an invalidation
needs to know where the next item lies. The invariant `RInv` counts offsets on from
the oldest item past the end of the buffer (Along): seen so, the items and tail are
in ascending order, each item ends before the next one begins, and capacity is what
is left until the oldest item comes round again (InLine). An allocation puts its
item behind tail and the gap (`PlaceArithmetic`); freeing the oldest item starts the
counting at the next one, which shifts every item alike (`FreeArithmetic`). The rest
of `RInv` says that each item has its header and no other bytes pass for an item in
use (Headed), and where head, the walk and next are (Pointed). AccountingExact counts
bytes as a set, the union of the footprints: an item of `Total` bytes has as many
offsets, wrapped or not (`FootprintCount`), the footprints are disjoint, and there is
at most one skipped gap, because after a gap an item starts at offset 0 (`OneGap`).
The limit is that of the model: after the step that sets `lost` (a lock holder past
the last item) only a `find` under way goes on.

`DatabaseProofs` proves, for every number of workers, keys, datagrams and log
places, `Spec => []TypeOK` and `Spec => ImplementsQueue`, from
`ThreadsAssumption`, `BoundsAssumption` and `MessagesAssumption`. A thread that
writes an item out knows it by its id only, while other threads append, consume
and free items around it. The invariant therefore adds ItemsOwned: ids are
unique, every thread between its claim and its consume has a busy item behind
`next`, and no two threads the same. Then the item is still in the log
(`MineIsMine`), Store and CacheStored stutter, Consume is the queue's `Release`,
and Invalidate its `Leave`: a prefix of released items, none of them owned.

It also proves `Spec => []CacheAgrees` from the same assumptions.
No lock spans SSD and cache, so two write-outs of a key, or a write-out and a
fill, reach the cache in any order. The invariant `CacheInv` says that every
item of the cache, and every version a thread carries there, was stored under
that version before (Contents, InMotion; the SSD only grows, so it stays true);
that a key has at most one usable item; that the newest version of a key has
been in the cache or a thread carries it there (NewestComes); and that, while
nothing stale was cached, the usable item is the newest that ever was
(UsableIsNewest). With nothing of the key under way the last two give the
version of the SSD, and Contents the value. NewestComes needs ItemsOwned: the
thread that carries a version finds the key of its item in the log again.

Then it proves `Spec => []GetIsFresh`, the promise of the whole server to its
clients. The invariant `FreshInv` follows the newest value of each
key (Somewhere): it is in a live item of the log, or a SET of the key is between
its two steps, or it is settled, which means that a version with this value or a
later one is on the SSD and has been in the cache. A thread consumes an item
only when its value is settled (Brings), and settled stays settled, because SSD
and `cachedMost` only grow. A GET that finds nothing in the log then relies on
its promise being settled (GetOnTheWay): the usable item of the cache is the
newest version that ever was there (`CacheInv`), versions are in the order of
their values (StoredInOrder), so neither cache nor SSD has anything older. Each
window of `harm` is used once: `twice` for LiveIsNewest, `order` for
StoredInOrder, `gap` for the GET that finds nothing, `stale` for the cache. For
values that the log answers with, LiveIsNewest says that a live item has the
newest value of its key.

`SsdTableProofs` proves `Spec => []` of TypeOK, PagesKept and WritersExact, for
every finite set of threads, every number of pages and every size of record, from
`SizesAssumption`, `BoundsAssumption` and `NamesAssumption`. The count of
writers is reset by `get_new_page` without the page's lock and is read by
`write_out_all` without `ssd_free_pages.lock`, so neither lock alone keeps it
right. The invariant has, for each thread, what it has at each program point
(FieldsOf), which of the two locks (LocksOf), where it stands to the current page
(CurrentOf) and that a page about to be dressed or written out has no writers
(EmptyOf); and for each page that it counts its writers exactly, which none are
once it is written out (PageCounted). The argument: only the holder of
`ssd_free_pages.lock` places a chunk on the current page or replaces it, so
writers join nowhere else; joining also takes the page's lock, which whoever
judges the page holds until it is written out. The one case the locks do not
settle is a thread that found its page current, and was overtaken before it tried
`ssd_free_pages.lock`: then somebody has used the page up and still writes to it,
so it has a writer and is not written out (last part of CurrentOf). A thread
may try a page that was written out under it and is in its next use (`Watched` has
what is still known of a page on somebody's array): if it writes that out, it does so
under the page's lock and with no writers, as anybody would. There is one
lemma per action (`...Keeps`); the steps that leave every page's writers alone go
through `QuietStep`, joining and leaving through `WriterJoins` and `WriterLeaves`.

`RamCacheProofs` proves `Spec => []TypeOK` of the RAM cache, for every finite set
of threads, and every number of keys, buckets and blocks, from the assumptions
that `RamCache` names. TypeOK says that no pointer leaves the log, and that the count
of free blocks does not wrap below zero, and that takes the whole protocol. The second
holds under `FewThreads`: no more threads than EVICT_POINT, which is 10
(ram_cache.h:51). Nothing in the code limits the lcores to that, and with more of them
the count may wrap (see *Disagreements*), so `num_free_blocks` is an integer in the
model, a negative one standing for a `size_t` that has wrapped, far above EVICT_POINT
(`Short`). All the other theorems about the cache hold for more threads, too. The
invariant `TInv` has, for each
place of a thread, which pointers are not NULL (PointersOf), which locks it holds
(LocksOf), what its amounts can be (AmountsOf), and that the count of free blocks
covers the threads about to take one if they are few (CountCovers): a thread joins those
when it has read a count of EVICT_POINT or more, which is enough for every thread there
is, or after it has evicted and added what it freed. TInv excepts nothing.

`RamCacheUseProofs` proves `Spec => []BlocksOnce` and `Spec => []UseIsExclusive`.
The lock of an item is taken by a trylock from three sides (get under the barrier,
set under the bucket's lock, evict under the evictor's), and released by whoever
leaves last. The invariant `UInv` says what state and lock an item must have for
each thread that uses it (UserOf), that an item is locked only then (ItemUse), that
its readers are counted, that an item not yet linked is its maker's alone
(FreshOf) and where each block is (Placed). It holds while no thread has worked on
the locks of an evicted block (`Calm`): the theorems are about
`TInv /\ (Calm => UInv)`, and `Watch` says at each step whether the thread was led
astray (NotAstray). `OthersKeep` shows once that nothing a thread does to an item that is
its own is seen by the others; then there is one lemma per action.

`RamCacheListProofs` proves `Spec => []ChainsIntact`, `Spec => []OneItemPerKey` and
`Spec => []FreeCount`.
That the neighbours of an item point back at it is not inductive: to take out an
item, one must know that the chain has no second way to it. The invariant `CInv`
says that the items of each chain can be numbered so that `next` goes to the next
number and the head has the least (ChainsLaidOut). An insertion at the head
moves every number up by one and gives the new item 0. For OneItemPerKey the numbering also says how far a set has come:
every item of its key is still ahead of it, or being evicted, or was left locked
(Ahead), and when it has come to the end it has missed none (MissedNone). That an
item stays ahead uses that only the holder of the bucket's lock inserts, and that
no walk was cut off by an eviction.

The first half of FreeCount, under `FewThreads`, is in `TInv`. The second half holds for
any number of threads, and says something as long as the count has not wrapped. Blocks reach the free
list before they are counted, and how many are counted is what the size of an item
said when it was evicted or cut down. The invariant `NInv` says that this size never
promises more blocks than the item has, though it is set to one before an item is
cut down and to its full size after the fragments are linked (SizesHold), and that
the count together with what evictors and givers-back have yet to add to it is at
most the length of the list (Covered). The sum over the threads is the cardinality
of a set of pairs, a thread and a number up to what it owes (Uncounted). It holds as
long as no release has read a size that was not its own (Exact).

`SegmentLogProofs` proves `Spec => []` of SegmentsOnce, RefsExact and
TableHoldsNewest of the first engine, for every finite set of workers, every number of
keys, buckets, slots, segments and requests, and every size of segment and item, from
`SizesAssumption`, `BoundsAssumption` (two segments for each worker, as
`ialloc_init_allocator` takes them) and `NamesAssumption`. TypeOK is proved while
`Calm`, that is until `segment_alloc` has dropped a lock that another thread held
(ialloc.c:103): from there on two threads can be in the critical section, and the code
promises nothing. The theorem behind all four is `Spec => [](Calm => IInv)`, for a step
never makes the code calm again (`CalmBefore`). Only RefsExact and TableHoldsNewest
except the scan of a segment given back (ialloc.c:404) in their statements. `IInv`
holds through it as well, since such a scan refers to live items only.

SegmentsOnce is not inductive: what a list holds follows from `next` pointers that the
maintenance thread rewrites while workers append, pop and push. LaidOut says that each
segment can be given a place (`home`) and a number (`pos`) so that the free list and
each worker's chain run through the segments of their place in ascending order
(ListIn), that the last of a chain is the worker's current one, that reserves and
segments in hand are where the code has them (Held), that the walk of
`ialloc_maintenance` is at a segment of the chain with its predecessor right before it
(Walked), and that what is out of service holds nothing (Vacant). Six lemmas say how a
list changes (`ListPop`, `ListRemove`, `ListPush`, `ListAppend`, `ListStays`,
`ListIsFrom`), and each step that moves a segment uses them to give the new `home` and
`pos`. An item taken out by the walk is not the current one, because its `next` is not
NULL.

RefsExact needs both sides of a count. MemOK says of each segment that its headers lie
apart, that what is live lies below `offset`, and that `freed` and the bytes that live
items cover add up to `offset`; the lemmas `Tidy...` say what writing an item, closing
a full segment, taking a fresh one and counting do to that. CountsOK says that the
count in a header equals the number of places that refer to it, in slots, overflow
chains, cleanup queues and workers. It is an equality of cardinalities over all items,
so each step is shown to add and remove the same references on both sides (`SlotCount`,
`AppendCount`, `WorkerCount` and their like). The two sides meet in `Vacant`: a segment goes
to the free list when `freed` is its size, so nothing live covers it, and so nobody
refers to an item of it. That makes writing over it harmless (`ItemsWrite`).

For TableHoldsNewest, Newest says of each bucket that its slots and its overflow chain
have every key at most once and that a linked item has the value SET last; NewOK that an
item about to be linked is linked nowhere and is no other worker's; CopyOK that a copy
has the key and value of its original. A copy is linked only in place of its original
(`cas_it`, hashtable.c:143), and the original, which its maker still refers to, cannot
have been written over: so what is linked has the newest value. There is one lemma per
action; the four outcomes of `hasht_put` have one each.

Only model-checked: the refinement of `VersionStore` (what is
read back is a recursive function of the SSD, and needs induction over the chunks),
TypeOK of `SegmentLog` in the states that the run reaches after the lock has failed, and
liveness, which the prover does
not cover.

## Disagreements between code and documentation

* `log_stuck`: a SET that overwrites an item whose value is still being written,
  or a flush of such an item, leaves it CONSUMED and WAITING, which nothing
  ever evicts (NVDIMM.c:193, 123). `SomeSetGetsRoom` is the guarantee that
  remains: there is room unless such an item is in the log.
* `clients_lost_get`: the old item is consumed before the new one exists
  (NVDIMM.c:193), so a GET of another client misses the key.
* `ring_exit`: find, claim and invalidate normalise an end in the gap to the
  start of the buffer, allocate leaves tail in the gap (NVDIMM.c:389, 536, 724).
  The process exits when the last item is claimed; with head at the start, next
  falls on a claimed item and a find of an absent key does not end.

* `ram_walk`: `cache_ht_get` reads `entry->it` before it takes the barrier
  (ram_ht.c:162, 167) and drops the barrier with `it->next` in hand (ram_ht.c:239).
  An eviction in between clears the block by `memset`, so the walk goes on from a
  free block or from another bucket's item. The comment at ram_ht.c:254-255 says
  that `it->next` still leads to the next item.

Met while modelling, and without a run of their own:

* an item being written can be claimed when a reader's bit is set as well
  (NVDIMM.c:688 compares exactly), so two clients can make a torn value reach the
  SSD; an allocation between the two conditions of NVDIMM.c:742 makes the check
  fail;
* two flushers can store two values of a key in the wrong order (NVDIMM.c:765), and
  a fill can cache a version older than one evicted before (database.c:25): the
  windows `order` and `stale` of `Database`;
* `cache_ht_set` with an older version leaves the item's lock behind (ram_ht.c:474):
  `leaked` in `RamCache`, `stuck` in `Database`;
* a release after an overwrite reads the size of a block it gave back already
  (ram_ht.c:1283): the window `count`;
* `segment_alloc` unlocks a lock it has not taken (ialloc.c:103), and a scan goes on
  in a segment given back (ialloc.c:404): the windows of `SegmentLog`;
* `getFree` checks the count of free blocks in one section (ram_ht.c:1013-1022) and
  takes a block in another (ram_ht.c:1045-1076). With more lcores than EVICT_POINT (10,
  ram_cache.h:51) more of them can pass the check than there are blocks; the list is
  then followed beyond its end (ram_ht.c:1065), and the count, a `size_t`, wraps,
  after which nobody evicts. The premise `FewThreads` of FreeCount excepts it;
* two lcores in `write_out_all` with one old current page on their arrays can
  defeat each other's trylocks for ever (ssd_ht.c:812-823, 860): the premise of
  SetReturns;
* a thread still has on its array a page that was written out and is in its next use:
  it may judge and write out the page for its new writers, even before `writers` and
  `consumed` have been reset (ssd_ht.c:1109-1122), which costs a page number and no
  data;
* a server with three page buffers for two threads would stop in `get_new_page`; the
  code's number of pages excludes it, up to 256 (tail is a `uint8_t`).

## Plan

Done: everything above. What would come next is the proof that the SSD table refines
`VersionStore`, for a table whose chains are given as sets.

## Not modelled

* Packets and sockets: building of responses, DPDK, latency statistics, whose
  arrays have four entries whatever the number of lcores (main.c:495). `Database`
  has the checks that drop a datagram.
* `hashes[]` of `packet_loop`, which is passed to the log and never assigned
  (main.c:266): the modules take a key and its hash together, and promise nothing
  for a hash that changes between two requests.
* `cache_flush`: database.c:39 calls it only when NVD_ON is off, and global.h:30-32
  sets it.
* Functions of `ssd_ht.c` nobody calls: `ssd_read_key`, `clear_buffer`,
  `buff_too_close`, `write_out_all_with_lock`, `ssd_delete`; and the end of the
  process in `getFreeLogSlot` when the `ssd_items` run out (ssd_ht.c:752).
* Failures of the operating system in `segment_alloc` of the first engine: when
  `mprotect` or `malloc` fails after `seg_alloced` was counted up (ialloc.c:121-133),
  it returns NULL and that segment is lost. In `SegmentLog` both succeed.
* `settings.c`, `global.c` and the log and test macros; `jenkins_hash.c`, a pure
  mixing function; mmap and msync.
* The testers, read for what they expect, and the superseded copies
  (`main_combined.c`, `ssd_ht_old*.c`, `old/ialloc.c`, `old/hashtable.c`,
  `old/ram_ht*.c`), earlier versions of what is modelled.
* Crashes and recovery: the program has no recovery code, so the volatile and
  persistent parts are not told apart.
