------------------------------- MODULE SsdTable -------------------------------
(***************************************************************************)
(* The SSD table of ssd_ht.c: a hash table of items that say where on the  *)
(* SSD a record starts, and a ring of page buffers through which records   *)
(* are appended.  Several threads append to the current page; a page is    *)
(* written out once, by whichever of its writers finds that nobody writes  *)
(* to it any more and that it is full or old; a set returns when every     *)
(* page it wrote to has been written out.                                  *)
(*                                                                         *)
(* Every lock is kept: a bucket's lock for a whole operation,              *)
(* ssd_free_pages.lock while a writer takes its place on the current page, *)
(* a page's lock while writers, consumed or the timestamp change and while *)
(* the page is written out.  get_new_page dresses a page without that      *)
(* lock.                                                                   *)
(*                                                                         *)
(* Abstractions.  Sizes are counted in units.  A chunk of a record on a    *)
(* page stands for its header and its bytes: the value it belongs to, how  *)
(* much of it, and where the next chunk is.  A value is its version.  Two  *)
(* keys with one hash are told apart by their bytes, so a key stands for   *)
(* both.  A round of write_out_all tries the pages on a thread's array in  *)
(* any order, and a page that is on it twice is tried once.                *)
(***************************************************************************)
EXTENDS Integers, FiniteSets, Sequences

CONSTANTS Threads, Keys,
          Bucket,         \* Bucket[k] is hv % ssd_num_ht_entries of key k
          NumPages,       \* page_buf_size, at most 256: tail is a uint8_t
          PAGES_PER_CORE,
          PageSize,       \* SSD_PAGE_SIZE
          HeaderSize,     \* sizeof(struct ssd_header)
          MinEntry,       \* SSD_MIN_ENTRY_SIZE
          Sizes,          \* sizes of key and value together
          MaxSets,        \* bound: sets started in a behaviour
          Nobody, NoKey

ASSUME SizesAssumption ==
    /\ PageSize \in Nat /\ HeaderSize \in Nat /\ MinEntry \in Nat
    /\ HeaderSize < MinEntry /\ HeaderSize + MinEntry < PageSize
    /\ Sizes \subseteq Nat \ {0}
ASSUME BoundsAssumption ==
    /\ NumPages \in Nat \ {0} /\ PAGES_PER_CORE \in Nat \ {0, 1}
    /\ MaxSets \in Nat
ASSUME NamesAssumption ==
    /\ IsFiniteSet(Threads) /\ Nobody \notin Threads /\ NoKey \notin Keys
    /\ Bucket \in [Keys -> Nat]

Pages == 0 .. NumPages - 1
NoPage == -1
NoVersion == -1
Buckets == {Bucket[k] : k \in Keys}

VARIABLES
    entryLock,      \* owner of each bucket's lock
    item,           \* the ssd_item of each key: version, size, place
    page,           \* free_page_header of each page buffer
    buffer,         \* the chunks in each page buffer
    pageLock,       \* owner of each page's lock
    ssd,            \* the chunks on each page of the SSD
    cur_page, page_num, offset, freeLock,   \* ssd_free_pages
    tail,           \* page_buffer.tail
    th,             \* where each thread is
    sets            \* sets started

place == <<cur_page, page_num, offset, freeLock>>
vars == <<entryLock, item, page, buffer, pageLock, ssd, place, tail, th, sets>>

NoItem == [ver |-> NoVersion, size |-> 0, first_page |-> NoPage, offset |-> 0]

\* struct free_page_header; recent: less than TIMEOUT since the timestamp.
PageHeader == [num : Nat, recent : BOOLEAN, written_out : BOOLEAN,
               writers : Int, consumed : BOOLEAN]

\* A chunk: where it starts, the key and version it is of, its size, next.
Chunk == [at : Nat, key : Keys, ver : Nat, size : Nat,
          next : Int, noff : Nat]

(* A thread in ssd_write: the pages it is responsible for (to_write_out),  *)
(* the chunk it wrote last and the one it is placing, what is left of the  *)
(* record, the pages this round of write_out_all has yet to try and how    *)
(* many it started from, the page it tries and which locks it got for it,  *)
(* and for swap_current_page the new page and where to go on.              *)
NoChunk == [page |-> NoPage, num |-> 0, at |-> 0, room |-> 0]
Idle == [pc |-> "idle", key |-> NoKey, totsize |-> 0, old |-> NoChunk,
         cur |-> NoChunk, mine |-> {}, owed |-> 0, round |-> {},
         try |-> NoPage, headLock |-> FALSE, gotFree |-> FALSE,
         back |-> "idle", new |-> NoPage, then |-> "idle"]

At(t, label) == th[t].pc = label
Goto(t, label) == th' = [th EXCEPT ![t].pc = label]
NewVersion(t) == item[th[t].key].ver + 1

\* Chunks of a page that replace the one at the same offset.
With(chunks, c) == {d \in chunks : d.at # c.at} \cup {c}
-----------------------------------------------------------------------------
(* The table. *)

\* ssd_overwrite and ssd_write_entry: an item that exists loses its place
\* (first_page = -1); a new one is not in the chain yet.
Displaced(k, s) == [item[k] EXCEPT !.size = s, !.first_page = NoPage]

\* ssd_ht_set: under the bucket's lock, to the end.
BeginSet(t, k, s) ==
    /\ At(t, "idle") /\ sets < MaxSets
    /\ entryLock[Bucket[k]] = Nobody
    /\ entryLock' = [entryLock EXCEPT ![Bucket[k]] = t]
    /\ item' = [item EXCEPT ![k] = Displaced(k, s)]
    /\ th' = [th EXCEPT ![t] = [Idle EXCEPT !.pc = "page", !.key = k,
                                   !.totsize = s]]
    /\ sets' = sets + 1
    /\ UNCHANGED <<page, buffer, pageLock, ssd, place, tail>>

\* The version is counted up, the bucket unlocked, the version returned.
EndSet(t) ==
    /\ At(t, "drain") /\ th[t].mine = {}
    /\ item' = [item EXCEPT ![th[t].key].ver = @ + 1]
    /\ entryLock' = [entryLock EXCEPT ![Bucket[th[t].key]] = Nobody]
    /\ th' = [th EXCEPT ![t] = Idle]
    /\ UNCHANGED <<page, buffer, pageLock, ssd, place, tail, sets>>
-----------------------------------------------------------------------------
(* swap_current_page and get_new_page, under ssd_free_pages.lock. *)

\* The next page of the ring, from tail on, that has been written out.
Ahead(p) == (p - tail + NumPages) % NumPages
NextFreePage(p) ==
    /\ page[p].written_out
    /\ \A q \in Pages : page[q].written_out => Ahead(p) <= Ahead(q)

\* swap_current_page: the place on the page to come.
NextPlace == offset' = 0 /\ page_num' = page_num + 1

\* Slip: the ring is not searched for a page that has been written out.
TakeAnyPage(t) ==
    /\ At(t, "swap")
    /\ NextPlace
    /\ tail' = (tail + 1) % NumPages
    /\ page' = [page EXCEPT ![tail].num = page_num + 1, ![tail].recent = TRUE,
                            ![tail].written_out = FALSE]
    /\ th' = [th EXCEPT ![t] = [@ EXCEPT !.pc = "dress", !.new = tail]]
    /\ UNCHANGED <<entryLock, item, buffer, pageLock, ssd, cur_page, freeLock,
                   sets>>

\* A page still being written out to the SSD is not taken: get_new_page
\* spins.  num, timestamp and written_out are set ...
TakePage(t) ==
    /\ At(t, "swap")
    /\ NextPlace
    /\ \E p \in Pages :
          /\ NextFreePage(p)
          /\ tail' = (p + 1) % NumPages
          /\ page' = [page EXCEPT ![p].num = page_num + 1, ![p].recent = TRUE,
                                  ![p].written_out = FALSE]
          /\ th' = [th EXCEPT ![t] = [@ EXCEPT !.pc = "dress", !.new = p]]
    /\ UNCHANGED <<entryLock, item, buffer, pageLock, ssd, cur_page, freeLock,
                   sets>>

\* ... before writers and consumed, and without the page's lock.
DressPage(t) ==
    /\ At(t, "dress")
    /\ page' = [page EXCEPT ![th[t].new].writers = 0,
                            ![th[t].new].consumed = FALSE]
    /\ cur_page' = th[t].new
    /\ th' = [th EXCEPT ![t] = [@ EXCEPT !.pc = th[t].then, !.new = NoPage]]
    /\ UNCHANGED <<entryLock, item, buffer, pageLock, ssd, page_num, offset,
                   freeLock, tail, sets>>
-----------------------------------------------------------------------------
(* ssd_write: taking a place on the current page. *)

LockFreePages(t) ==
    /\ At(t, "page") /\ freeLock = Nobody
    /\ freeLock' = t
    /\ Goto(t, "join")
    /\ UNCHANGED <<entryLock, item, page, buffer, pageLock, ssd, cur_page,
                   page_num, offset, tail, sets>>

\* Slip: a writer joins a page that has been written out.
JoinAnyPage(t) ==
    /\ At(t, "join") /\ pageLock[cur_page] = Nobody
    /\ page' = [page EXCEPT ![cur_page].writers = @ + 1]
    /\ Goto(t, "place")
    /\ UNCHANGED <<entryLock, item, buffer, pageLock, ssd, place, tail, sets>>

JoinPage(t) ==
    /\ At(t, "join") /\ pageLock[cur_page] = Nobody
    /\ IF page[cur_page].written_out
       THEN /\ th' = [th EXCEPT ![t] = [@ EXCEPT !.pc = "swap",
                                                 !.then = "again"]]
            /\ UNCHANGED page
       ELSE /\ page' = [page EXCEPT ![cur_page].writers = @ + 1]
            /\ Goto(t, "place")
    /\ UNCHANGED <<entryLock, item, buffer, pageLock, ssd, place, tail, sets>>

Again(t) ==
    /\ At(t, "again")
    /\ freeLock' = Nobody
    /\ Goto(t, "page")
    /\ UNCHANGED <<entryLock, item, page, buffer, pageLock, ssd, cur_page,
                   page_num, offset, tail, sets>>

\* What is left on the current page behind a new chunk's header.
Rest == PageSize - offset - HeaderSize

\* Slip: a page is used up only when the record does not fit.
UsesUpPageIfTooBig(s) == s > Rest

UsesUpPage(s) == s > Rest \/ Rest - s < MinEntry

\* Where the next chunk goes; the page is used up, or offset moves on.
PlaceChunk(t) ==
    LET s == th[t].totsize
        k == th[t].key
    IN  /\ At(t, "place")
        /\ item' = IF item[k].first_page = NoPage
                   THEN [item EXCEPT ![k].first_page = page_num,
                                     ![k].offset = offset]
                   ELSE item
        /\ page' = [page EXCEPT ![cur_page].consumed = @ \/ UsesUpPage(s)]
        /\ offset' = IF UsesUpPage(s) THEN offset ELSE offset + s + HeaderSize
        /\ th' = [th EXCEPT ![t] =
              [@ EXCEPT !.pc = IF UsesUpPage(s) THEN "swap" ELSE "link",
                        !.then = "link",
                        !.cur = [page |-> cur_page, num |-> page_num,
                                 at |-> offset, room |-> Rest]]]
        /\ UNCHANGED <<entryLock, buffer, pageLock, ssd, cur_page, page_num,
                       freeLock, tail, sets>>

\* The previous chunk learns where the record goes on, and its page loses a
\* writer.  With the array of pages full, one is written out first.
LinkChunk(t) ==
    LET o == th[t].old
        c == th[t].cur
    IN  /\ At(t, "link")
        /\ IF o.page = NoPage THEN UNCHANGED <<buffer, page>>
           ELSE /\ pageLock[o.page] = Nobody
                /\ buffer' = [buffer EXCEPT ![o.page] =
                      {IF d.at = o.at THEN [d EXCEPT !.next = c.num, !.noff = c.at]
                       ELSE d : d \in @}]
                /\ page' = [page EXCEPT ![o.page].writers = @ - 1]
        /\ freeLock' = Nobody
        /\ th' = [th EXCEPT ![t] =
              [@ EXCEPT !.owed = Cardinality(th[t].mine), !.old = NoChunk,
                        !.round = th[t].mine,
                        !.pc = IF Cardinality(th[t].mine) >= PAGES_PER_CORE - 1
                               THEN "purge" ELSE "write"]]
        /\ UNCHANGED <<entryLock, item, pageLock, ssd, cur_page, page_num,
                       offset, tail, sets>>

\* Header and bytes; the timestamp is set under the page's lock.
WriteChunk(t) ==
    LET c == th[t].cur
        n == IF th[t].totsize > c.room THEN c.room ELSE th[t].totsize
        chunk == [at |-> c.at, key |-> th[t].key, ver |-> NewVersion(t),
                  size |-> n, next |-> NoPage, noff |-> 0]
    IN  /\ At(t, "write") /\ pageLock[c.page] = Nobody
        /\ buffer' = [buffer EXCEPT ![c.page] = With(@, chunk)]
        /\ page' = [page EXCEPT ![c.page].recent = TRUE]
        /\ th' = [th EXCEPT ![t] =
              [@ EXCEPT !.mine = th[t].mine \cup {c.page}, !.old = c,
                        !.cur = NoChunk, !.totsize = th[t].totsize - n,
                        !.pc = IF th[t].totsize > n THEN "page" ELSE "leave"]]
        /\ UNCHANGED <<entryLock, item, pageLock, ssd, place, tail, sets>>

LeavePage(t) ==
    LET p == th[t].old.page
    IN  /\ At(t, "leave") /\ pageLock[p] = Nobody
        /\ page' = [page EXCEPT ![p].writers = @ - 1]
        /\ th' = [th EXCEPT ![t] = [@ EXCEPT !.pc = "drain", !.old = NoChunk,
                                           !.round = th[t].mine]]
        /\ UNCHANGED <<entryLock, item, buffer, pageLock, ssd, place, tail, sets>>
-----------------------------------------------------------------------------
(* write_out_all: once to make room in the array (purge), and from         *)
(* forced_write_out_all until nothing is left (drain).  Both locks of a    *)
(* page are only tried, and each whether or not the other was got.         *)

Scanning(t) == th[t].pc \in {"purge", "drain"}

\* A round that got rid of a page is enough for purge.
EndPurge(t) ==
    /\ At(t, "purge") /\ th[t].round = {} /\ Cardinality(th[t].mine) < th[t].owed
    /\ Goto(t, "write")
    /\ UNCHANGED <<entryLock, item, page, buffer, pageLock, ssd, place, tail, sets>>

\* A round that got rid of none is repeated at once; drain goes on in any
\* case, after a sleep if one got off the array.
NextRound(t) ==
    /\ Scanning(t) /\ th[t].round = {} /\ th[t].mine # {}
    /\ At(t, "purge") => Cardinality(th[t].mine) >= th[t].owed
    /\ th' = [th EXCEPT ![t].round = th[t].mine]
    /\ UNCHANGED <<entryLock, item, page, buffer, pageLock, ssd, place, tail, sets>>

TryPage(t) ==
    /\ Scanning(t)
    /\ \E p \in th[t].round :
          /\ pageLock' = [pageLock EXCEPT ![p] = IF @ = Nobody THEN t ELSE @]
          /\ th' = [th EXCEPT ![t] =
                [@ EXCEPT !.pc = "current", !.round = th[t].round \ {p}, !.try = p,
                          !.headLock = pageLock[p] = Nobody, !.back = th[t].pc]]
    /\ UNCHANGED <<entryLock, item, page, buffer, ssd, place, tail, sets>>

\* gotLock: a thread without it goes to "pass".
CheckCurrent(t) ==
    /\ At(t, "current")
    /\ Goto(t, IF cur_page = th[t].try THEN "try_free"
               ELSE IF th[t].headLock THEN "judge" ELSE "pass")
    /\ UNCHANGED <<entryLock, item, page, buffer, pageLock, ssd, place, tail, sets>>

\* The current page is replaced before it is written out, which takes
\* ssd_free_pages.lock; it is only tried, as its holder may want the page's.
TryFreePages(t) ==
    LET got == freeLock = Nobody
    IN  /\ At(t, "try_free")
        /\ freeLock' = IF got THEN t ELSE freeLock
        /\ th' = [th EXCEPT ![t] =
              [@ EXCEPT !.gotFree = got,
                        !.pc = IF got /\ th[t].headLock THEN "judge" ELSE "pass"]]
        /\ UNCHANGED <<entryLock, item, page, buffer, pageLock, ssd, cur_page,
                       page_num, offset, tail, sets>>

\* The page tried is let go, and is kept on the array or not.
Release(t) ==
    /\ pageLock' = IF th[t].headLock
                   THEN [pageLock EXCEPT ![th[t].try] = Nobody] ELSE pageLock
    /\ freeLock' = IF th[t].gotFree THEN Nobody ELSE freeLock

Kept(t) == [th[t] EXCEPT !.pc = th[t].back, !.try = NoPage, !.headLock = FALSE,
                         !.gotFree = FALSE]
Forgotten(t) == [Kept(t) EXCEPT !.mine = th[t].mine \ {th[t].try}]

\* Slip: writers that are still there are not waited for.
CanWriteOutAnyhow(p) == page[p].consumed \/ ~page[p].recent

\* Slip: only a full page is written out, however old.
CanWriteOutFull(p) == page[p].writers <= 0 /\ page[p].consumed

CanWriteOut(p) ==
    page[p].writers <= 0 /\ (page[p].consumed \/ ~page[p].recent)

\* A page that another writer has written out is taken off the array,
\* whatever locks were got; it may be in its next use by now.
Judge(t) ==
    LET p == th[t].try
    IN  /\ th[t].pc \in {"judge", "pass"}
        /\ IF At(t, "judge") /\ ~page[p].written_out /\ CanWriteOut(p)
           THEN /\ th' = [th EXCEPT ![t] =
                     [@ EXCEPT !.pc = IF th[t].gotFree THEN "swap" ELSE "flush",
                               !.then = "flush"]]
                /\ UNCHANGED <<pageLock, freeLock>>
           ELSE /\ Release(t)
                /\ th' = [th EXCEPT ![t] = IF page[p].written_out
                                           THEN Forgotten(t) ELSE Kept(t)]
        /\ UNCHANGED <<entryLock, item, page, buffer, ssd, cur_page, page_num,
                       offset, tail, sets>>

\* write_out: the page's bytes are on the SSD and the page may be reused.
WriteOut(t) ==
    LET p == th[t].try
        n == page[p].num
    IN  /\ At(t, "flush")
        /\ ssd' = {c \in ssd : c.num # n}
                  \cup {[num |-> n, chunk |-> c] : c \in buffer[p]}
        /\ page' = [page EXCEPT ![p].written_out = TRUE]
        /\ Release(t)
        /\ th' = [th EXCEPT ![t] = Forgotten(t)]
        /\ UNCHANGED <<entryLock, item, buffer, cur_page, page_num, offset, tail,
                       sets>>

\* TIMEOUT seconds have gone by since the page's timestamp, which matters
\* as long as the page is not consumed.
Elapse(p) ==
    /\ page[p].recent /\ ~page[p].written_out /\ ~page[p].consumed
    /\ page' = [page EXCEPT ![p].recent = FALSE]
    /\ UNCHANGED <<entryLock, item, buffer, pageLock, ssd, place, tail, th, sets>>
-----------------------------------------------------------------------------
\* swap_current_page has made page 0 current.
Init ==
    /\ entryLock = [b \in Buckets |-> Nobody]
    /\ item = [k \in Keys |-> NoItem]
    /\ page = [p \in Pages |-> [num |-> IF p = 0 THEN 1 ELSE 0,
                                recent |-> p = 0, written_out |-> p # 0,
                                writers |-> 0, consumed |-> FALSE]]
    /\ buffer = [p \in Pages |-> {}]
    /\ pageLock = [p \in Pages |-> Nobody]
    /\ ssd = {}
    /\ cur_page = 0 /\ page_num = 1 /\ offset = 0 /\ freeLock = Nobody
    /\ tail = 1 % NumPages
    /\ th = [t \in Threads |-> Idle]
    /\ sets = 0

WriteStep(t) ==
    \/ LockFreePages(t) \/ JoinPage(t) \/ Again(t) \/ TakePage(t)
    \/ DressPage(t) \/ PlaceChunk(t) \/ LinkChunk(t) \/ WriteChunk(t)
    \/ LeavePage(t) \/ EndSet(t)

WriteOutStep(t) ==
    \/ EndPurge(t) \/ NextRound(t) \/ TryPage(t) \/ CheckCurrent(t)
    \/ TryFreePages(t) \/ Judge(t) \/ WriteOut(t)

Step(t) == WriteStep(t) \/ WriteOutStep(t)

Next ==
    \/ \E t \in Threads : Step(t) \/ \E k \in Keys, s \in Sizes : BeginSet(t, k, s)
    \/ \E p \in Pages : Elapse(p)

Spec == Init /\ [][Next]_vars

\* A step that waits for a spinlock and gets it.
TakesLock(t) ==
    LockFreePages(t) \/ JoinPage(t) \/ LinkChunk(t) \/ WriteChunk(t) \/ LeavePage(t)

(* Every lcore keeps running and time goes on.  A thread that waits for a  *)
(* spinlock gets it if the lock is free again and again.  Nothing is       *)
(* assumed of the locks that write_out_all only tries.                     *)
Fairness ==
    /\ \A t \in Threads : WF_vars(Step(t)) /\ SF_vars(TakesLock(t))
    /\ WF_vars(\E p \in Pages : Elapse(p))

FairSpec == Spec /\ Fairness
-----------------------------------------------------------------------------
(* Types. *)
TypeOK ==
    /\ entryLock \in [Buckets -> Threads \cup {Nobody}]
    /\ item \in [Keys -> [ver : Nat \cup {NoVersion}, size : Sizes \cup {0},
                          first_page : Nat \cup {NoPage}, offset : 0 .. PageSize]]
    /\ page \in [Pages -> PageHeader]
    /\ buffer \in [Pages -> SUBSET Chunk]
    /\ pageLock \in [Pages -> Threads \cup {Nobody}]
    /\ ssd \subseteq [num : Nat, chunk : Chunk]
    /\ cur_page \in Pages /\ page_num \in Nat /\ tail \in Pages
    /\ offset \in 0 .. PageSize - MinEntry
    /\ freeLock \in Threads \cup {Nobody}
    /\ sets \in 0 .. MaxSets

(* No page of the ring is lost: a page that has not been written out is    *)
(* the current one, about to become it, or some thread writes to it or has *)
(* it on its array and will see that it is written out.                    *)
PagesKept ==
    \A p \in Pages : ~page[p].written_out =>
        \/ p = cur_page
        \/ \E t \in Threads : p \in th[t].mine \cup {th[t].new, th[t].cur.page}

(* A page counts exactly the threads that are still to write to it or to   *)
(* link a chunk on it, and none of those is left when it is written out,   *)
(* although pages are taken from the ring without their locks.             *)
WritersOf(p) ==
    {t \in Threads : \/ p \in {th[t].cur.page, th[t].old.page}
                     \/ At(t, "place") /\ p = cur_page}

WritersExact ==
    /\ \A p \in Pages : ~page[p].written_out =>
          page[p].writers = Cardinality(WritersOf(p))
    /\ \A t \in Threads : At(t, "flush") => WritersOf(th[t].try) = {}
-----------------------------------------------------------------------------
(* ssd_read: the chunks from an item's place on, in the bytes of the SSD.  *)

Unreadable == -2

\* The version of the value that starts at <<num, at>> with n units to read.
ReadFrom[num \in Int, at \in Nat, n \in Nat, k \in Keys] ==
    LET found == {c \in ssd : c.num = num /\ c.chunk.at = at}
        c == (CHOOSE c \in found : TRUE).chunk
        more == ReadFrom[c.next, c.noff, n - c.size, k]
    IN  CASE found = {} \/ c.key # k -> Unreadable
          [] c.size >= n             -> c.ver
          [] OTHER                   -> IF more = c.ver THEN more ELSE Unreadable

ReadBack(k) == ReadFrom[item[k].first_page, item[k].offset, item[k].size, k]

(* What ssd_ht_get finds once it has the bucket's lock; while a set of the *)
(* key has it, what it found before.                                       *)
Stored(k) ==
    IF item[k].ver = NoVersion \/ \E t \in Threads : th[t].key = k
    THEN item[k].ver
    ELSE ReadBack(k)

(* The table is a store of versions: a set puts the next version of its    *)
(* key on the SSD, complete and where the item says, and no set, write-out *)
(* or reuse of a page buffer changes what is read of any other key.        *)
Store == INSTANCE VersionStore WITH stored <- [k \in Keys |-> Stored(k)]
ImplementsVersionStore == Store!Spec

(* A thread misses a lock of the page it tries because another thread is   *)
(* only trying, too, and may let go without writing anything out.          *)
OnlyTries(u) == th[u].pc \in {"current", "try_free", "judge", "pass"}

Collide(t) ==
    \/ TryPage(t) /\ ~th'[t].headLock
       /\ \E u \in Threads : pageLock[th'[t].try] = u /\ OnlyTries(u)
    \/ TryFreePages(t) /\ ~th'[t].gotFree
       /\ \E u \in Threads : freeLock = u /\ OnlyTries(u)

(* Every set returns, its pages written out in the end, unless two threads *)
(* in write_out_all make each other miss a lock again and again for ever:  *)
(* nothing but that keeps a page from being written out, and the ring has  *)
(* pages enough for all.                                                   *)
SetReturns ==
    <>[][\A t \in Threads : ~Collide(t)]_vars
        => \A t \in Threads : ~At(t, "idle") ~> At(t, "idle")
=============================================================================
