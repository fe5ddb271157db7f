------------------------------ MODULE SegmentLog ------------------------------
(***************************************************************************)
(* The first engine: items live in log segments (ialloc.c), counted by     *)
(* their references (iokvs.h) and found through a hash table               *)
(* (hashtable.c).  Each worker of old/main.c serves requests and appends   *)
(* items to a chain of segments of its own; the maintenance thread gives   *)
(* back segments whose items are all dead, and for a segment that is       *)
(* nearly dead it queues the rest to the worker, which copies what is      *)
(* still in use to the end of its chain.  A segment in reserve is for      *)
(* these copies alone.                                                     *)
(*                                                                         *)
(* A bucket's lock is held for a whole hash table operation, one action    *)
(* each.  segalloc_lock is taken and dropped in two steps, because one     *)
(* path drops it without having taken it.                                  *)
(*                                                                         *)
(* Abstractions.  A key stands for its bytes and its hash, a value for the *)
(* request that set it; the items of a key all have one size.  The cleanup *)
(* ring is a queue.  Memory of a segment is the set of item headers that   *)
(* are still in it, with those of its former use.  A scan that comes to    *)
(* bytes that are not a header ends the maintenance thread's part.         *)
(***************************************************************************)
EXTENDS Integers, FiniteSets, Sequences, FiniteSetsExt

CONSTANTS Workers, Keys,
          Size,          \* item_totalsz of the items of each key
          Bucket,        \* the bucket of each key
          NumSlots,      \* BUCKET_NITEMS
          SegMaxNum,     \* settings.segmaxnum
          SegSize,       \* settings.segsize
          HeaderSize,    \* sizeof(struct item)
          CqSize,        \* settings.segcqsize
          CleanMax,      \* items cleaned per request, 32 in the code
          MaxRequests,   \* bound: requests each worker receives
          Nobody, Maint, NoKey

ASSUME SizesAssumption ==
    /\ SegSize \in Nat /\ HeaderSize \in 1 .. SegSize
    /\ Size \in [Keys -> HeaderSize .. SegSize] /\ Bucket \in [Keys -> Nat]
ASSUME BoundsAssumption ==
    /\ NumSlots \in Nat \ {0} /\ CqSize \in Nat \ {0} /\ CleanMax \in Nat
    /\ IsFiniteSet(Workers) /\ IsFiniteSet({Bucket[k] : k \in Keys})
    /\ SegMaxNum \in Nat /\ SegMaxNum >= 2 * Cardinality(Workers)
    /\ MaxRequests \in [Workers -> Nat]
ASSUME NamesAssumption ==
    NoKey \notin Keys /\ {Nobody, Maint} \cap Workers = {} /\ Nobody # Maint

Segments == 1 .. SegMaxNum
NULL == 0
NoRef == <<NULL, 0>>
NoValue == <<Nobody, 0>>
Values == (Workers \X (Nat \ {0})) \cup {NoValue}
Refs == (Segments \X (0 .. SegSize - 1)) \cup {NoRef}
Buckets == {Bucket[k] : k \in Keys}
Slots == 1 .. NumSlots

VARIABLES
    seg,                \* the segment_header of each segment
    mem,                \* the item headers in each segment
    free_segments, seg_alloced, segLock,
    table,              \* the slots of each bucket and what overflowed
    ia,                 \* the item_allocator of each worker
    cq,                 \* its cleanup queue
    th,                 \* what each worker is doing
    mt,                 \* what the maintenance thread is doing
    received,           \* requests each worker has received
    newest,             \* history: value of the last SET of each key
    harm                \* history: what the two known hazards have led to

pool == <<free_segments, seg_alloced, segLock>>
vars == <<seg, mem, pool, table, ia, cq, th, mt, received, newest, harm>>

Header == [at : 0 .. SegSize - 1, key : Keys \cup {NoKey}, val : Values,
           size : 1 .. SegSize, refs : Nat]

\* Where a worker is; the first five are in segment_alloc.
Labels == {"seg", "pop", "popped", "more", "grow", "idle", "alloc", "install", "put",
           "release", "clean", "reserve", "copy", "abort"}
Thread == [pc : Labels, key : Keys \cup {NoKey}, val : Values, it : Refs, nit : Refs,
           h : Segments \cup {NULL}, then : {"idle", "install", "reserve"},
           cleanup : BOOLEAN, idle : BOOLEAN, count : Nat]

Idle == [pc |-> "idle", key |-> NoKey, val |-> NoValue, it |-> NoRef, nit |-> NoRef,
         h |-> NULL, then |-> "idle", cleanup |-> FALSE, idle |-> FALSE,
         count |-> 0]
Walker == [pc : {"start", "walk", "weigh", "push", "pushed", "scan", "astray"},
           w : Workers \cup {Nobody}, h : Segments \cup {NULL},
           prev : Segments \cup {NULL}, next : Segments \cup {NULL},
           cand : Segments \cup {NULL}, cand_freed : 0 .. SegSize]
Rest == [pc |-> "start", w |-> Nobody, h |-> NULL, prev |-> NULL, next |-> NULL,
         cand |-> NULL, cand_freed |-> 0]

At(w, label) == th[w].pc = label
\* What worker w is doing from now on.
Becomes(w, t) == th' = [th EXCEPT ![w] = t]
Goto(w, label) == Becomes(w, [th[w] EXCEPT !.pc = label])

ItemAt(r) == CHOOSE x \in mem[r[1]] : x.at = r[2]
RefsOf(r) == ItemAt(r).refs
KeyOf(r) == ItemAt(r).key
-----------------------------------------------------------------------------
(* item_ref, item_unref and ialloc_free. *)

\* Slip: memory is given back with every reference, not with the last.
FreedEachTime(s, down) ==
    IF down[1] = s THEN seg[s].freed + ItemAt(down).size ELSE seg[s].freed

\* What a segment's freed becomes when an item of it is unreferenced.
FreedBy(s, down) ==
    IF down[1] = s /\ RefsOf(down) = 1 THEN seg[s].freed + ItemAt(down).size
                                      ELSE seg[s].freed

\* Nobody reads what a dead item was.
Counted(x, n) == IF n = 0 THEN [x EXCEPT !.refs = 0, !.key = NoKey, !.val = NoValue]
                          ELSE [x EXCEPT !.refs = n]

\* One more reference to item up, one less to item down; NoRef is no item.
Recounted(r, x, up, down) ==
    CASE r = up   -> Counted(x, x.refs + 1)
      [] r = down -> Counted(x, x.refs - 1)
      [] OTHER    -> x
Recount(up, down) ==
    /\ mem' = [s \in Segments |->
                  {Recounted(<<s, x.at>>, x, up, down) : x \in mem[s]}]
    /\ seg' = [s \in Segments |-> [seg[s] EXCEPT !.freed = FreedBy(s, down)]]
-----------------------------------------------------------------------------
(* packet_loop: a request, the item of a SET, the reply. *)

Receive(w) ==
    /\ At(w, "idle") /\ received[w] < MaxRequests[w]
    /\ received' = [received EXCEPT ![w] = @ + 1]

BeginSet(w, k) ==
    /\ Receive(w)
    /\ Becomes(w, [Idle EXCEPT !.pc = "alloc", !.key = k, !.val = <<w, received'[w]>>])
    /\ UNCHANGED <<seg, mem, pool, table, ia, cq, mt, newest, harm>>

\* Headers in a segment once n units from offset o on are written.
Written(s, o, n, key, val, refs) ==
    {x \in mem[s] : ~(o <= x.at /\ x.at < o + n)}
    \cup {[at |-> o, key |-> key, val |-> val, size |-> n, refs |-> refs]}

\* ialloc_alloc, with the reserved segment in use: only copies get memory.
RefuseSet(w) ==
    /\ At(w, "alloc") /\ ia[w].reserved = NULL /\ ~th[w].cleanup
    /\ Becomes(w, [Idle EXCEPT !.pc = "clean"])
    /\ UNCHANGED <<seg, mem, pool, table, ia, cq, mt, received, newest, harm>>

Avail(s) == SegSize - seg[s].offset
MayAlloc(w) == At(w, "alloc") /\ (ia[w].reserved # NULL \/ th[w].cleanup)

\* The item goes into segment s.
TakeFrom(w, s, hdr) ==
    LET o == hdr.offset
        n == Size[th[w].key]
    IN  /\ mem' = [mem EXCEPT ![s] = Written(s, o, n, th[w].key, th[w].val, 1)]
        /\ Becomes(w, [th[w] EXCEPT !.pc = "put", !.nit = <<s, o>>,
                                              !.h = NULL, !.then = "idle"])

AllocHere(w) ==
    LET s == ia[w].cur
    IN  /\ MayAlloc(w) /\ Avail(s) >= Size[th[w].key]
        /\ TakeFrom(w, s, seg[s])
        /\ seg' = [seg EXCEPT ![s].offset = @ + Size[th[w].key]]
        /\ UNCHANGED <<pool, table, ia, cq, mt, received, newest, harm>>

\* Slip: the rest of a full segment is not counted as freed.
SegmentFullUncounted(w) ==
    LET s == ia[w].cur
    IN  /\ MayAlloc(w) /\ Avail(s) < Size[th[w].key]
        /\ mem' = IF Avail(s) >= HeaderSize
                  THEN [mem EXCEPT ![s] =
                          Written(s, seg[s].offset, Avail(s), NoKey, NoValue, 0)]
                  ELSE mem
        /\ seg' = [seg EXCEPT ![s].offset = SegSize]
        /\ Becomes(w, [th[w] EXCEPT !.pc = "seg", !.then = "install"])
        /\ UNCHANGED <<pool, table, ia, cq, mt, received, newest, harm>>

\* The rest of the segment becomes a dead item, if a header fits.
SegmentFull(w) ==
    LET s == ia[w].cur
    IN  /\ MayAlloc(w) /\ Avail(s) < Size[th[w].key]
        /\ mem' = IF Avail(s) >= HeaderSize
                  THEN [mem EXCEPT ![s] =
                          Written(s, seg[s].offset, Avail(s), NoKey, NoValue, 0)]
                  ELSE mem
        /\ seg' = [seg EXCEPT ![s].freed = @ + Avail(s), ![s].offset = SegSize]
        /\ Becomes(w, [th[w] EXCEPT !.pc = "seg", !.then = "install"])
        /\ UNCHANGED <<pool, table, ia, cq, mt, received, newest, harm>>

Fresh(hdr) == [hdr EXCEPT !.offset = 0, !.flags = {}, !.freed = 0]

\* The new segment, or the reserve for a copy, becomes the current one; a SET
\* gets nothing without one, and a copy that gets nothing aborts.
Install(w) ==
    LET reserve == th[w].cleanup /\ th[w].h = NULL /\ ia[w].reserved # NULL
        h == IF reserve THEN ia[w].reserved ELSE th[w].h
        old == ia[w].cur
    IN  /\ At(w, "install")
        /\ IF h = NULL
           THEN /\ Becomes(w, IF th[w].cleanup THEN [th[w] EXCEPT !.pc = "abort"]
                                           ELSE [Idle EXCEPT !.pc = "clean"])
                /\ UNCHANGED <<seg, mem, ia>>
           ELSE /\ seg' = [seg EXCEPT
                        ![old].next = h, ![old].flags = @ \cup {"INACTIVE"},
                        ![h].next = NULL, ![h].offset = @ + Size[th[w].key]]
                /\ TakeFrom(w, h, seg[h])
                /\ ia' = [ia EXCEPT ![w].cur = h,
                            ![w].reserved = IF reserve THEN NULL ELSE @]
        /\ UNCHANGED <<pool, table, cq, mt, received, newest, harm>>

\* item_unref of the new item, then of the one that was looked up or copied.
Release(w) ==
    LET new == th[w].nit # NoRef
    IN  /\ At(w, "release")
        /\ Recount(NoRef, IF new THEN th[w].nit ELSE th[w].it)
        /\ Becomes(w, IF new THEN [th[w] EXCEPT !.nit = NoRef,
                                    !.pc = IF th[w].it = NoRef THEN "clean"
                                                               ELSE "release"]
              ELSE [th[w] EXCEPT !.it = NoRef, !.pc = "clean"])
        /\ UNCHANGED <<pool, table, ia, cq, mt, received, newest, harm>>
-----------------------------------------------------------------------------
(* segment_alloc. *)

LookAtFreeList(w) ==
    /\ At(w, "seg")
    /\ Goto(w, IF free_segments # NULL THEN "pop" ELSE "more")
    /\ UNCHANGED <<seg, mem, pool, table, ia, cq, mt, received, newest, harm>>

PopSegment(w) ==
    /\ At(w, "pop") /\ segLock = Nobody
    /\ segLock' = w
    /\ Becomes(w, [th[w] EXCEPT !.pc = "popped", !.h = free_segments])
    /\ UNCHANGED <<seg, mem, free_segments, seg_alloced, table, ia, cq, mt,
                   received, newest, harm>>

PoppedSegment(w) ==
    LET h == th[w].h
    IN  /\ At(w, "popped")
        /\ segLock' = Nobody
        /\ IF h = NULL
           THEN Goto(w, "more") /\ UNCHANGED <<free_segments, seg>>
           ELSE /\ free_segments' = seg[h].next
                /\ seg' = [seg EXCEPT ![h] = Fresh(seg[h])]
                /\ Goto(w, th[w].then)
        /\ UNCHANGED <<mem, seg_alloced, table, ia, cq, mt, received, newest,
                       harm>>

\* "note: unlocked", and yet the lock is dropped when no segment is left.
CheckSegments(w) ==
    LET none == seg_alloced >= SegMaxNum
    IN  /\ At(w, "more")
        /\ segLock' = IF none THEN Nobody ELSE segLock
        /\ harm' = IF none /\ segLock # Nobody THEN harm \cup {"lock"} ELSE harm
        /\ Becomes(w, IF none THEN [th[w] EXCEPT !.pc = th[w].then, !.h = NULL]
                                          ELSE [th[w] EXCEPT !.pc = "grow"])
        /\ UNCHANGED <<seg, mem, free_segments, seg_alloced, table, ia, cq, mt,
                       received, newest>>

\* seg_alloced is read again under the lock.
AnotherSegment(w) ==
    LET h == IF seg_alloced < SegMaxNum THEN seg_alloced + 1 ELSE NULL
    IN  /\ At(w, "grow") /\ segLock = Nobody
        /\ seg_alloced' = IF h = NULL THEN seg_alloced ELSE h
        /\ seg' = IF h = NULL THEN seg ELSE [seg EXCEPT ![h] = Fresh(seg[h])]
        /\ Becomes(w, [th[w] EXCEPT !.pc = th[w].then, !.h = h])
        /\ UNCHANGED <<mem, free_segments, segLock, table, ia, cq, mt, received,
                       newest, harm>>
-----------------------------------------------------------------------------
(* hasht_put and hasht_get, each under its bucket's lock. *)

InSlot(b, k) == {i \in Slots : table[b].slots[i] # NoRef
                                /\ KeyOf(table[b].slots[i]) = k}
InOverflow(b, k) == {j \in 1 .. Len(table[b].over) : KeyOf(table[b].over[j]) = k}
Empty(b) == {i \in Slots : table[b].slots[i] = NoRef}

\* Slip: a copy replaces whatever item its key has.
ReplacesAny(old, cas) == TRUE

\* cas: the new item only replaces the one it is a copy of.
Replaces(old, cas) == cas = NoRef \/ cas = old

\* The item is linked or, as a copy that comes too late, is not.  Overflowing
\* items are never replaced by copies.
Put(w) ==
    LET k == th[w].key
        b == Bucket[k]
        nit == th[w].nit
        cas == IF th[w].cleanup THEN th[w].it ELSE NoRef
        slot == InSlot(b, k)
        over == InOverflow(b, k)
        i == CHOOSE x \in slot : TRUE
        j == CHOOSE x \in over : TRUE
        di == IF Empty(b) = {} THEN NumSlots ELSE Max(Empty(b))
        displaced == table[b].slots[di]
    IN  /\ At(w, "put")
        /\ \/ /\ slot # {} /\ Replaces(table[b].slots[i], cas)
              /\ table' = [table EXCEPT ![b].slots[i] = nit]
              /\ Recount(nit, table[b].slots[i])
           \/ /\ slot = {} /\ cas = NoRef /\ over # {}
              /\ table' = [table EXCEPT ![b].over[j] = nit]
              /\ Recount(nit, table[b].over[j])
           \/ /\ slot = {} /\ cas = NoRef /\ over = {}
              /\ table' = [table EXCEPT ![b].slots[di] = nit,
                     ![b].over = IF displaced = NoRef THEN @ ELSE <<displaced>> \o @]
              /\ Recount(nit, NoRef)
           \/ /\ IF slot # {} THEN ~Replaces(table[b].slots[i], cas)
                              ELSE cas # NoRef
              /\ UNCHANGED <<table, mem, seg>>
        /\ newest' = IF th[w].cleanup THEN newest
                     ELSE [newest EXCEPT ![k] = th[w].val]
        /\ Becomes(w, [th[w] EXCEPT !.pc = "release", !.key = NoKey,
                                        !.val = NoValue, !.cleanup = FALSE])
        /\ UNCHANGED <<pool, ia, cq, mt, received, harm>>

Linked(b, k) == {table[b].slots[i] : i \in InSlot(b, k)}
                \cup {table[b].over[j] : j \in InOverflow(b, k)}

\* A GET comes in and is looked up.
Get(w, k) ==
    LET found == Linked(Bucket[k], k)
    IN  /\ Receive(w)
        /\ IF found = {}
           THEN /\ Becomes(w, [Idle EXCEPT !.pc = "clean"])
                /\ UNCHANGED <<mem, seg>>
           ELSE \E r \in found :
                   /\ Recount(r, NoRef)
                   /\ Becomes(w, [Idle EXCEPT !.pc = "release", !.it = r])
        /\ UNCHANGED <<pool, table, ia, cq, mt, newest, harm>>
-----------------------------------------------------------------------------
(* clean_log and ialloc_cleanup_item. *)

\* Without requests the worker cleans as well, and then without a limit.
CleanIdle(w) ==
    /\ At(w, "idle") /\ (cq[w] # << >> \/ ia[w].reserved = NULL)
    /\ Becomes(w, [Idle EXCEPT !.pc = "clean", !.idle = TRUE])
    /\ UNCHANGED <<seg, mem, pool, table, ia, cq, mt, received, newest, harm>>

CleanEnough(w) ==
    /\ At(w, "clean") /\ ~th[w].idle /\ th[w].count >= CleanMax
    /\ Becomes(w, Idle)
    /\ UNCHANGED <<seg, mem, pool, table, ia, cq, mt, received, newest, harm>>

\* The next item off the queue; a reserve that was used is replaced.
CleanItem(w) ==
    LET it == IF cq[w] = << >> THEN NoRef ELSE Head(cq[w])
        after == IF it = NoRef THEN "idle" ELSE "copy"
        new == ia[w].reserved = NULL
    IN  /\ At(w, "clean") /\ (th[w].idle \/ th[w].count < CleanMax)
        /\ cq' = [cq EXCEPT ![w] = IF @ = << >> THEN @ ELSE Tail(@)]
        /\ Becomes(w, [Idle EXCEPT !.it = it, !.idle = th[w].idle,
                           !.count = IF th[w].idle THEN 0 ELSE th[w].count + 1,
                           !.then = IF new THEN "reserve" ELSE "idle",
                           !.pc = IF new THEN "seg" ELSE after])
        /\ UNCHANGED <<seg, mem, pool, table, ia, mt, received, newest, harm>>

NewReserve(w) ==
    /\ At(w, "reserve")
    /\ ia' = [ia EXCEPT ![w].reserved = th[w].h]
    /\ Becomes(w, [th[w] EXCEPT !.h = NULL, !.then = "idle",
                    !.pc = IF th[w].it = NoRef THEN "idle"
                                                   ELSE "copy"])
    /\ UNCHANGED <<seg, mem, pool, table, cq, mt, received, newest, harm>>

\* An item that only the queue refers to is dead.
CopyItem(w) ==
    LET x == ItemAt(th[w].it)
    IN  /\ At(w, "copy")
        /\ Becomes(w, IF x.refs = 1 THEN [th[w] EXCEPT !.pc = "release"]
              ELSE [th[w] EXCEPT !.pc = "alloc", !.cleanup = TRUE, !.key = x.key,
                             !.val = x.val])
        /\ UNCHANGED <<seg, mem, pool, table, ia, cq, mt, received, newest, harm>>
-----------------------------------------------------------------------------
(* ialloc_maintenance, for one worker after the other. *)

MAt(label) == mt.pc = label

StartWalk(w) ==
    /\ MAt("start")
    /\ mt' = [Rest EXCEPT !.pc = "walk", !.w = w, !.h = ia[w].oldest]
    /\ UNCHANGED <<seg, mem, pool, table, ia, cq, th, received, newest, harm>>

\* Slip: a segment that is still in use is looked at as well.
AnySegment(h) == h # NULL

\* The walk ends at the last segment and at one that is in use.
PastUse(h) == h # NULL /\ seg[h].next # NULL /\ "INACTIVE" \in seg[h].flags

\* A dead segment leaves the chain.
WalkSegment ==
    LET h == mt.h
        dead == seg[h].freed = SegSize
    IN  /\ MAt("walk") /\ PastUse(h)
        /\ mt' = [mt EXCEPT !.pc = IF dead THEN "push" ELSE "weigh",
                            !.next = seg[h].next]
        /\ ia' = IF dead /\ mt.prev = NULL
                 THEN [ia EXCEPT ![mt.w].oldest = seg[h].next] ELSE ia
        /\ seg' = IF dead /\ mt.prev # NULL
                  THEN [seg EXCEPT ![mt.prev].next = seg[h].next] ELSE seg
        /\ UNCHANGED <<mem, pool, table, cq, th, received, newest, harm>>

\* At least four fifths freed, and more than the candidate so far.
WeighSegment ==
    LET f == seg[mt.h].freed
        better == /\ "CLEANED" \notin seg[mt.h].flags
                  /\ 5 * f >= 4 * SegSize /\ f > mt.cand_freed
    IN  /\ MAt("weigh")
        /\ mt' = [mt EXCEPT !.pc = "walk", !.prev = mt.h, !.h = mt.next,
                            !.cand = IF better THEN mt.h ELSE @,
                            !.cand_freed = IF better THEN f ELSE @]
        /\ UNCHANGED <<seg, mem, pool, table, ia, cq, th, received, newest, harm>>

\* segment_free
PushSegment ==
    /\ MAt("push") /\ segLock = Nobody
    /\ segLock' = Maint
    /\ seg' = [seg EXCEPT ![mt.h].offset = 0, ![mt.h].next = free_segments]
    /\ mt' = [mt EXCEPT !.pc = "pushed"]
    /\ UNCHANGED <<mem, free_segments, seg_alloced, table, ia, cq, th, received,
                   newest, harm>>

PushedSegment ==
    /\ MAt("pushed")
    /\ free_segments' = mt.h
    /\ segLock' = Nobody
    /\ mt' = [mt EXCEPT !.pc = "walk", !.h = mt.next]
    /\ UNCHANGED <<seg, mem, seg_alloced, table, ia, cq, th, received, newest,
                   harm>>

\* The walk is over: the segment that is being cleaned is cleaned to its end,
\* then the best candidate.
EndWalk ==
    LET a == ia[mt.w]
        go == a.cleaning # NULL /\ a.clean_offset # SegSize
    IN  /\ MAt("walk") /\ ~PastUse(mt.h)
        /\ IF go THEN UNCHANGED <<ia, seg>>
           ELSE /\ ia' = [ia EXCEPT ![mt.w].cleaning = mt.cand,
                                    ![mt.w].clean_offset = 0]
                /\ seg' = IF mt.cand = NULL THEN seg
                          ELSE [seg EXCEPT ![mt.cand].flags = @ \cup {"CLEANED"}]
        /\ mt' = IF ~go /\ mt.cand = NULL THEN Rest
                 ELSE [Rest EXCEPT !.pc = "scan", !.w = mt.w]
        /\ UNCHANGED <<mem, pool, table, cq, th, received, newest, harm>>

EndScan ==
    LET a == ia[mt.w]
    IN  /\ MAt("scan")
        /\ a.clean_offset >= SegSize \/ Len(cq[mt.w]) >= CqSize
        /\ mt' = Rest
        /\ UNCHANGED <<seg, mem, pool, table, ia, cq, th, received, newest, harm>>

\* item_tryref
Queued(x) == x.refs > 0

\* A live item is referenced and queued.  The segment may have been given
\* back and be in use again since the scan began.
ScanItem ==
    LET w == mt.w
        s == ia[w].cleaning
        o == ia[w].clean_offset
        here == {x \in mem[s] : x.at = o}
        x == CHOOSE y \in here : TRUE
        tooShort == SegSize - o < HeaderSize
        lost == ~tooShort /\ here = {}
        queued == ~tooShort /\ ~lost /\ Queued(x)
    IN  /\ MAt("scan") /\ o < SegSize /\ Len(cq[w]) < CqSize
        /\ mt' = IF lost THEN [mt EXCEPT !.pc = "astray"] ELSE mt
        /\ ia' = IF lost THEN ia
                 ELSE [ia EXCEPT ![w].clean_offset =
                          IF tooShort THEN SegSize ELSE @ + x.size]
        /\ IF queued
           THEN Recount(<<s, o>>, NoRef) /\ cq' = [cq EXCEPT ![w] = Append(@, <<s, o>>)]
           ELSE UNCHANGED <<seg, mem, cq>>
        /\ harm' = IF lost \/ (queued /\ "INACTIVE" \notin seg[s].flags)
                   THEN harm \cup {"scan"} ELSE harm
        /\ UNCHANGED <<pool, table, th, received, newest>>
-----------------------------------------------------------------------------
\* ialloc_init_allocator has given each worker a segment and a reserve; which
\* of these alike segments are whose makes no difference.
Number == CHOOSE f \in [Workers -> 1 .. Cardinality(Workers)] :
              \A v, w \in Workers : f[v] = f[w] => v = w

Allocators ==
    /\ ia = [w \in Workers |->
                [cur |-> 2 * Number[w] - 1, oldest |-> 2 * Number[w] - 1,
                 reserved |-> 2 * Number[w], cleaning |-> NULL,
                 clean_offset |-> 0]]
    /\ cq = [w \in Workers |-> << >>]
    /\ seg_alloced = 2 * Cardinality(Workers)

\* ialloc_init
EmptyPool ==
    /\ seg = [s \in Segments |-> [offset |-> 0, freed |-> 0, flags |-> {},
                                      next |-> NULL]]
    /\ mem = [s \in Segments |-> {}]
    /\ free_segments = NULL /\ segLock = Nobody

\* hasht_init
EmptyTable ==
    table = [b \in Buckets |-> [slots |-> [i \in Slots |-> NoRef], over |-> << >>]]

Init ==
    /\ EmptyTable /\ EmptyPool /\ Allocators
    /\ th = [w \in Workers |-> Idle]
    /\ mt = Rest
    /\ received = [w \in Workers |-> 0]
    /\ newest = [k \in Keys |-> NoValue]
    /\ harm = {}

Serve(w) ==
    \/ \E k \in Keys : BeginSet(w, k) \/ Get(w, k)
    \/ RefuseSet(w) \/ AllocHere(w) \/ SegmentFull(w) \/ Install(w)
    \/ Put(w) \/ Release(w)

SegmentAlloc(w) ==
    \/ LookAtFreeList(w) \/ PopSegment(w) \/ PoppedSegment(w)
    \/ CheckSegments(w) \/ AnotherSegment(w)

CleanLog(w) ==
    \/ CleanIdle(w) \/ CleanEnough(w) \/ CleanItem(w) \/ NewReserve(w)
    \/ CopyItem(w)

Maintenance ==
    \/ \E w \in Workers : StartWalk(w)
    \/ WalkSegment \/ WeighSegment \/ PushSegment \/ PushedSegment \/ EndWalk
    \/ EndScan \/ ScanItem

\* abort() ends the process.
Next ==
    /\ \A w \in Workers : ~At(w, "abort")
    /\ \/ \E w \in Workers : Serve(w) \/ SegmentAlloc(w) \/ CleanLog(w)
       \/ Maintenance

Spec == Init /\ [][Next]_vars
-----------------------------------------------------------------------------
(* Types. *)
Allocator == [cur : Segments, oldest : Segments, reserved : Segments \cup {NULL},
              cleaning : Segments \cup {NULL}, clean_offset : 0 .. SegSize]
TypeOK ==
    /\ seg \in [Segments -> [offset : 0 .. SegSize, freed : 0 .. SegSize,
                             flags : SUBSET {"INACTIVE", "CLEANED"},
                             next : Segments \cup {NULL}]]
    /\ mem \in [Segments -> SUBSET Header]
    /\ free_segments \in Segments \cup {NULL} /\ seg_alloced \in 0 .. SegMaxNum
    /\ segLock \in Workers \cup {Maint, Nobody}
    /\ table \in [Buckets -> [slots : [Slots -> Refs], over : Seq(Refs)]]
    /\ ia \in [Workers -> Allocator]
    /\ cq \in [Workers -> Seq(Refs)]
    /\ th \in [Workers -> Thread]
    /\ mt \in Walker
    /\ newest \in [Keys -> Values]
    /\ received \in [Workers -> Nat]
    /\ \A w \in Workers : received[w] <= MaxRequests[w]
    /\ harm \subseteq {"lock", "scan"}

(* Everything that refers to an item: the table, the cleanup queues, the   *)
(* workers that use it.                                                    *)
Overflow == UNION {{<<b, j>> : j \in 1 .. Len(table[b].over)} : b \in Buckets}
Queue == UNION {{<<w, j>> : j \in 1 .. Len(cq[w])} : w \in Workers}

Uses(r) ==
    Cardinality({x \in Buckets \X Slots : table[x[1]].slots[x[2]] = r})
    + Cardinality({x \in Overflow : table[x[1]].over[x[2]] = r})
    + Cardinality({x \in Queue : cq[x[1]][x[2]] = r})
    + Cardinality({w \in Workers : th[w].it = r})
    + Cardinality({w \in Workers : th[w].nit = r})

InUse ==
    ({table[x[1]].slots[x[2]] : x \in Buckets \X Slots}
     \cup {table[x[1]].over[x[2]] : x \in Overflow}
     \cup {cq[x[1]][x[2]] : x \in Queue}
     \cup {th[w].it : w \in Workers} \cup {th[w].nit : w \in Workers}) \ {NoRef}

Live(s) == {x \in mem[s] : x.at < seg[s].offset /\ x.refs > 0}
Apart(items) ==
    \A x, y \in items : x.at < y.at => x.at + x.size <= y.at
Covered(items) ==
    {b \in 0 .. SegSize - 1 : \E x \in items : x.at <= b /\ b < x.at + x.size}
LiveRefs == UNION {{<<s, x.at>> : x \in Live(s)} : s \in Segments}

(* Every item that somebody can still reach is counted by exactly those    *)
(* who reach it and lies in a segment that is not given away, and what a   *)
(* segment has freed is what its live items do not take up, so a segment   *)
(* is given back when nothing of it is in use, and not before.  It holds   *)
(* while segalloc_lock works and no scan has gone on in a segment given    *)
(* back (ialloc.c:103, 404).                                               *)
RefsExact ==
    harm = {} =>
    /\ LiveRefs = InUse
    /\ \A r \in InUse : RefsOf(r) = Uses(r)
    /\ \A s \in Segments : Apart(Live(s))
    /\ \A s \in Segments : seg[s].offset > 0 =>
          seg[s].freed + Cardinality(Covered(Live(s))) = seg[s].offset

(* A segment is on the free list, in the chain of one worker, somebody's   *)
(* reserve or in one thread's hands, and never in two of these places.     *)
ListFrom(first) ==
    LET closed == {S \in SUBSET Segments :
                      first \in S /\ \A s \in S : seg[s].next \in S \cup {NULL}}
    IN  IF first = NULL THEN {} ELSE {s \in Segments : \A S \in closed : s \in S}

InHand(w) == IF th[w].pc \in {"install", "reserve"} THEN th[w].h ELSE NULL

Holdings ==
    LET freed == ListFrom(free_segments)
        chain == [w \in Workers |-> ListFrom(ia[w].oldest)]
    IN  ({<<"free", Nobody>>} \X freed)
        \cup (UNION {{<<"chain", w>>} \X chain[w] : w \in Workers})
        \cup {<<<<"reserved", w>>, ia[w].reserved>> : w \in Workers}
        \cup {<<<<"hand", w>>, InHand(w)>> : w \in Workers}
        \cup {<<<<"given back", Maint>>,
                IF mt.pc \in {"push", "pushed"} THEN mt.h ELSE NULL>>}

SegmentsOnce ==
    "lock" \notin harm =>
        LET holdings == Holdings
        IN  \A s \in Segments : Cardinality({h \in holdings : h[2] = s})
                                    = IF s <= seg_alloced THEN 1 ELSE 0

(* A key has one item in the table, and it has the value of the SET that   *)
(* put its item last: copying an item elsewhere never brings an old value  *)
(* back and never loses one, whatever SETs come between.                   *)
TableHoldsNewest ==
    harm = {} => \A k \in Keys :
        LET found == Linked(Bucket[k], k)
        IN  IF newest[k] = NoValue THEN found = {}
            ELSE \E r \in Refs : found = {r} /\ ItemAt(r).val = newest[k]
=============================================================================
