-------------------------------- MODULE NvLog --------------------------------
(***************************************************************************)
(* The circular log of NVDIMM.c between the worker threads and the SSD.    *)
(* Workers append the value of a SET to the log and answer the client;     *)
(* the maintenance thread (and a worker that finds the log full) claims    *)
(* the oldest unclaimed item, hands it to database_set and consumes it;    *)
(* whoever releases an item calls NVDIMM_invalidate, which moves head over *)
(* the released prefix.  Find, allocate, claim and invalidate run under    *)
(* circ_buffer.lock and are one action each; every change of an item's     *)
(* state byte runs under the item's lock and is one action.  Between these *)
(* sections the threads interleave freely.                                 *)
(*                                                                         *)
(* Abstractions.  The log is a ring of Slots item-sized slots: the byte    *)
(* layout (headers, wrapping payloads, the skipped gap at the end of the   *)
(* buffer) is NvRing's subject.  A key stands for the pair (hash, key      *)
(* bytes), which NVDIMM_find compares together.  The cache and the SSD     *)
(* table behind database_get and database_set are one register per key.    *)
(***************************************************************************)
EXTENDS Integers, FiniteSets, Sequences

CONSTANTS Workers,     \* lcores running processing_thread
          Maint,       \* the lcore running maintenance
          Keys, Values,
          Slots,       \* how many item-sized slots the buffer has
          NoKey, NoSlot,
          Absent,      \* no value stored under a key
          Torn         \* bytes of a value that was still being written

Threads == Workers \cup {Maint}
Slot == 0 .. Slots - 1

\* The reader count of an item is a uint8_t (NVDIMM.h:54).
ReaderValues == 0 .. 255

ASSUME SlotsAssumption == Slots \in Nat /\ Slots >= 2
ASSUME ThreadsAssumption ==
    /\ Maint \notin Workers
    /\ IsFiniteSet(Workers)
    /\ Cardinality(Workers) < 255
ASSUME ValuesAssumption ==
    /\ NoKey \notin Keys
    /\ NoSlot \notin Slot
    /\ Absent \notin Values
    /\ Torn \notin Values
    /\ Absent # Torn

VARIABLES
    head, next, tail, capacity,   \* circ_buffer
    item,     \* the nv_line in each slot: key, val, state bits, readers
    store,    \* what database_set stored last under each key
    pc,       \* where each thread is
    key, val, \* the request a worker is serving
    it,       \* the nv_line a thread is working on
    old,      \* the nv_line found for the key of a SET or a GET
    buf,      \* the ssd_line a thread copied out, or the answer of a GET
    exited    \* the process called exit(0)

log == <<head, next, tail, capacity>>
vars == <<head, next, tail, capacity, item, store, pc, key, val, it, old,
          buf, exited>>

Flags == {"WRITING_TO_SSD", "READING", "CONSUMED", "WRITING_KEY",
          "WRITING_VAL", "WAITING"}

Item == [key : Keys \cup {NoKey}, val : Values \cup {Absent},
         state : SUBSET Flags, readers : ReaderValues]

SetPcs == {"set_find", "set_mark", "set_unread", "set_inval", "alloc",
           "write_key", "write_val"}
GetPcs == {"get_find", "get_copy", "get_unread", "get_inval", "get_store",
           "get_reply"}
FlushPcs == {"claim", "claim_inval", "check_between", "check_tail",
             "flush_copy", "flush_unread", "flush_store", "consume",
             "flush_inval"}

-----------------------------------------------------------------------------
(* The ring. *)

Succ(p) == IF p + 1 = Slots THEN 0 ELSE p + 1

\* How many slots lie from p up to q, going round the ring.
Dist(p, q) == IF q >= p THEN q - p ELSE q - p + Slots

\* NVDIMM_item_is_between_head_and_tail for a given head and tail.
IsBetween(p, h, t) ==
    \/ t > h /\ h <= p /\ p < t
    \/ t < h /\ (p < t \/ p >= h)

Between(p) == IsBetween(p, head, tail)

Before(p, q) == Dist(head, p) < Dist(head, q)

\* contains_state(item, NVD_CONSUMED) or all bits clear
IsEmptyState(p) == item[p].state = {} \/ "CONSUMED" \in item[p].state

\* Slip: a consumed item counts as evictable while it is still being read.
EvictableOnceConsumed(p) ==
    item[p].state = {} \/ "CONSUMED" \in item[p].state

IsEvictable(p) == item[p].state \in {{}, {"CONSUMED"}}

-----------------------------------------------------------------------------
(* Changes of an item's state byte, each under the item's lock. *)

ChangeAndRemove(p, new, gone) ==
    item' = [item EXCEPT ![p].state = (@ \cup {new}) \ {gone}]

IncReaders(r) == IF r = 255 THEN 0 ELSE r + 1
DecReaders(r) == IF r = 0 THEN 255 ELSE r - 1

AddReader(i) == [i EXCEPT !.readers = IncReaders(@),
                          !.state = @ \cup {"READING"}]

\* Slip: the READING bit goes with the first reader that leaves.
RemoveReaderUncounted(i) ==
    [i EXCEPT !.readers = DecReaders(@), !.state = @ \ {"READING"}]

RemoveReader(i) ==
    LET r == DecReaders(i.readers)
    IN  [i EXCEPT !.readers = r,
                  !.state = IF r = 0 THEN @ \ {"READING"} ELSE @]

Goto(t, label) == pc' = [pc EXCEPT ![t] = label]

-----------------------------------------------------------------------------
(* NVDIMM_find: walk from head to tail under the circ_buffer lock.  Items  *)
(* whose key is still being written are waited for, so the operation ends  *)
(* only in a state in which none lies before the match.                    *)

KeyPending(p) == ~IsEmptyState(p) /\ "WRITING_KEY" \in item[p].state

\* Slip: only items waiting to be flushed answer for their key.
MatchesWaiting(p, k) == item[p].state = {"WAITING"} /\ item[p].key = k

Matches(p, k) == ~IsEmptyState(p) /\ ~KeyPending(p) /\ item[p].key = k

FoundAt(k, p) ==
    /\ Between(p)
    /\ Matches(p, k)
    /\ \A q \in Slot : Between(q) /\ Before(q, p)
                          => ~Matches(q, k) /\ ~KeyPending(q)

NotFound(k) ==
    \A q \in Slot : Between(q) => ~Matches(q, k) /\ ~KeyPending(q)

Find(t, hit, miss) ==
    \/ \E p \in Slot :
         /\ FoundAt(key[t], p)
         /\ item' = [item EXCEPT ![p] = AddReader(@)]
         /\ old' = [old EXCEPT ![t] = p]
         /\ Goto(t, hit)
    \/ /\ NotFound(key[t])
       /\ Goto(t, miss)
       /\ UNCHANGED <<item, old>>

-----------------------------------------------------------------------------
(* NVDIMM_invalidate: free the evictable prefix of the log, dragging next  *)
(* along when the walk passes it.                                          *)

EvictableUpTo(h) ==
    /\ h = tail \/ (Between(h) /\ ~IsEvictable(h))
    /\ \A q \in Slot : Between(q) /\ Before(q, h) => IsEvictable(q)

\* Slip: invalidate leaves next behind head.
DragNextNever(h) == next

DragNext(h) == IF Between(next) /\ Before(next, h) THEN h ELSE next

\* NEXT IS BAD: next lies neither in the log nor at its tail.
NextIsBad(n, h, t) == ~IsBetween(n, h, t) /\ n # t

Invalidate(t, label) ==
    /\ \E h \in Slot :
         /\ EvictableUpTo(h)
         /\ head' = h
         /\ next' = DragNext(h)
         /\ capacity' = capacity + Dist(head, h)
         /\ exited' = NextIsBad(DragNext(h), h, tail)
    /\ Goto(t, label)
    /\ UNCHANGED <<tail, item, store>>

\* NVDIMM_read_item copies an item to the heap.  Copying an item whose value
\* is still being written races with the writer: the copy may be torn.
CopyOf(p) ==
    IF "WRITING_VAL" \in item[p].state THEN {item[p].val, Torn}
    ELSE {item[p].val}

Copy(t, p, label) ==
    /\ buf' \in {[buf EXCEPT ![t] = v] : v \in CopyOf(p)}
    /\ Goto(t, label)
    /\ UNCHANGED <<log, item, store, key, val, it, old, exited>>

-----------------------------------------------------------------------------
(* NVDIMM_write_entry: a worker serves a SET. *)

BeginSet(w, k, v) ==
    /\ pc[w] = "idle"
    /\ key' = [key EXCEPT ![w] = k]
    /\ val' = [val EXCEPT ![w] = v]
    /\ Goto(w, "set_find")
    /\ UNCHANGED <<log, item, store, it, old, buf, exited>>

SetFind(w) ==
    /\ pc[w] = "set_find"
    /\ Find(w, "set_mark", "alloc")
    /\ UNCHANGED <<log, store, key, val, it, buf, exited>>

\* Slip: the previous item of the key is not marked consumed.
SetSkipMark(w) ==
    /\ pc[w] = "set_mark"
    /\ Goto(w, "set_unread")
    /\ UNCHANGED <<log, item, store, key, val, it, old, buf, exited>>

\* change_and_remove_state(old, NVD_CONSUMED, NVD_WAITING)
SetMarkOld(w) ==
    /\ pc[w] = "set_mark"
    /\ ChangeAndRemove(old[w], "CONSUMED", "WAITING")
    /\ Goto(w, "set_unread")
    /\ UNCHANGED <<log, store, key, val, it, old, buf, exited>>

SetUnread(w) ==
    /\ pc[w] = "set_unread"
    /\ item' = [item EXCEPT ![old[w]] = RemoveReader(@)]
    /\ old' = [old EXCEPT ![w] = NoSlot]
    /\ Goto(w, "set_inval")
    /\ UNCHANGED <<log, store, key, val, it, buf, exited>>

SetInvalidate(w) ==
    /\ pc[w] = "set_inval"
    /\ Invalidate(w, "alloc")
    /\ UNCHANGED <<key, val, it, old, buf>>

\* Slip: an item may take the last free slot.
AllocateToTheBrim(w) ==
    /\ pc[w] = "alloc"
    /\ capacity >= 1
    /\ item' = [item EXCEPT ![tail].readers = 0,
                            ![tail].state = {"WRITING_KEY"}]
    /\ it' = [it EXCEPT ![w] = tail]
    /\ tail' = Succ(tail)
    /\ capacity' = capacity - 1
    /\ Goto(w, "write_key")
    /\ UNCHANGED <<head, next, store, key, val, old, buf, exited>>

\* NVDIMM_allocate succeeds only while more than the item's size is free, so
\* one slot always stays empty and head = tail means an empty log.
Allocate(w) ==
    /\ pc[w] = "alloc"
    /\ capacity > 1
    /\ item' = [item EXCEPT ![tail].readers = 0,
                            ![tail].state = {"WRITING_KEY"}]
    /\ it' = [it EXCEPT ![w] = tail]
    /\ tail' = Succ(tail)
    /\ capacity' = capacity - 1
    /\ Goto(w, "write_key")
    /\ UNCHANGED <<head, next, store, key, val, old, buf, exited>>

\* No room: the worker calls NVDIMM_write_out_next itself and tries again.
AllocateFails(w) ==
    /\ pc[w] = "alloc"
    /\ capacity <= 1
    /\ Goto(w, "claim")
    /\ UNCHANGED <<log, item, store, key, val, it, old, buf, exited>>

\* Slip: the key is written under circ_buffer.lock, which a find that waits
\* for a key holds.
WriteKeyUnderLogLock(w) ==
    /\ pc[w] = "write_key"
    /\ \A u \in Workers : pc[u] \notin {"set_find", "get_find"}
    /\ item' = [item EXCEPT
                  ![it[w]].key = key[w],
                  ![it[w]].val = val[w],
                  ![it[w]].state = (@ \cup {"WRITING_VAL"}) \ {"WRITING_KEY"}]
    /\ Goto(w, "write_val")
    /\ UNCHANGED <<log, store, key, val, it, old, buf, exited>>

WriteKey(w) ==
    /\ pc[w] = "write_key"
    /\ item' = [item EXCEPT
                  ![it[w]].key = key[w],
                  ![it[w]].val = val[w],
                  ![it[w]].state = (@ \cup {"WRITING_VAL"}) \ {"WRITING_KEY"}]
    /\ Goto(w, "write_val")
    /\ UNCHANGED <<log, store, key, val, it, old, buf, exited>>

\* The value is complete: the item waits to be flushed, the client is told.
WriteVal(w) ==
    /\ pc[w] = "write_val"
    /\ ChangeAndRemove(it[w], "WAITING", "WRITING_VAL")
    /\ it' = [it EXCEPT ![w] = NoSlot]
    /\ key' = [key EXCEPT ![w] = NoKey]
    /\ val' = [val EXCEPT ![w] = Absent]
    /\ Goto(w, "idle")
    /\ UNCHANGED <<log, store, old, buf, exited>>

-----------------------------------------------------------------------------
(* database_get: a worker serves a GET, from the log or from the store. *)

BeginGet(w, k) ==
    /\ pc[w] = "idle"
    /\ key' = [key EXCEPT ![w] = k]
    /\ Goto(w, "get_find")
    /\ UNCHANGED <<log, item, store, val, it, old, buf, exited>>

GetFind(w) ==
    /\ pc[w] = "get_find"
    /\ Find(w, "get_copy", "get_store")
    /\ UNCHANGED <<log, store, key, val, it, buf, exited>>

GetCopy(w) == pc[w] = "get_copy" /\ Copy(w, old[w], "get_unread")

GetUnread(w) ==
    /\ pc[w] = "get_unread"
    /\ item' = [item EXCEPT ![old[w]] = RemoveReader(@)]
    /\ old' = [old EXCEPT ![w] = NoSlot]
    /\ Goto(w, "get_inval")
    /\ UNCHANGED <<log, store, key, val, it, buf, exited>>

GetInvalidate(w) ==
    /\ pc[w] = "get_inval"
    /\ Invalidate(w, "get_reply")
    /\ UNCHANGED <<key, val, it, old, buf>>

GetStore(w) ==
    /\ pc[w] = "get_store"
    /\ buf' = [buf EXCEPT ![w] = store[key[w]]]
    /\ Goto(w, "get_reply")
    /\ UNCHANGED <<log, item, store, key, val, it, old, exited>>

GetReply(w) ==
    /\ pc[w] = "get_reply"
    /\ key' = [key EXCEPT ![w] = NoKey]
    /\ buf' = [buf EXCEPT ![w] = Absent]
    /\ Goto(w, "idle")
    /\ UNCHANGED <<log, item, store, val, it, old, exited>>

-----------------------------------------------------------------------------
(* NVDIMM_write_out_next: claim, write out, consume.  A worker goes back   *)
(* to its allocation, the maintenance thread starts over.                  *)

AfterWriteOut(t) == IF t = Maint THEN "claim" ELSE "alloc"

\* The trylock of next fails: another thread is inside a section of that
\* item's lock, or next is at the tail, where no nv_line has been laid out.
ClaimLockBusy(t) ==
    /\ pc[t] = "claim"
    /\ \/ ~Between(next)
       \/ \E u \in Threads \ {t} : it[u] = next \/ old[u] = next
    /\ Goto(t, AfterWriteOut(t))
    /\ UNCHANGED <<log, item, store, key, val, it, old, buf, exited>>

ClaimNothing(t) ==
    /\ pc[t] = "claim"
    /\ ~Between(next) \/ IsEmptyState(next)
    /\ Goto(t, "claim_inval")
    /\ UNCHANGED <<log, item, store, key, val, it, old, buf, exited>>

\* Slip: only the key is waited for.
KeyBeingWritten(p) == item[p].state = {"WRITING_KEY"}

BeingWritten(p) == item[p].state \in {{"WRITING_KEY"}, {"WRITING_VAL"}}

\* Slip: the flusher steps over an item that is not complete yet.
ClaimPassesOver(t) ==
    /\ pc[t] = "claim"
    /\ Between(next)
    /\ BeingWritten(next)
    /\ next' = Succ(next)
    /\ Goto(t, AfterWriteOut(t))
    /\ UNCHANGED <<head, tail, capacity, item, store, key, val, it, old, buf,
                   exited>>

ClaimTooEarly(t) ==
    /\ pc[t] = "claim"
    /\ Between(next)
    /\ BeingWritten(next)
    /\ Goto(t, AfterWriteOut(t))
    /\ UNCHANGED <<log, item, store, key, val, it, old, buf, exited>>

\* Slip: claiming does not count as reading.
ClaimedUncounted(i) ==
    [i EXCEPT !.state =
        (@ \cup {"WRITING_TO_SSD", "READING"}) \ {"WAITING"}]

\* Slip: an item is consumed when it is claimed, before it is written out.
ClaimedConsumed(i) ==
    AddReader([i EXCEPT !.state = (@ \cup {"CONSUMED"}) \ {"WAITING"}])

Claimed(i) ==
    AddReader([i EXCEPT !.state = (@ \cup {"WRITING_TO_SSD"}) \ {"WAITING"}])

\* Slip: next is left where it is.
ClaimInPlace(t) ==
    /\ pc[t] = "claim"
    /\ Between(next)
    /\ ~IsEmptyState(next)
    /\ ~BeingWritten(next)
    /\ item' = [item EXCEPT ![next] = Claimed(@)]
    /\ it' = [it EXCEPT ![t] = next]
    /\ Goto(t, "check_between")
    /\ UNCHANGED <<log, store, key, val, old, buf, exited>>

Claim(t) ==
    /\ pc[t] = "claim"
    /\ Between(next)
    /\ ~IsEmptyState(next)
    /\ ~BeingWritten(next)
    /\ item' = [item EXCEPT ![next] = Claimed(@)]
    /\ it' = [it EXCEPT ![t] = next]
    /\ next' = Succ(next)
    /\ Goto(t, "check_between")
    /\ UNCHANGED <<head, tail, capacity, store, key, val, old, buf, exited>>

ClaimInvalidate(t) ==
    /\ pc[t] = "claim_inval"
    /\ Invalidate(t, AfterWriteOut(t))
    /\ UNCHANGED <<key, val, it, old, buf>>

\* The NEXT IS BAD check at the end of NVDIMM_claim_next runs after the
\* circ_buffer lock was dropped: its two conditions see different states.
CheckBetween(t) ==
    /\ pc[t] = "check_between"
    /\ Goto(t, IF Between(next) THEN "flush_copy" ELSE "check_tail")
    /\ UNCHANGED <<log, item, store, key, val, it, old, buf, exited>>

CheckTail(t) ==
    /\ pc[t] = "check_tail"
    /\ exited' = (next # tail)
    /\ Goto(t, "flush_copy")
    /\ UNCHANGED <<log, item, store, key, val, it, old, buf>>

FlushCopy(t) == pc[t] = "flush_copy" /\ Copy(t, it[t], "flush_unread")

FlushUnread(t) ==
    /\ pc[t] = "flush_unread"
    /\ item' = [item EXCEPT ![it[t]] = RemoveReader(@)]
    /\ Goto(t, "flush_store")
    /\ UNCHANGED <<log, store, key, val, it, old, buf, exited>>

\* database_set with the copied key and value
FlushStore(t) ==
    /\ pc[t] = "flush_store"
    /\ store' = [store EXCEPT ![item[it[t]].key] = buf[t]]
    /\ buf' = [buf EXCEPT ![t] = Absent]
    /\ Goto(t, "consume")
    /\ UNCHANGED <<log, item, key, val, it, old, exited>>

\* Slip: an item overwritten while it was flushed is not released.
ConsumeIfUntouched(t) ==
    /\ pc[t] = "consume"
    /\ item[it[t]].state = {"WRITING_TO_SSD"}
    /\ ChangeAndRemove(it[t], "CONSUMED", "WRITING_TO_SSD")
    /\ it' = [it EXCEPT ![t] = NoSlot]
    /\ Goto(t, "flush_inval")
    /\ UNCHANGED <<log, store, key, val, old, buf, exited>>

\* Slip: the WRITING_TO_SSD bit stays.
ConsumeKeepsBit(t) ==
    /\ pc[t] = "consume"
    /\ item' = [item EXCEPT ![it[t]].state = @ \cup {"CONSUMED"}]
    /\ it' = [it EXCEPT ![t] = NoSlot]
    /\ Goto(t, "flush_inval")
    /\ UNCHANGED <<log, store, key, val, old, buf, exited>>

Consume(t) ==
    /\ pc[t] = "consume"
    /\ ChangeAndRemove(it[t], "CONSUMED", "WRITING_TO_SSD")
    /\ it' = [it EXCEPT ![t] = NoSlot]
    /\ Goto(t, "flush_inval")
    /\ UNCHANGED <<log, store, key, val, old, buf, exited>>

FlushInvalidate(t) ==
    /\ pc[t] = "flush_inval"
    /\ Invalidate(t, AfterWriteOut(t))
    /\ UNCHANGED <<key, val, it, old, buf>>

-----------------------------------------------------------------------------

Init ==
    /\ head = 0 /\ next = 0 /\ tail = 0 /\ capacity = Slots
    /\ item = [p \in Slot |-> [key |-> NoKey, val |-> Absent,
                               state |-> {}, readers |-> 0]]
    /\ store = [k \in Keys |-> Absent]
    /\ pc = [t \in Threads |-> IF t = Maint THEN "claim" ELSE "idle"]
    /\ key = [t \in Threads |-> NoKey]
    /\ val = [t \in Threads |-> Absent]
    /\ it = [t \in Threads |-> NoSlot]
    /\ old = [t \in Threads |-> NoSlot]
    /\ buf = [t \in Threads |-> Absent]
    /\ exited = FALSE

SetStep(w) ==
    \/ SetFind(w) \/ SetMarkOld(w) \/ SetUnread(w) \/ SetInvalidate(w)
    \/ Allocate(w) \/ AllocateFails(w) \/ WriteKey(w) \/ WriteVal(w)

GetStep(w) ==
    \/ GetFind(w) \/ GetCopy(w) \/ GetUnread(w) \/ GetInvalidate(w)
    \/ GetStore(w) \/ GetReply(w)

FlushStep(t) ==
    \/ ClaimNothing(t) \/ ClaimTooEarly(t) \/ Claim(t) \/ ClaimInvalidate(t)
    \/ CheckBetween(t) \/ CheckTail(t) \/ FlushCopy(t) \/ FlushUnread(t)
    \/ FlushStore(t) \/ Consume(t) \/ FlushInvalidate(t)

Request(w) ==
    \/ \E k \in Keys, v \in Values : BeginSet(w, k, v)
    \/ \E k \in Keys : BeginGet(w, k)

Running(A) == ~exited /\ A

Next ==
    Running(\/ \E w \in Workers : Request(w) \/ SetStep(w) \/ GetStep(w)
            \/ \E t \in Threads : FlushStep(t) \/ ClaimLockBusy(t))

Spec == Init /\ [][Next]_vars

\* Every step of a thread is taken when it stays possible.  A thread that
\* competes for circ_buffer.lock, or for an item's lock with trylock, gets it
\* at some point: NVDIMM_find waits for a key being written while it holds
\* circ_buffer.lock, so no later writer overtakes it for ever.
Fairness ==
    /\ \A w \in Workers : /\ WF_vars(Running(SetStep(w)))
                          /\ WF_vars(Running(GetStep(w)))
                          /\ SF_vars(Running(SetFind(w) \/ GetFind(w)))
    /\ \A t \in Threads : /\ WF_vars(Running(FlushStep(t)))
                          /\ SF_vars(Running(Claim(t)))

FairSpec == Spec /\ Fairness

-----------------------------------------------------------------------------
(* Properties. *)

TypeOK ==
    /\ head \in Slot /\ next \in Slot /\ tail \in Slot
    /\ capacity \in 1 .. Slots
    /\ item \in [Slot -> Item]
    /\ store \in [Keys -> Values \cup {Absent, Torn}]
    /\ pc \in [Threads -> {"idle"} \cup SetPcs \cup GetPcs \cup FlushPcs]
    /\ key \in [Threads -> Keys \cup {NoKey}]
    /\ val \in [Threads -> Values \cup {Absent}]
    /\ it \in [Threads -> Slot \cup {NoSlot}]
    /\ old \in [Threads -> Slot \cup {NoSlot}]
    /\ buf \in [Threads -> Values \cup {Absent, Torn}]
    /\ exited \in BOOLEAN

\* No item is freed under a thread that still works on it: the nv_line a
\* writer, a reader or a flusher points to stays between head and tail, for
\* NVDIMM_invalidate stops at the first item in use (NVDIMM.c:811).
HeldInLog ==
    \A t \in Threads : /\ it[t] # NoSlot => Between(it[t])
                       /\ old[t] # NoSlot => Between(old[t])

\* The item found for a key still holds that key when the thread copies it or
\* marks it consumed: its slot was not freed and written again in between.
FoundItemKeepsItsKey ==
    \A w \in Workers : old[w] # NoSlot => item[old[w]].key = key[w]

\* The space accounting of circ_buffer is exact: capacity is what lies outside
\* the log, whatever allocations and invalidations interleave, and next is in
\* the log or at its tail, so the check NEXT IS BAD 2 (NVDIMM.c:859) never
\* ends the process.
RingConsistent ==
    /\ capacity = Slots - Dist(head, tail)
    /\ ~NextIsBad(next, head, tail)

\* A flusher holds its item from the claim until it consumes it, and in the
\* reading state until it copied it.
FlushReadPcs == {"check_between", "check_tail", "flush_copy", "flush_unread"}
FlushingPcs == FlushReadPcs \cup {"flush_store", "consume"}

\* The threads that hold an item in the reading state (NVD_READING).
ReadersOf(p) ==
    {t \in Threads : old[t] = p \/ (it[t] = p /\ pc[t] \in FlushReadPcs)}

\* The reader count of every item is the number of threads reading it, and
\* the READING bit is set exactly while the count is positive, although the
\* count is a byte and two operations update them (NVDIMM.c:47-106).
ReadersExact ==
    \A p \in Slot : /\ item[p].readers = Cardinality(ReadersOf(p))
                    /\ "READING" \in item[p].state <=> item[p].readers > 0

\* Two flushers (the maintenance thread and workers short of space) never
\* hold the same item, and whatever one holds lies behind next.
OneFlusherPerItem ==
    /\ \A t, u \in Threads :
         t # u /\ pc[t] \in FlushingPcs /\ pc[u] \in FlushingPcs
           => it[t] # it[u]
    /\ \A t \in Threads :
         pc[t] \in FlushingPcs => next = tail \/ Before(it[t], next)

\* next never passes an item that still has to go to the SSD: what lies
\* behind it is claimed or consumed, so no acknowledged item is forgotten.
NoItemSkipped ==
    \A p \in Slot :
      Between(p) /\ (next = tail \/ Before(p, next))
        => item[p].state \cap {"CONSUMED", "WRITING_TO_SSD"} # {}

\* The log is a queue (LogQueue): items are claimed in the order they were
\* allocated and each at most once, and leave in that order once they are
\* evictable, whichever thread allocates, claims or invalidates.
QueuePosition(i) == IF head + i - 1 >= Slots THEN head + i - 1 - Slots
                    ELSE head + i - 1

Queue == INSTANCE LogQueue WITH
    queue <- [i \in 1 .. Dist(head, tail) |-> IsEvictable(QueuePosition(i))],
    claimed <- Dist(head, next)

ImplementsQueue == Queue!Spec

\* Once a process has not exited, every GET is answered: NVDIMM_find waits for
\* a key being written, and that writer never waits for the reader.
GetAnswered ==
    \A w \in Workers : pc[w] \in GetPcs ~> pc[w] = "idle" \/ exited

\* An item that is consumed and still waiting.  claim_next takes it for done,
\* invalidate does not take it for evictable: it blocks the log for good.
Stuck(p) == Between(p) /\ {"CONSUMED", "WAITING"} \subseteq item[p].state

\* Workers that find the log full make room by flushing (NVDIMM.c:207-215):
\* while SETs are under way, one of them gets its space in the end, unless an
\* overwrite or a flush that met a value still being written left an item
\* stuck.  Which worker gets it is a race that the same one may always lose.
SomeSetGetsRoom ==
    (\E w \in Workers : pc[w] = "alloc")
      ~> \/ \E w \in Workers : pc[w] = "write_key"
         \/ exited
         \/ \E p \in Slot : Stuck(p)

\* The same without the exception: NVDIMM_write_entry "attempts to clear out
\* NVDIMM" if there is not enough space, and returns true (NVDIMM.h:75-77).
RoomIsMade ==
    (\E w \in Workers : pc[w] = "alloc")
      ~> (\E w \in Workers : pc[w] = "write_key") \/ exited

\* Whatever is claimed is written out and released in the end.
ClaimReleased ==
    \A t \in Threads : pc[t] = "check_between" ~> pc[t] = "flush_inval" \/ exited
=============================================================================
