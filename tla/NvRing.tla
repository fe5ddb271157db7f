-------------------------------- MODULE NvRing --------------------------------
(***************************************************************************)
(* The byte layout of the circular log of NVDIMM.c: where allocate puts an *)
(* item, how payloads wrap over the end of the buffer, the gap at the end  *)
(* that is too small for a header, the walks of find and invalidate over   *)
(* the headers, and the accounting of free bytes.  Offsets stand for       *)
(* pointers, BufSize for buf_end.  The states of an item are reduced to    *)
(* what the layout depends on; NvLog has the threads and the full states.  *)
(*                                                                         *)
(* find and invalidate hold circ_buffer.lock for a whole walk; a walk is   *)
(* modelled header by header, because it may not end.  items is a history  *)
(* variable: the items that are really in the log, oldest first.           *)
(***************************************************************************)
EXTENDS Integers, Sequences, FiniteSets

CONSTANTS BufSize,     \* NVDIMM_SIZE
          Header,      \* sizeof(nv_line)
          Sizes        \* the <<keylen, vallen>> of the items SET brings

ASSUME SizesAssumption ==
    /\ Header \in Nat \ {0}
    /\ BufSize \in Nat /\ BufSize > Header
    /\ \A s \in Sizes : s[1] \in Nat \ {0} /\ s[2] \in Nat
    /\ \A s \in Sizes : Header + s[1] + s[2] <= BufSize

VARIABLES head, next, tail, capacity,   \* circ_buffer
          mem,      \* what lies at each offset: a header, or other bytes
          walk,     \* the walk of the thread that holds circ_buffer.lock
          exited,   \* the process called exit(0)
          items,    \* history: the items in the log
          behind,   \* history: how many of them next has passed
          lost      \* history: a lock holder went past the last item

vars == <<head, next, tail, capacity, mem, walk, exited, items, behind, lost>>

Offset == 0 .. BufSize - 1

\* Only the first byte of a header is marked; the rest of it and the payload
\* are bytes that make no sense as the start of a header.
Bytes == [keylen |-> 0, vallen |-> 0, state |-> "BYTES"]
Fresh == [keylen |-> 0, vallen |-> 0, state |-> "EMPTY"]

NvLine(k, v, s) == [keylen |-> k, vallen |-> v, state |-> s]

States == {"EMPTY", "WRITING", "WAITING", "WRITING_TO_SSD", "CONSUMED"}

NoWalk == [op |-> "none", at |-> 0, pastNext |-> FALSE]

IsBetween(p, h, t) ==
    \/ t > h /\ h <= p /\ p < t
    \/ t < h /\ (p < t \/ p >= h)

Between(p) == IsBetween(p, head, tail)

NextIsBad(n, h, t) == ~IsBetween(n, h, t) /\ n # t

\* The gap an offset leaves at the end of the buffer, if no header fits there.
Gap(p) == IF BufSize - p < Header THEN BufSize - p ELSE 0

\* Where the bytes after an item end: the payload may wrap.
EndOf(p, line) ==
    LET total == Header + line.keylen + line.vallen
        rest == BufSize - p
    IN  IF rest < total THEN total - rest ELSE p + total

\* Where find, claim_next and invalidate look for the next item.
Following(p, line) ==
    LET e == EndOf(p, line) IN IF Gap(e) > 0 \/ e = BufSize THEN 0 ELSE e

-----------------------------------------------------------------------------
(* NVDIMM_allocate *)

\* Slip: the bytes skipped at the end of the buffer are not counted.
HasRoomIgnoringGap(amount) == capacity > amount

HasRoom(amount) ==
    LET rest == BufSize - tail
    IN  /\ capacity > amount
        /\ rest <= Header => capacity - rest > amount

\* Slip: the skipped gap stays free.
TakenWithoutGap(amount) == amount

\* The bytes an allocation takes out of capacity.
Taken(amount) == Gap(tail) + amount

\* Slip: an item starts at tail even where its header does not fit.
PlacementAnywhere == IF tail < BufSize THEN tail ELSE 0

Placement == IF BufSize - tail >= Header THEN tail ELSE 0

Allocate(k, v) ==
    LET amount == Header + k + v
        at == Placement
        line == NvLine(k, v, "WRITING")
    IN  /\ walk.op = "none"
        /\ HasRoom(amount)
        /\ mem' = [p \in Offset |->
                     IF p = at THEN line
                     ELSE IF p \in at + 1 .. at + Header - 1 THEN Bytes
                     ELSE mem[p]]
        /\ tail' = EndOf(at, line)
        /\ capacity' = capacity - Taken(amount)
        /\ items' = Append(items, [at |-> at, keylen |-> k, vallen |-> v])
        /\ UNCHANGED <<head, next, walk, exited, behind, lost>>

-----------------------------------------------------------------------------
(* NVDIMM_write_entry fills an allocated item with NVDIMM_write_to: first  *)
(* the key, then the value.                                                *)

PayloadOf(i) == {(i.at + Header + j) % BufSize : j \in 0 .. i.keylen + i.vallen - 1}

WriteEnd(dest, n) ==
    IF BufSize - dest < n THEN n - (BufSize - dest) ELSE dest + n

\* write_to ends the process when it is about to write up to head.
WriteReachesHead(dest, n) ==
    LET wraps == BufSize - dest < n
        d == IF wraps THEN 0 ELSE dest
        m == IF wraps THEN n - (BufSize - dest) ELSE n
    IN  d < head /\ d + m >= head

StateOf(i) == mem[i.at].state

Write(i) ==
    LET dest == i.at + Header
    IN  /\ StateOf(i) = "WRITING"
        /\ mem' = [p \in Offset |->
                     IF p = i.at THEN NvLine(i.keylen, i.vallen, "WAITING")
                     ELSE IF p \in PayloadOf(i) THEN Bytes
                     ELSE mem[p]]
        /\ exited' = \/ WriteReachesHead(dest, i.keylen)
                     \/ WriteReachesHead(WriteEnd(dest, i.keylen), i.vallen)
        /\ UNCHANGED <<head, next, tail, capacity, walk, items, behind, lost>>

-----------------------------------------------------------------------------
(* An item is consumed by a SET of its key or once it was written out.     *)

Consume(i) ==
    /\ StateOf(i) \in {"WAITING", "WRITING_TO_SSD"}
    /\ mem' = [mem EXCEPT ![i.at].state = "CONSUMED"]
    /\ UNCHANGED <<head, next, tail, capacity, walk, exited, items, behind, lost>>

(* NVDIMM_claim_next, with the check NEXT IS BAD that follows it.          *)

Claim ==
    /\ walk.op = "none"
    /\ Between(next)
    /\ mem[next].state = "WAITING"
    /\ mem' = [mem EXCEPT ![next].state = "WRITING_TO_SSD"]
    /\ next' = Following(next, mem[next])
    /\ exited' = NextIsBad(next', head, tail)
    /\ behind' = behind + 1
    /\ UNCHANGED <<head, tail, capacity, walk, items, lost>>

\* next points to an item that was claimed before: nothing in claim_next
\* tells, and the item would be written out and consumed twice.
ClaimAgain ==
    /\ walk.op = "none"
    /\ Between(next)
    /\ mem[next].state = "WRITING_TO_SSD"
    /\ lost' = TRUE
    /\ UNCHANGED <<head, next, tail, capacity, mem, walk, exited, items, behind>>

-----------------------------------------------------------------------------
(* NVDIMM_invalidate *)

\* Slip: an item that waits to be flushed counts as released.
EvictableOrWaiting(line) == line.state \in {"EMPTY", "CONSUMED", "WAITING"}

Evictable(line) == line.state \in {"EMPTY", "CONSUMED"}

StartInvalidate ==
    /\ walk.op = "none"
    /\ head # tail
    /\ walk' = [op |-> "invalidate", at |-> head, pastNext |-> FALSE]
    /\ UNCHANGED <<head, next, tail, capacity, mem, exited, items, behind, lost>>

\* Slip: invalidate does not give the skipped gap back.
GivenBackWithoutGap(p, line) == Header + line.keylen + line.vallen

\* The bytes invalidate adds to capacity for an item.
GivenBack(p, line) ==
    Header + line.keylen + line.vallen + Gap(EndOf(p, line))

\* The walk frees what is no item, or it meets next at the first item although
\* next has passed the last one, and will drag it back to claimed items.
InvalidateGoesAstray(p) == items = <<>> \/ (p = next /\ behind > 0)

InvalidateItem ==
    LET p == walk.at  line == mem[p]
    IN  /\ walk.op = "invalidate"
        /\ Between(p)
        /\ Evictable(line)
        /\ IF InvalidateGoesAstray(p)
           THEN /\ lost' = TRUE
                /\ UNCHANGED <<capacity, walk, items, behind>>
           ELSE /\ capacity' = capacity + GivenBack(p, line)
                /\ walk' = [walk EXCEPT !.at = Following(p, line),
                                        !.pastNext = @ \/ p = next]
                /\ items' = Tail(items)
                /\ behind' = IF behind = 0 THEN 0 ELSE behind - 1
                /\ UNCHANGED lost
        /\ UNCHANGED <<head, next, tail, mem, exited>>

\* Slip: next stays behind when its item is freed.
NextAfterWalkKept == next

NextAfterWalk == IF walk.pastNext THEN walk.at ELSE next

EndInvalidate ==
    /\ walk.op = "invalidate"
    /\ ~Between(walk.at) \/ ~Evictable(mem[walk.at])
    /\ head' = walk.at
    /\ next' = NextAfterWalk
    /\ exited' = NextIsBad(next', head', tail)
    /\ walk' = NoWalk
    /\ UNCHANGED <<tail, capacity, mem, items, behind, lost>>

-----------------------------------------------------------------------------
(* NVDIMM_find *)

StartFind ==
    /\ walk.op = "none"
    /\ walk' = [op |-> "find", at |-> head, pastNext |-> FALSE]
    /\ UNCHANGED <<head, next, tail, capacity, mem, exited, items, behind, lost>>

\* What a walk takes for a header: bytes that are none can look like any.
HeadersAt(p) ==
    IF mem[p] = Bytes THEN {NvLine(s[1], s[2], "CONSUMED") : s \in Sizes}
    ELSE {mem[p]}

\* The walk is past the last item of the log and still between head and tail.
PastLastItem(p) ==
    \/ items = <<>>
    \/ LET last == items[Len(items)]
       IN  p = Following(last.at, last)

\* An item in another state, or of another key, is passed; one whose key is
\* being written is waited for.
FindPasses ==
    /\ walk.op = "find"
    /\ Between(walk.at)
    /\ mem[walk.at].state # "WRITING"
    /\ \E line \in HeadersAt(walk.at) :
          walk' = [walk EXCEPT !.at = Following(walk.at, line)]
    /\ lost' = (lost \/ (Between(walk'.at) /\ PastLastItem(walk'.at))
                     \/ items = <<>>)
    /\ UNCHANGED <<head, next, tail, capacity, mem, exited, items, behind>>

FindHits ==
    /\ walk.op = "find"
    /\ Between(walk.at)
    /\ mem[walk.at].state \in {"WAITING", "WRITING_TO_SSD"}
    /\ walk' = NoWalk
    /\ UNCHANGED <<head, next, tail, capacity, mem, exited, items, behind, lost>>

FindMisses ==
    /\ walk.op = "find"
    /\ ~Between(walk.at)
    /\ walk' = NoWalk
    /\ UNCHANGED <<head, next, tail, capacity, mem, exited, items, behind, lost>>

-----------------------------------------------------------------------------

Init ==
    /\ head = 0 /\ next = 0 /\ tail = 0 /\ capacity = BufSize
    /\ mem = [p \in Offset |-> Fresh]
    /\ walk = NoWalk
    /\ exited = FALSE
    /\ items = <<>> /\ behind = 0
    /\ lost = FALSE

\* Once a lock holder is past the last item the log is undefined, and only a
\* find that is under way is followed further.
Next ==
    /\ ~exited
    /\ \/ /\ ~lost
          /\ \/ \E s \in Sizes : Allocate(s[1], s[2])
             \/ \E i \in 1 .. Len(items) : Write(items[i]) \/ Consume(items[i])
             \/ Claim \/ ClaimAgain
             \/ StartInvalidate \/ InvalidateItem \/ EndInvalidate
             \/ StartFind
       \/ FindPasses \/ FindHits \/ FindMisses

Spec == Init /\ [][Next]_vars

-----------------------------------------------------------------------------
(* Properties. *)

HeaderOf(i) == i.at .. i.at + Header - 1
Footprint(i) == HeaderOf(i) \cup PayloadOf(i)
Used == UNION {Footprint(items[n]) : n \in 1 .. Len(items)}

TypeOK ==
    /\ head \in Offset /\ next \in 0 .. BufSize /\ tail \in 0 .. BufSize
    /\ capacity \in Nat
    /\ mem \in [Offset -> [keylen : Nat, vallen : Nat,
                           state : States \cup {"BYTES"}]]
    /\ walk \in [op : {"none", "find", "invalidate"}, at : Offset,
                 pastNext : BOOLEAN]
    /\ exited \in BOOLEAN /\ lost \in BOOLEAN

\* No two items of the log share a byte and no header is split by the end of
\* the buffer, wherever allocations wrap, skip the gap or reuse freed bytes.
NoOverlap ==
    /\ \A n \in 1 .. Len(items) : HeaderOf(items[n]) \subseteq Offset
    /\ \A m, n \in 1 .. Len(items) :
         m # n => Footprint(items[m]) \cap Footprint(items[n]) = {}

\* Walking from head with the lengths found in the headers visits exactly the
\* items of the log in order: no header was overwritten by a later payload.
HeadersChain ==
    /\ \A n \in 1 .. Len(items) :
         /\ StateOf(items[n]) \in States \ {"EMPTY"}
         /\ mem[items[n].at].keylen = items[n].keylen
         /\ mem[items[n].at].vallen = items[n].vallen
    /\ \A n \in 1 .. Len(items) - 1 :
         Following(items[n].at, items[n]) = items[n + 1].at
    /\ items # <<>> /\ walk.op # "invalidate" => items[1].at = head

\* capacity counts the bytes no item and no skipped gap takes.  A log that
\* drains right before the end of the buffer counts the gap after tail twice
\* until the next allocation skips it.
SkippedGap ==
    LET gaps == {n \in 1 .. Len(items) - 1 :
                   Gap(EndOf(items[n].at, items[n])) > 0}
    IN  IF gaps = {} THEN 0
        ELSE LET n == CHOOSE g \in gaps : TRUE
             IN  Gap(EndOf(items[n].at, items[n]))

AccountingExact ==
    capacity = BufSize - Cardinality(Used) - SkippedGap
                 + (IF items = <<>> THEN Gap(tail) ELSE 0)

\* next is the first item it has not passed, or where the next item will be
\* placed: claim_next never reads a header that is none.
NextOnItem ==
    walk.op # "invalidate" =>
      next = IF behind = Len(items) THEN Placement ELSE items[behind + 1].at

\* The log keeps its order as a queue (LogQueue) as long as nobody goes past
\* its last item, whatever bytes its items occupy.
Queue == INSTANCE LogQueue WITH
    queue <- [n \in 1 .. Len(items) |-> StateOf(items[n]) = "CONSUMED"],
    claimed <- behind

ImplementsQueue == Queue!Spec

\* The two NEXT IS BAD checks (NVDIMM.c:742-750, 859-868) assert that next is
\* in the log or at its tail.
NextCheckHolds == ~exited
=============================================================================
