----------------------------- MODULE NvLogProofs -----------------------------
(***************************************************************************)
(* Proofs about the log's threads, for every number of workers (below      *)
(* 255), slots, keys and values.                                           *)
(*                                                                         *)
(* First, of NvLog: the inductive invariant IInv adds to its properties    *)
(* what each thread owes to the item it holds, that is which state bit     *)
(* protects it and that no other thread clears that bit.  It also shows    *)
(* that the log is a LogQueue.                                             *)
(*                                                                         *)
(* Then, from IInv, of what the clients may expect (NvLogHistory).  For    *)
(* any number of workers: no item leaves the log before its value was      *)
(* stored or superseded, and an answered key stays in the log or the       *)
(* store.  For the only worker of a server: what a GET then finds, and     *)
(* that only complete values are written out.                              *)
(***************************************************************************)
EXTENDS NvLogHistory, FiniteSetTheorems, SequenceTheorems, TLAPS

OldPcs == {"set_mark", "set_unread", "get_copy", "get_unread"}
WritePcs == {"write_key", "write_val"}
AllPcs == {"idle"} \cup SetPcs \cup GetPcs \cup FlushPcs

\* A thread has a pointer to an item exactly while its pc says so.
PointersFollowPc ==
    \A t \in Threads : /\ old[t] # NoSlot <=> pc[t] \in OldPcs
                       /\ it[t] # NoSlot <=> pc[t] \in WritePcs \cup FlushingPcs

\* The bit a writer or a flusher has set in its item is still there.
BitsHeld ==
    \A t \in Threads :
        /\ pc[t] = "write_key" => "WRITING_KEY" \in item[it[t]].state
        /\ pc[t] = "write_val" => "WRITING_VAL" \in item[it[t]].state
        /\ pc[t] \in FlushingPcs => "WRITING_TO_SSD" \in item[it[t]].state

OneWriterPerItem ==
    \A t, u \in Threads :
        t # u /\ pc[t] \in WritePcs /\ pc[u] \in WritePcs => it[t] # it[u]

\* A worker keeps its request until it answers, and the item it found for the
\* key of that request is no longer having a key written into it.
RequestHeld ==
    /\ \A w \in Workers : pc[w] # "idle" => key[w] # NoKey
    /\ FoundItemKeepsItsKey
    /\ \A w \in Workers :
         old[w] # NoSlot => "WRITING_KEY" \notin item[old[w]].state

IInv ==
    /\ TypeOK
    /\ RequestHeld
    /\ RingConsistent
    /\ PointersFollowPc
    /\ HeldInLog
    /\ BitsHeld
    /\ OneWriterPerItem
    /\ OneFlusherPerItem
    /\ ReadersExact
    /\ NoItemSkipped

-----------------------------------------------------------------------------
(* The ring.  All facts are linear arithmetic on offsets below Slots.      *)

\* An item of the log is not at its tail, and an empty log has no item.
LEMMA BetweenNotTail ==
    ASSUME NEW h \in Slot, NEW t \in Slot, NEW p \in Slot, IsBetween(p, h, t)
    PROVE  p # t /\ h # t
BY SlotsAssumption DEF Slot, IsBetween

\* Between means closer to head than tail is.
LEMMA BetweenIsDist ==
    ASSUME NEW h \in Slot, NEW t \in Slot, NEW p \in Slot
    PROVE  IsBetween(p, h, t) <=> Dist(h, p) < Dist(h, t)
BY SlotsAssumption DEF Slot, IsBetween, Dist

\* Moving head to h splits the distance to every point at or after h.
LEMMA DistSplit ==
    ASSUME NEW a \in Slot, NEW h \in Slot, NEW p \in Slot,
           Dist(a, h) <= Dist(a, p)
    PROVE  Dist(h, p) = Dist(a, p) - Dist(a, h)
BY SlotsAssumption DEF Slot, Dist

\* ... and a point the head has left behind is the farthest away.
LEMMA DistBehind ==
    ASSUME NEW a \in Slot, NEW h \in Slot, NEW p \in Slot,
           Dist(a, p) < Dist(a, h)
    PROVE  Dist(h, p) = Dist(a, p) - Dist(a, h) + Slots
BY SlotsAssumption DEF Slot, Dist

LEMMA DistRange ==
    ASSUME NEW p \in Slot, NEW q \in Slot
    PROVE  /\ Dist(p, q) \in 0 .. Slots - 1
           /\ Dist(p, q) = 0 <=> p = q
BY SlotsAssumption DEF Slot, Dist

LEMMA DistInjective ==
    ASSUME NEW h \in Slot, NEW p \in Slot, NEW q \in Slot,
           Dist(h, p) = Dist(h, q)
    PROVE  p = q
BY SlotsAssumption DEF Slot, Dist

LEMMA SuccDist ==
    ASSUME NEW h \in Slot, NEW p \in Slot
    PROVE  /\ Succ(p) \in Slot
           /\ Succ(p) # h => Dist(h, Succ(p)) = Dist(h, p) + 1
           /\ Succ(p) = h <=> Dist(h, p) = Slots - 1
BY SlotsAssumption DEF Slot, Dist, Succ

-----------------------------------------------------------------------------
(* Changes of one item. *)

LEMMA ReaderCountType ==
    ASSUME NEW r \in ReaderValues
    PROVE  /\ IncReaders(r) \in ReaderValues
           /\ DecReaders(r) \in ReaderValues
BY DEF IncReaders, DecReaders, ReaderValues

LEMMA AddReaderType ==
    ASSUME NEW i \in Item
    PROVE  /\ AddReader(i) \in Item
           /\ AddReader(i).key = i.key
           /\ AddReader(i).val = i.val
           /\ AddReader(i).state = i.state \cup {"READING"}
           /\ AddReader(i).readers = IncReaders(i.readers)
<1>1. /\ i.state \cup {"READING"} \in SUBSET Flags
      /\ IncReaders(i.readers) \in ReaderValues
  BY ReaderCountType DEF Item, Flags
<1>2. AddReader(i) \in Item
  BY <1>1 DEF AddReader, Item
<1>3. AddReader(i).key = i.key /\ AddReader(i).val = i.val
  BY DEF AddReader, Item
<1>4. /\ AddReader(i).state = i.state \cup {"READING"}
      /\ AddReader(i).readers = IncReaders(i.readers)
  BY DEF AddReader, Item
<1>5. QED
  BY <1>2, <1>3, <1>4

LEMMA RemoveReaderType ==
    ASSUME NEW i \in Item
    PROVE  /\ RemoveReader(i) \in Item
           /\ RemoveReader(i).readers = DecReaders(i.readers)
           /\ RemoveReader(i).key = i.key
           /\ RemoveReader(i).val = i.val
           /\ RemoveReader(i).state =
                IF DecReaders(i.readers) = 0 THEN i.state \ {"READING"}
                ELSE i.state
<1> DEFINE s == IF DecReaders(i.readers) = 0 THEN i.state \ {"READING"}
                ELSE i.state
<1>1. s \in SUBSET Flags /\ DecReaders(i.readers) \in ReaderValues
  BY ReaderCountType DEF Item
<1>2. RemoveReader(i) = [i EXCEPT !.readers = DecReaders(i.readers),
                                  !.state = s]
  BY DEF RemoveReader
<1>3. RemoveReader(i) \in Item
  BY <1>1, <1>2 DEF Item
<1>4. RemoveReader(i).key = i.key /\ RemoveReader(i).val = i.val
  BY <1>2 DEF Item
<1>5. /\ RemoveReader(i).state = s
      /\ RemoveReader(i).readers = DecReaders(i.readers)
  BY <1>2 DEF Item
<1>6. QED
  BY <1>3, <1>4, <1>5

LEMMA ClaimedType ==
    ASSUME NEW i \in Item
    PROVE  /\ Claimed(i) \in Item
           /\ Claimed(i).readers = IncReaders(i.readers)
           /\ Claimed(i).key = i.key
           /\ Claimed(i).val = i.val
           /\ Claimed(i).state =
                ((i.state \cup {"WRITING_TO_SSD"}) \ {"WAITING"})
                  \cup {"READING"}
<1> DEFINE j == [i EXCEPT
                  !.state = (@ \cup {"WRITING_TO_SSD"}) \ {"WAITING"}]
<1>1. (i.state \cup {"WRITING_TO_SSD"}) \ {"WAITING"} \in SUBSET Flags
  BY DEF Item, Flags
<1>2. j = [key |-> i.key, val |-> i.val,
           state |-> (i.state \cup {"WRITING_TO_SSD"}) \ {"WAITING"},
           readers |-> i.readers]
  BY DEF Item
<1>3. j \in Item
  BY <1>1, <1>2 DEF Item
<1>4. Claimed(i) = AddReader(j)
  BY DEF Claimed
<1>5. QED
  BY <1>2, <1>3, <1>4, AddReaderType

-----------------------------------------------------------------------------
(* Counting readers. *)

\* There are at most 255 threads, so no reader count overflows its byte.
LEMMA ThreadsFinite ==
    /\ IsFiniteSet(Threads)
    /\ Cardinality(Threads) \in Nat
    /\ Cardinality(Threads) <= 255
<1>1. IsFiniteSet(Workers) /\ Maint \notin Workers
      /\ Cardinality(Workers) < 255
  BY ThreadsAssumption
<1>2. Cardinality(Workers) \in Nat
  BY <1>1, FS_CardinalityType
<1>3. /\ IsFiniteSet(Workers \cup {Maint})
      /\ Cardinality(Workers \cup {Maint}) = Cardinality(Workers) + 1
  BY <1>1, FS_AddElement
<1>4. QED
  BY <1>1, <1>2, <1>3 DEF Threads

LEMMA ReadersFinite ==
    ASSUME NEW S \in SUBSET Threads
    PROVE  /\ IsFiniteSet(S)
           /\ Cardinality(S) \in Nat
           /\ \A t \in Threads \ S : Cardinality(S) < 255
<1>1. IsFiniteSet(S) /\ Cardinality(S) \in Nat
  BY ThreadsFinite, FS_Subset, FS_CardinalityType
<1>2. ASSUME NEW t \in Threads \ S
      PROVE  Cardinality(S) < 255
  <2>1. /\ IsFiniteSet(S \cup {t})
        /\ Cardinality(S \cup {t}) = Cardinality(S) + 1
    BY <1>1, <1>2, FS_AddElement
  <2>2. S \cup {t} \subseteq Threads
    BY <1>2
  <2>3. Cardinality(S \cup {t}) <= Cardinality(Threads)
    BY <2>2, ThreadsFinite, FS_Subset
  <2>4. QED
    BY <1>1, <2>1, <2>3, ThreadsFinite
<1>3. QED
  BY <1>1, <1>2

LEMMA ReaderAdded ==
    ASSUME NEW S \in SUBSET Threads, NEW t \in Threads \ S
    PROVE  /\ Cardinality(S \cup {t}) = IncReaders(Cardinality(S))
           /\ Cardinality(S \cup {t}) > 0
<1>1. IsFiniteSet(S) /\ Cardinality(S) \in Nat /\ Cardinality(S) < 255
  BY ReadersFinite
<1>2. Cardinality(S \cup {t}) = Cardinality(S) + 1
  BY <1>1, FS_AddElement
<1>3. QED
  BY <1>1, <1>2 DEF IncReaders

LEMMA ReaderLeft ==
    ASSUME NEW S \in SUBSET Threads, NEW t \in S
    PROVE  /\ Cardinality(S \ {t}) = DecReaders(Cardinality(S))
           /\ Cardinality(S) > 0
<1>1. IsFiniteSet(S) /\ Cardinality(S) \in Nat
  BY ReadersFinite
<1>2. Cardinality(S \ {t}) = Cardinality(S) - 1
  BY <1>1, FS_RemoveElement
<1>3. IsFiniteSet(S \ {t}) /\ Cardinality(S \ {t}) \in Nat
  BY <1>1, FS_Subset, FS_CardinalityType
<1>4. QED
  BY <1>1, <1>2, <1>3 DEF DecReaders

-----------------------------------------------------------------------------
(* Items in use are not evictable: what NVDIMM_invalidate relies on. *)

LEMMA HeldNotEvictable ==
    ASSUME IInv, NEW t \in Threads
    PROVE  /\ old[t] # NoSlot => ~IsEvictable(old[t])
           /\ it[t] # NoSlot => ~IsEvictable(it[t])
<1>1. ASSUME old[t] # NoSlot
      PROVE  ~IsEvictable(old[t])
  <2>1. old[t] \in Slot /\ t \in ReadersOf(old[t])
    BY <1>1 DEF IInv, TypeOK, ReadersOf
  <2>2. ReadersOf(old[t]) \in SUBSET Threads
    BY DEF ReadersOf
  <2>3. item[old[t]].readers > 0
    BY <2>1, <2>2, ReaderLeft DEF IInv, ReadersExact
  <2>4. "READING" \in item[old[t]].state
    BY <2>1, <2>3 DEF IInv, ReadersExact
  <2>5. QED
    BY <2>4 DEF IsEvictable
<1>2. ASSUME it[t] # NoSlot
      PROVE  ~IsEvictable(it[t])
  <2>1. pc[t] \in WritePcs \cup FlushingPcs
    BY <1>2 DEF IInv, PointersFollowPc
  <2>2. item[it[t]].state
          \cap {"WRITING_KEY", "WRITING_VAL", "WRITING_TO_SSD"} # {}
    BY <2>1 DEF IInv, BitsHeld, WritePcs
  <2>3. QED
    BY <2>2 DEF IsEvictable
<1>3. QED
  BY <1>1, <1>2

-----------------------------------------------------------------------------
(* Steps that change no item and no pointer. *)

\* The two program points owe the same things to the items a thread holds.
SameDuty(a, b) ==
    /\ a \in OldPcs <=> b \in OldPcs
    /\ a \in FlushReadPcs <=> b \in FlushReadPcs
    /\ a \in FlushingPcs <=> b \in FlushingPcs
    /\ a = "write_key" <=> b = "write_key"
    /\ a = "write_val" <=> b = "write_val"

\* A step that only moves a thread between points with the same duties.
LEMMA LocalStep ==
    ASSUME IInv, TypeOK', RequestHeld',
           NEW t \in Threads, NEW l \in AllPcs,
           pc' = [pc EXCEPT ![t] = l],
           SameDuty(pc[t], l),
           UNCHANGED <<head, next, tail, capacity, item, it, old>>
    PROVE  IInv'
<1> USE DEF IInv
<1>1. \A u \in Threads : SameDuty(pc[u], pc'[u])
  BY DEF TypeOK, SameDuty
<1>2. RingConsistent'
  BY DEF RingConsistent, NextIsBad, IsBetween, Dist
<1>3. PointersFollowPc'
  BY <1>1 DEF PointersFollowPc, SameDuty, WritePcs
<1>4. HeldInLog'
  BY DEF HeldInLog, Between, IsBetween
<1>5. BitsHeld'
  BY <1>1 DEF BitsHeld, SameDuty
<1>6. OneWriterPerItem'
  BY <1>1 DEF OneWriterPerItem, SameDuty, WritePcs
<1>7. OneFlusherPerItem'
  BY <1>1 DEF OneFlusherPerItem, SameDuty, Before, Dist
<1>8. ReadersExact'
  <2>1. ASSUME NEW p \in Slot
        PROVE  ReadersOf(p)' = ReadersOf(p)
    BY <1>1 DEF ReadersOf, SameDuty
  <2>2. QED
    BY <2>1 DEF ReadersExact
<1>9. NoItemSkipped'
  BY DEF NoItemSkipped, Between, IsBetween, Before, Dist
<1>10. QED
  BY <1>2, <1>3, <1>4, <1>5, <1>6, <1>7, <1>8, <1>9

LEMMA BeginSetStep ==
    ASSUME IInv, NEW w \in Workers, NEW k \in Keys, NEW v \in Values,
           BeginSet(w, k, v)
    PROVE  IInv'
<1>1. TypeOK'
  BY ThreadsAssumption, ValuesAssumption DEF IInv, TypeOK, RequestHeld, BeginSet,
     Goto, log, Threads, SetPcs, GetPcs, FlushPcs
<1>2. RequestHeld'
  BY ThreadsAssumption, ValuesAssumption DEF IInv, TypeOK, RequestHeld, BeginSet,
     FoundItemKeepsItsKey, PointersFollowPc, OldPcs, Goto, log, Threads
<1>3. QED
  BY <1>1, <1>2, LocalStep DEF IInv, TypeOK, BeginSet, Goto, log, Threads,
     SameDuty, OldPcs, FlushReadPcs, FlushingPcs, AllPcs, SetPcs, GetPcs,
     FlushPcs

LEMMA BeginGetStep ==
    ASSUME IInv, NEW w \in Workers, NEW k \in Keys, BeginGet(w, k)
    PROVE  IInv'
<1>1. TypeOK'
  BY ThreadsAssumption, ValuesAssumption DEF IInv, TypeOK, RequestHeld, BeginGet,
     Goto, log, Threads, SetPcs, GetPcs, FlushPcs
<1>2. RequestHeld'
  BY ThreadsAssumption, ValuesAssumption DEF IInv, TypeOK, RequestHeld, BeginGet,
     FoundItemKeepsItsKey, PointersFollowPc, OldPcs, Goto, log, Threads
<1>3. QED
  BY <1>1, <1>2, LocalStep DEF IInv, TypeOK, BeginGet, Goto, log, Threads,
     SameDuty, OldPcs, FlushReadPcs, FlushingPcs, AllPcs, SetPcs, GetPcs,
     FlushPcs

LEMMA AllocateFailsStep ==
    ASSUME IInv, NEW w \in Workers, AllocateFails(w)
    PROVE  IInv'
<1>1. TypeOK'
  BY ThreadsAssumption, ValuesAssumption DEF IInv, TypeOK, RequestHeld, AllocateFails,
     Goto, log, Threads, SetPcs, GetPcs, FlushPcs
<1>2. RequestHeld'
  BY ThreadsAssumption, ValuesAssumption DEF IInv, TypeOK, RequestHeld, AllocateFails,
     FoundItemKeepsItsKey, PointersFollowPc, OldPcs, Goto, log, Threads
<1>3. QED
  BY <1>1, <1>2, LocalStep DEF IInv, TypeOK, AllocateFails, Goto, log, Threads,
     SameDuty, OldPcs, FlushReadPcs, FlushingPcs, AllPcs, SetPcs, GetPcs,
     FlushPcs

LEMMA GetStoreStep ==
    ASSUME IInv, NEW w \in Workers, GetStore(w)
    PROVE  IInv'
<1>1. TypeOK'
  BY ThreadsAssumption, ValuesAssumption DEF IInv, TypeOK, RequestHeld, GetStore,
     Goto, log, Threads, SetPcs, GetPcs, FlushPcs
<1>2. RequestHeld'
  BY ThreadsAssumption, ValuesAssumption DEF IInv, TypeOK, RequestHeld, GetStore,
     FoundItemKeepsItsKey, PointersFollowPc, OldPcs, Goto, log, Threads
<1>3. QED
  BY <1>1, <1>2, LocalStep DEF IInv, TypeOK, GetStore, Goto, log, Threads,
     SameDuty, OldPcs, FlushReadPcs, FlushingPcs, AllPcs, SetPcs, GetPcs,
     FlushPcs

LEMMA GetReplyStep ==
    ASSUME IInv, NEW w \in Workers, GetReply(w)
    PROVE  IInv'
<1>1. TypeOK'
  BY ThreadsAssumption, ValuesAssumption DEF IInv, TypeOK, RequestHeld, GetReply,
     Goto, log, Threads, SetPcs, GetPcs, FlushPcs
<1>2. RequestHeld'
  BY ThreadsAssumption, ValuesAssumption DEF IInv, TypeOK, RequestHeld, GetReply,
     FoundItemKeepsItsKey, PointersFollowPc, OldPcs, Goto, log, Threads
<1>3. QED
  BY <1>1, <1>2, LocalStep DEF IInv, TypeOK, GetReply, Goto, log, Threads,
     SameDuty, OldPcs, FlushReadPcs, FlushingPcs, AllPcs, SetPcs, GetPcs,
     FlushPcs

LEMMA ClaimLockBusyStep ==
    ASSUME IInv, NEW t \in Threads, ClaimLockBusy(t)
    PROVE  IInv'
<1>1. TypeOK'
  BY ThreadsAssumption, ValuesAssumption DEF IInv, TypeOK, RequestHeld, ClaimLockBusy,
     Goto, log, Threads, SetPcs, GetPcs, FlushPcs, AfterWriteOut
<1>2. RequestHeld'
  BY ThreadsAssumption, ValuesAssumption DEF IInv, TypeOK, RequestHeld, ClaimLockBusy,
     FoundItemKeepsItsKey, PointersFollowPc, OldPcs, Goto, log, Threads, AfterWriteOut
<1>3. QED
  BY <1>1, <1>2, LocalStep DEF IInv, TypeOK, ClaimLockBusy, Goto, log, Threads,
     SameDuty, OldPcs, FlushReadPcs, FlushingPcs, AllPcs, SetPcs, GetPcs,
     FlushPcs, AfterWriteOut

LEMMA ClaimNothingStep ==
    ASSUME IInv, NEW t \in Threads, ClaimNothing(t)
    PROVE  IInv'
<1>1. TypeOK'
  BY ThreadsAssumption, ValuesAssumption DEF IInv, TypeOK, RequestHeld, ClaimNothing,
     Goto, log, Threads, SetPcs, GetPcs, FlushPcs, AfterWriteOut
<1>2. RequestHeld'
  BY ThreadsAssumption, ValuesAssumption DEF IInv, TypeOK, RequestHeld, ClaimNothing,
     FoundItemKeepsItsKey, PointersFollowPc, OldPcs, Goto, log, Threads, AfterWriteOut
<1>3. QED
  BY <1>1, <1>2, LocalStep DEF IInv, TypeOK, ClaimNothing, Goto, log, Threads,
     SameDuty, OldPcs, FlushReadPcs, FlushingPcs, AllPcs, SetPcs, GetPcs,
     FlushPcs, AfterWriteOut

LEMMA ClaimTooEarlyStep ==
    ASSUME IInv, NEW t \in Threads, ClaimTooEarly(t)
    PROVE  IInv'
<1>1. TypeOK'
  BY ThreadsAssumption, ValuesAssumption DEF IInv, TypeOK, RequestHeld, ClaimTooEarly,
     Goto, log, Threads, SetPcs, GetPcs, FlushPcs, AfterWriteOut
<1>2. RequestHeld'
  BY ThreadsAssumption, ValuesAssumption DEF IInv, TypeOK, RequestHeld, ClaimTooEarly,
     FoundItemKeepsItsKey, PointersFollowPc, OldPcs, Goto, log, Threads, AfterWriteOut
<1>3. QED
  BY <1>1, <1>2, LocalStep DEF IInv, TypeOK, ClaimTooEarly, Goto, log, Threads,
     SameDuty, OldPcs, FlushReadPcs, FlushingPcs, AllPcs, SetPcs, GetPcs,
     FlushPcs, AfterWriteOut

LEMMA CheckBetweenStep ==
    ASSUME IInv, NEW t \in Threads, CheckBetween(t)
    PROVE  IInv'
<1>1. TypeOK'
  BY ThreadsAssumption, ValuesAssumption DEF IInv, TypeOK, RequestHeld, CheckBetween,
     Goto, log, Threads, SetPcs, GetPcs, FlushPcs
<1>2. RequestHeld'
  BY ThreadsAssumption, ValuesAssumption DEF IInv, TypeOK, RequestHeld, CheckBetween,
     FoundItemKeepsItsKey, PointersFollowPc, OldPcs, Goto, log, Threads
<1>3. QED
  BY <1>1, <1>2, LocalStep DEF IInv, TypeOK, CheckBetween, Goto, log, Threads,
     SameDuty, OldPcs, FlushReadPcs, FlushingPcs, AllPcs, SetPcs, GetPcs,
     FlushPcs

LEMMA CheckTailStep ==
    ASSUME IInv, NEW t \in Threads, CheckTail(t)
    PROVE  IInv'
<1>1. TypeOK'
  BY ThreadsAssumption, ValuesAssumption DEF IInv, TypeOK, RequestHeld, CheckTail,
     Goto, log, Threads, SetPcs, GetPcs, FlushPcs
<1>2. RequestHeld'
  BY ThreadsAssumption, ValuesAssumption DEF IInv, TypeOK, RequestHeld, CheckTail,
     FoundItemKeepsItsKey, PointersFollowPc, OldPcs, Goto, log, Threads
<1>3. QED
  BY <1>1, <1>2, LocalStep DEF IInv, TypeOK, CheckTail, Goto, log, Threads,
     SameDuty, OldPcs, FlushReadPcs, FlushingPcs, AllPcs, SetPcs, GetPcs,
     FlushPcs

LEMMA FlushStoreStep ==
    ASSUME IInv, NEW t \in Threads, FlushStore(t)
    PROVE  IInv'
<1>1. TypeOK'
  BY ThreadsAssumption, ValuesAssumption DEF IInv, TypeOK, RequestHeld, FlushStore,
     Goto, log, Threads, SetPcs, GetPcs, FlushPcs
<1>2. RequestHeld'
  BY ThreadsAssumption, ValuesAssumption DEF IInv, TypeOK, RequestHeld, FlushStore,
     FoundItemKeepsItsKey, PointersFollowPc, OldPcs, Goto, log, Threads
<1>3. QED
  BY <1>1, <1>2, LocalStep DEF IInv, TypeOK, FlushStore, Goto, log, Threads,
     SameDuty, OldPcs, FlushReadPcs, FlushingPcs, AllPcs, SetPcs, GetPcs,
     FlushPcs

LEMMA CopyStep ==
    ASSUME IInv, NEW t \in Threads, NEW p \in Slot, NEW l \in AllPcs,
           Copy(t, p, l), SameDuty(pc[t], l), pc[t] # "idle"
    PROVE  IInv'
<1>1. CopyOf(p) \subseteq Values \cup {Absent, Torn}
  BY DEF IInv, TypeOK, CopyOf, Item
<1>2. buf' \in [Threads -> Values \cup {Absent, Torn}]
  BY <1>1 DEF IInv, TypeOK, Copy
<1>3. TypeOK'
  BY <1>2 DEF IInv, TypeOK, Copy, Goto, log, AllPcs
<1>4. RequestHeld'
  BY DEF IInv, TypeOK, RequestHeld, Copy, FoundItemKeepsItsKey, Goto, log
<1>5. QED
  BY <1>3, <1>4, LocalStep DEF Copy, Goto, log

LEMMA GetCopyStep ==
    ASSUME IInv, NEW w \in Workers, GetCopy(w)
    PROVE  IInv'
<1>1. old[w] \in Slot /\ w \in Threads
  BY DEF IInv, TypeOK, PointersFollowPc, GetCopy, OldPcs, Threads
<1>2. SameDuty(pc[w], "get_unread") /\ pc[w] # "idle"
  BY DEF GetCopy, SameDuty, OldPcs, FlushReadPcs, FlushingPcs
<1>3. QED
  BY <1>1, <1>2, CopyStep DEF GetCopy, AllPcs, GetPcs

LEMMA FlushCopyStep ==
    ASSUME IInv, NEW t \in Threads, FlushCopy(t)
    PROVE  IInv'
<1>1. it[t] \in Slot
  BY DEF IInv, TypeOK, PointersFollowPc, FlushCopy, FlushReadPcs, FlushingPcs
<1>2. SameDuty(pc[t], "flush_unread") /\ pc[t] # "idle"
  BY DEF FlushCopy, SameDuty, OldPcs, FlushReadPcs, FlushingPcs
<1>3. QED
  BY <1>1, <1>2, CopyStep DEF FlushCopy, AllPcs, FlushPcs

-----------------------------------------------------------------------------
(* NVDIMM_find. *)

\* The found item gains a reader, the thread that found it.
LEMMA FindHitStep ==
    ASSUME IInv, NEW w \in Workers, NEW p \in Slot,
           NEW a \in AllPcs, NEW l \in OldPcs,
           pc[w] = a, a # "idle", a \notin OldPcs \cup WritePcs \cup FlushingPcs,
           FoundAt(key[w], p),
           item' = [item EXCEPT ![p] = AddReader(@)],
           old' = [old EXCEPT ![w] = p],
           pc' = [pc EXCEPT ![w] = l],
           UNCHANGED <<head, next, tail, capacity, store, key, val, it, buf,
                       exited>>
    PROVE  IInv'
<1> USE DEF IInv
<1>1. /\ w \in Threads /\ old[w] = NoSlot /\ it[w] = NoSlot
      /\ p # NoSlot /\ Between(p)
  BY ValuesAssumption DEF TypeOK, PointersFollowPc, Threads, FoundAt
<1>2. /\ item[p] \in Item /\ AddReader(item[p]) \in Item
      /\ item'[p].key = item[p].key
      /\ item'[p].state = item[p].state \cup {"READING"}
      /\ item'[p].readers = IncReaders(item[p].readers)
      /\ \A q \in Slot \ {p} : item'[q] = item[q]
  BY AddReaderType DEF TypeOK
<1>3. \A u \in Threads \ {w} : pc'[u] = pc[u] /\ old'[u] = old[u]
  BY DEF TypeOK
<1>4. /\ pc'[w] = l /\ old'[w] = p
      /\ l \notin WritePcs \cup FlushingPcs \cup {"idle"}
  BY <1>1 DEF TypeOK, OldPcs, WritePcs, FlushingPcs, FlushReadPcs
<1>5. TypeOK'
  BY <1>1, <1>2 DEF TypeOK, OldPcs, SetPcs, GetPcs
<1>6. RequestHeld'
  <2>1. item[p].key = key[w] /\ "WRITING_KEY" \notin item[p].state
    BY DEF FoundAt, Matches, KeyPending
  <2>2. QED
    BY <1>1, <1>2, <1>3, <1>4, <2>1
    DEF RequestHeld, FoundItemKeepsItsKey, TypeOK, Threads
<1>7. RingConsistent'
  BY DEF RingConsistent, NextIsBad, IsBetween, Dist
<1>8. PointersFollowPc'
  BY <1>1, <1>3, <1>4 DEF PointersFollowPc
<1>9. HeldInLog'
  BY <1>1, <1>3, <1>4 DEF HeldInLog, Between, IsBetween
<1>10. BitsHeld'
  BY <1>1, <1>2, <1>3, <1>4
  DEF BitsHeld, TypeOK, PointersFollowPc, WritePcs, FlushingPcs
<1>11. OneWriterPerItem'
  BY <1>3, <1>4 DEF OneWriterPerItem
<1>12. OneFlusherPerItem'
  BY <1>3, <1>4 DEF OneFlusherPerItem, Before, Dist
<1>13. ReadersExact'
  <2>1. ReadersOf(p)' = ReadersOf(p) \cup {w} /\ w \notin ReadersOf(p)
    BY <1>1, <1>3, <1>4 DEF ReadersOf
  <2>2. ReadersOf(p) \in SUBSET Threads
    BY DEF ReadersOf
  <2>3. /\ item'[p].readers = Cardinality(ReadersOf(p)')
        /\ item'[p].readers > 0
    BY <1>1, <1>2, <2>1, <2>2, ReaderAdded, SMTT(30) DEF ReadersExact
  <2>4. ASSUME NEW q \in Slot \ {p}
        PROVE  ReadersOf(q)' = ReadersOf(q)
    BY <1>1, <1>3, <1>4, ValuesAssumption DEF ReadersOf, FlushingPcs
  <2>5. QED
    BY <1>2, <2>3, <2>4 DEF ReadersExact
<1>14. NoItemSkipped'
  BY <1>2 DEF NoItemSkipped, Between, IsBetween, Before, Dist
<1>15. QED
  BY <1>5, <1>6, <1>7, <1>8, <1>9, <1>10, <1>11, <1>12, <1>13, <1>14

LEMMA SetFindStep ==
    ASSUME IInv, NEW w \in Workers, SetFind(w)
    PROVE  IInv'
<1>1. CASE \E p \in Slot :
             /\ FoundAt(key[w], p)
             /\ item' = [item EXCEPT ![p] = AddReader(@)]
             /\ old' = [old EXCEPT ![w] = p]
             /\ Goto(w, "set_mark")
  BY <1>1, FindHitStep
  DEF SetFind, Goto, log, OldPcs, AllPcs, SetPcs, WritePcs, FlushingPcs,
      FlushReadPcs
<1>2. CASE Goto(w, "alloc") /\ UNCHANGED <<item, old>>
  <2>1. TypeOK' /\ RequestHeld'
    BY <1>2 DEF IInv, TypeOK, RequestHeld, FoundItemKeepsItsKey, SetFind,
       Goto, log, Threads, SetPcs
  <2>2. QED
    BY <1>2, <2>1, LocalStep DEF IInv, TypeOK, SetFind, Goto, log, Threads,
       SameDuty, OldPcs, FlushReadPcs, FlushingPcs, AllPcs, SetPcs
<1>3. QED
  BY <1>1, <1>2 DEF SetFind, Find

LEMMA GetFindStep ==
    ASSUME IInv, NEW w \in Workers, GetFind(w)
    PROVE  IInv'
<1>1. CASE \E p \in Slot :
             /\ FoundAt(key[w], p)
             /\ item' = [item EXCEPT ![p] = AddReader(@)]
             /\ old' = [old EXCEPT ![w] = p]
             /\ Goto(w, "get_copy")
  BY <1>1, FindHitStep
  DEF GetFind, Goto, log, OldPcs, AllPcs, GetPcs, WritePcs, FlushingPcs,
      FlushReadPcs
<1>2. CASE Goto(w, "get_store") /\ UNCHANGED <<item, old>>
  <2>1. TypeOK' /\ RequestHeld'
    BY <1>2 DEF IInv, TypeOK, RequestHeld, FoundItemKeepsItsKey, GetFind,
       Goto, log, Threads, GetPcs
  <2>2. QED
    BY <1>2, <2>1, LocalStep DEF IInv, TypeOK, GetFind, Goto, log, Threads,
       SameDuty, OldPcs, FlushReadPcs, FlushingPcs, AllPcs, GetPcs
<1>3. QED
  BY <1>1, <1>2 DEF GetFind, Find

-----------------------------------------------------------------------------
(* remove_state(NVD_READING): a reader leaves. *)

LEMMA UnreadStep ==
    ASSUME IInv, NEW w \in Workers, NEW l \in AllPcs,
           pc[w] \in OldPcs,
           l \notin OldPcs \cup WritePcs \cup FlushingPcs \cup {"idle"},
           item' = [item EXCEPT ![old[w]] = RemoveReader(@)],
           old' = [old EXCEPT ![w] = NoSlot],
           pc' = [pc EXCEPT ![w] = l],
           UNCHANGED <<head, next, tail, capacity, store, key, val, it, buf,
                       exited>>
    PROVE  IInv'
<1> USE DEF IInv
<1>0. PICK p \in Slot : p = old[w]
  BY DEF TypeOK, PointersFollowPc, Threads
<1>1. /\ w \in Threads /\ p \in Slot /\ p # NoSlot /\ it[w] = NoSlot
      /\ pc[w] \notin WritePcs \cup FlushingPcs \cup {"idle"}
  BY <1>0, ValuesAssumption
  DEF TypeOK, PointersFollowPc, Threads, OldPcs, WritePcs, FlushingPcs,
      FlushReadPcs
<1>2. /\ item[p] \in Item /\ RemoveReader(item[p]) \in Item
      /\ item'[p].key = item[p].key
      /\ item'[p].state = IF DecReaders(item[p].readers) = 0
                         THEN item[p].state \ {"READING"}
                         ELSE item[p].state
      /\ item'[p].readers = DecReaders(item[p].readers)
      /\ \A q \in Slot \ {p} : item'[q] = item[q]
  BY <1>0, <1>1, RemoveReaderType DEF TypeOK
<1>3. \A u \in Threads \ {w} : pc'[u] = pc[u] /\ old'[u] = old[u]
  BY DEF TypeOK
<1>4. pc'[w] = l /\ old'[w] = NoSlot
  BY <1>0, <1>1 DEF TypeOK
<1>5. TypeOK'
  BY <1>0, <1>1, <1>2 DEF TypeOK, AllPcs
<1>6. RequestHeld'
  BY <1>0, <1>1, <1>2, <1>3, <1>4
  DEF RequestHeld, FoundItemKeepsItsKey, TypeOK, Threads
<1>7. RingConsistent'
  BY DEF RingConsistent, NextIsBad, IsBetween, Dist
<1>8. PointersFollowPc'
  BY <1>0, <1>1, <1>3, <1>4 DEF PointersFollowPc
<1>9. HeldInLog'
  BY <1>3, <1>4 DEF HeldInLog, Between, IsBetween
<1>10. BitsHeld'
  BY <1>0, <1>1, <1>2, <1>3, <1>4
  DEF BitsHeld, TypeOK, PointersFollowPc, WritePcs, FlushingPcs
<1>11. OneWriterPerItem'
  BY <1>3, <1>4 DEF OneWriterPerItem
<1>12. OneFlusherPerItem'
  BY <1>3, <1>4 DEF OneFlusherPerItem, Before, Dist
<1>13. ReadersExact'
  <2>1. ReadersOf(p)' = ReadersOf(p) \ {w} /\ w \in ReadersOf(p)
    BY <1>0, <1>1, <1>3, <1>4 DEF ReadersOf
  <2>2. ReadersOf(p) \in SUBSET Threads
    BY DEF ReadersOf
  <2>3. /\ item[p].readers = Cardinality(ReadersOf(p))
        /\ Cardinality(ReadersOf(p)) > 0
        /\ Cardinality(ReadersOf(p) \ {w})
             = DecReaders(Cardinality(ReadersOf(p)))
        /\ Cardinality(ReadersOf(p) \ {w}) \in Nat
    BY <1>0, <1>1, <2>1, <2>2, ReaderLeft, ReadersFinite DEF ReadersExact
  <2>4. /\ item'[p].readers = Cardinality(ReadersOf(p)')
        /\ item'[p].readers \in Nat
        /\ "READING" \in item'[p].state <=> item'[p].readers # 0
    BY <1>0, <1>1, <1>2, <2>1, <2>3 DEF ReadersExact
  <2>5. ASSUME NEW q \in Slot \ {p}
        PROVE  ReadersOf(q)' = ReadersOf(q)
    BY <1>0, <1>1, <1>3, <1>4, ValuesAssumption DEF ReadersOf, FlushingPcs
  <2>6. QED
    BY <1>2, <2>4, <2>5 DEF ReadersExact
<1>14. NoItemSkipped'
  BY <1>2 DEF NoItemSkipped, Between, IsBetween, Before, Dist
<1>15. QED
  BY <1>5, <1>6, <1>7, <1>8, <1>9, <1>10, <1>11, <1>12, <1>13, <1>14

LEMMA SetUnreadStep ==
    ASSUME IInv, NEW w \in Workers, SetUnread(w)
    PROVE  IInv'
BY UnreadStep DEF SetUnread, Goto, log, OldPcs, AllPcs, SetPcs, WritePcs,
   FlushingPcs, FlushReadPcs

LEMMA GetUnreadStep ==
    ASSUME IInv, NEW w \in Workers, GetUnread(w)
    PROVE  IInv'
BY UnreadStep DEF GetUnread, Goto, log, OldPcs, AllPcs, GetPcs, WritePcs,
   FlushingPcs, FlushReadPcs

\* A flusher that has copied its item keeps it, but reads it no longer.
LEMMA FlushUnreadStep ==
    ASSUME IInv, NEW t \in Threads, FlushUnread(t)
    PROVE  IInv'
<1> USE DEF IInv
<1>0. PICK p \in Slot : p = it[t]
  BY DEF TypeOK, PointersFollowPc, FlushingPcs, FlushReadPcs, FlushUnread
<1>1. /\ p \in Slot /\ p # NoSlot /\ old[t] = NoSlot
      /\ pc[t] = "flush_unread"
      /\ UNCHANGED <<head, next, tail, capacity, store, key, val, it, old,
                     buf, exited>>
  BY <1>0, ValuesAssumption
  DEF TypeOK, PointersFollowPc, OldPcs, FlushingPcs, FlushReadPcs,
      FlushUnread, log
<1>2. /\ item[p] \in Item /\ RemoveReader(item[p]) \in Item
      /\ item'[p].key = item[p].key
      /\ item'[p].state = IF DecReaders(item[p].readers) = 0
                         THEN item[p].state \ {"READING"}
                         ELSE item[p].state
      /\ item'[p].readers = DecReaders(item[p].readers)
      /\ \A q \in Slot \ {p} : item'[q] = item[q]
  BY <1>0, <1>1, RemoveReaderType DEF TypeOK, FlushUnread
<1>3. /\ pc'[t] = "flush_store"
      /\ \A u \in Threads \ {t} : pc'[u] = pc[u]
  BY <1>0, <1>1 DEF TypeOK, FlushUnread, Goto
<1>4. TypeOK'
  BY <1>0, <1>1, <1>2 DEF TypeOK, FlushUnread, Goto, FlushPcs
<1>5. RequestHeld'
  BY <1>0, <1>1, <1>2, <1>3 DEF RequestHeld, FoundItemKeepsItsKey, TypeOK, Threads
<1>6. RingConsistent'
  BY <1>0, <1>1 DEF RingConsistent, NextIsBad, IsBetween, Dist
<1>7. PointersFollowPc'
  BY <1>0, <1>1, <1>3 DEF PointersFollowPc, OldPcs, FlushingPcs, FlushReadPcs
<1>8. HeldInLog'
  BY <1>0, <1>1 DEF HeldInLog, Between, IsBetween
<1>9. BitsHeld'
  BY <1>0, <1>1, <1>2, <1>3
  DEF BitsHeld, TypeOK, PointersFollowPc, WritePcs, FlushingPcs, FlushReadPcs
<1>10. OneWriterPerItem'
  BY <1>0, <1>1, <1>3 DEF OneWriterPerItem, WritePcs
<1>11. OneFlusherPerItem'
  BY <1>0, <1>1, <1>3
  DEF OneFlusherPerItem, Before, Dist, FlushingPcs, FlushReadPcs
<1>12. ReadersExact'
  <2>1. ReadersOf(p)' = ReadersOf(p) \ {t} /\ t \in ReadersOf(p)
    <3>1. \A u \in Threads \ {t} :
             u \in ReadersOf(p)' <=> u \in ReadersOf(p)
      BY <1>0, <1>1, <1>3 DEF ReadersOf
    <3>2. t \in ReadersOf(p) /\ t \notin ReadersOf(p)'
      BY <1>0, <1>1, <1>3 DEF ReadersOf, FlushReadPcs
    <3>3. ReadersOf(p)' \subseteq Threads /\ ReadersOf(p) \subseteq Threads
      BY DEF ReadersOf
    <3>4. QED
      BY <3>1, <3>2, <3>3
  <2>2. ReadersOf(p) \in SUBSET Threads
    BY DEF ReadersOf
  <2>3. /\ item[p].readers = Cardinality(ReadersOf(p))
        /\ Cardinality(ReadersOf(p)) > 0
        /\ Cardinality(ReadersOf(p) \ {t})
             = DecReaders(Cardinality(ReadersOf(p)))
        /\ Cardinality(ReadersOf(p) \ {t}) \in Nat
    BY <1>0, <1>1, <2>1, <2>2, ReaderLeft, ReadersFinite DEF ReadersExact
  <2>4. /\ item'[p].readers = Cardinality(ReadersOf(p)')
        /\ item'[p].readers \in Nat
        /\ "READING" \in item'[p].state <=> item'[p].readers # 0
    BY <1>0, <1>1, <1>2, <2>1, <2>3 DEF ReadersExact
  <2>5. ASSUME NEW q \in Slot \ {p}
        PROVE  ReadersOf(q)' = ReadersOf(q)
    BY <1>0, <1>1, <1>3 DEF ReadersOf
  <2>6. QED
    BY <1>2, <2>4, <2>5 DEF ReadersExact
<1>13. NoItemSkipped'
  BY <1>0, <1>1, <1>2 DEF NoItemSkipped, Between, IsBetween, Before, Dist
<1>14. QED
  BY <1>4, <1>5, <1>6, <1>7, <1>8, <1>9, <1>10, <1>11, <1>12, <1>13

-----------------------------------------------------------------------------
(* change_and_remove_state on an item a thread holds. *)

\* CONSUMED for WAITING: no bit that a writer or a flusher relies on.
LEMMA SetMarkOldStep ==
    ASSUME IInv, NEW w \in Workers, SetMarkOld(w)
    PROVE  IInv'
<1> USE DEF IInv
<1>0. PICK p \in Slot : p = old[w]
  BY DEF TypeOK, PointersFollowPc, OldPcs, Threads, SetMarkOld
<1>1. /\ w \in Threads /\ pc[w] = "set_mark"
      /\ UNCHANGED <<head, next, tail, capacity, store, key, val, it, old,
                     buf, exited>>
  BY DEF Threads, SetMarkOld, log
<1>2. /\ item[p] \in Item /\ item'[p] \in Item
      /\ item'[p].key = item[p].key
      /\ item'[p].state = (item[p].state \cup {"CONSUMED"}) \ {"WAITING"}
      /\ item'[p].readers = item[p].readers
      /\ \A q \in Slot \ {p} : item'[q] = item[q]
  BY <1>0 DEF TypeOK, SetMarkOld, ChangeAndRemove, Item, Flags
<1>3. /\ pc'[w] = "set_unread"
      /\ \A u \in Threads \ {w} : pc'[u] = pc[u]
  BY <1>1 DEF TypeOK, SetMarkOld, Goto
<1>4. \A u \in Threads : SameDuty(pc[u], pc'[u])
  BY <1>1, <1>3 DEF SameDuty, OldPcs, FlushReadPcs, FlushingPcs
<1>5. TypeOK'
  BY <1>0, <1>1, <1>2
  DEF TypeOK, SetMarkOld, ChangeAndRemove, Goto, SetPcs
<1>6. RequestHeld'
  BY <1>1, <1>2, <1>3
  DEF RequestHeld, FoundItemKeepsItsKey, TypeOK, Threads
<1>7. RingConsistent'
  BY <1>1 DEF RingConsistent, NextIsBad, IsBetween, Dist
<1>8. PointersFollowPc'
  BY <1>1, <1>4 DEF PointersFollowPc, SameDuty, WritePcs
<1>9. HeldInLog'
  BY <1>1 DEF HeldInLog, Between, IsBetween
<1>10. BitsHeld'
  BY <1>1, <1>2, <1>4
  DEF BitsHeld, SameDuty, TypeOK, PointersFollowPc, WritePcs, FlushingPcs
<1>11. OneWriterPerItem'
  BY <1>1, <1>4 DEF OneWriterPerItem, SameDuty, WritePcs
<1>12. OneFlusherPerItem'
  BY <1>1, <1>4 DEF OneFlusherPerItem, SameDuty, Before, Dist
<1>13. ReadersExact'
  <2>1. ASSUME NEW q \in Slot
        PROVE  ReadersOf(q)' = ReadersOf(q)
    BY <1>1, <1>4 DEF ReadersOf, SameDuty
  <2>2. QED
    BY <1>2, <2>1 DEF ReadersExact
<1>14. NoItemSkipped'
  BY <1>1, <1>2 DEF NoItemSkipped, Between, IsBetween, Before, Dist
<1>15. QED
  BY <1>5, <1>6, <1>7, <1>8, <1>9, <1>10, <1>11, <1>12, <1>13, <1>14

\* The key is complete: only now can another thread find the item.
LEMMA WriteKeyStep ==
    ASSUME IInv, NEW w \in Workers, WriteKey(w)
    PROVE  IInv'
<1> USE DEF IInv
<1>0. PICK p \in Slot : p = it[w]
  BY DEF TypeOK, PointersFollowPc, WritePcs, Threads, WriteKey
<1>1. /\ w \in Threads /\ pc[w] = "write_key" /\ p # NoSlot
      /\ old[w] = NoSlot
      /\ UNCHANGED <<head, next, tail, capacity, store, key, val, it, old,
                     buf, exited>>
  BY ValuesAssumption
  DEF Threads, TypeOK, PointersFollowPc, OldPcs, WriteKey, log
<1>2. /\ item[p] \in Item
      /\ item'[p].state
           = (item[p].state \cup {"WRITING_VAL"}) \ {"WRITING_KEY"}
      /\ item'[p].readers = item[p].readers
      /\ \A q \in Slot \ {p} : item'[q] = item[q]
  BY <1>0 DEF TypeOK, WriteKey, Item
<1>3. /\ pc'[w] = "write_val"
      /\ \A u \in Threads \ {w} : pc'[u] = pc[u]
  BY <1>1 DEF TypeOK, WriteKey, Goto
<1>4. TypeOK'
  <2>1. key[w] \in Keys \cup {NoKey} /\ val[w] \in Values \cup {Absent}
    BY <1>1 DEF TypeOK
  <2>2. item' \in [Slot -> Item]
    <3>1. (item[p].state \cup {"WRITING_VAL"}) \ {"WRITING_KEY"}
            \in SUBSET Flags
      BY <1>2 DEF Item, Flags
    <3>2. QED
      BY <1>0, <1>2, <2>1, <3>1 DEF TypeOK, WriteKey, Item
  <2>3. QED
    BY <1>1, <2>2 DEF TypeOK, WriteKey, Goto, SetPcs
<1>5. RequestHeld'
  <2>1. \A u \in Workers : old[u] # p
    BY <1>0, <1>1 DEF RequestHeld, BitsHeld
  <2>2. QED
    BY <1>1, <1>2, <1>3, <2>1
    DEF RequestHeld, FoundItemKeepsItsKey, TypeOK, Threads
<1>6. RingConsistent'
  BY <1>1 DEF RingConsistent, NextIsBad, IsBetween, Dist
<1>7. PointersFollowPc'
  BY <1>1, <1>3
  DEF PointersFollowPc, WritePcs, OldPcs, FlushingPcs, FlushReadPcs
<1>8. HeldInLog'
  BY <1>1 DEF HeldInLog, Between, IsBetween
<1>9. BitsHeld'
  <2>1. \A u \in Threads \ {w} : pc[u] \in WritePcs => it[u] # p
    BY <1>0, <1>1 DEF OneWriterPerItem, WritePcs
  <2>2. QED
    BY <1>0, <1>1, <1>2, <1>3, <2>1
    DEF BitsHeld, TypeOK, PointersFollowPc, WritePcs, FlushingPcs,
        FlushReadPcs
<1>10. OneWriterPerItem'
  BY <1>1, <1>3 DEF OneWriterPerItem, WritePcs
<1>11. OneFlusherPerItem'
  BY <1>1, <1>3
  DEF OneFlusherPerItem, Before, Dist, FlushingPcs, FlushReadPcs
<1>12. ReadersExact'
  <2>1. ASSUME NEW q \in Slot
        PROVE  ReadersOf(q)' = ReadersOf(q)
    BY <1>1, <1>3 DEF ReadersOf, FlushReadPcs
  <2>2. QED
    BY <1>2, <2>1 DEF ReadersExact
<1>13. NoItemSkipped'
  BY <1>1, <1>2 DEF NoItemSkipped, Between, IsBetween, Before, Dist
<1>14. QED
  BY <1>4, <1>5, <1>6, <1>7, <1>8, <1>9, <1>10, <1>11, <1>12, <1>13

\* The value is complete: the writer lets go of its item.
LEMMA WriteValStep ==
    ASSUME IInv, NEW w \in Workers, WriteVal(w)
    PROVE  IInv'
<1> USE DEF IInv
<1>0. PICK p \in Slot : p = it[w]
  BY DEF TypeOK, PointersFollowPc, WritePcs, Threads, WriteVal
<1>1. /\ w \in Threads /\ pc[w] = "write_val" /\ p # NoSlot
      /\ old[w] = NoSlot
      /\ UNCHANGED <<head, next, tail, capacity, store, old, buf, exited>>
  BY ValuesAssumption
  DEF Threads, TypeOK, PointersFollowPc, OldPcs, WriteVal, log
<1>2. /\ item[p] \in Item /\ item'[p] \in Item
      /\ item'[p].key = item[p].key
      /\ item'[p].state
           = (item[p].state \cup {"WAITING"}) \ {"WRITING_VAL"}
      /\ item'[p].readers = item[p].readers
      /\ \A q \in Slot \ {p} : item'[q] = item[q]
  BY <1>0 DEF TypeOK, WriteVal, ChangeAndRemove, Item, Flags
<1>3. /\ pc'[w] = "idle" /\ it'[w] = NoSlot
      /\ \A u \in Threads \ {w} :
           pc'[u] = pc[u] /\ it'[u] = it[u] /\ key'[u] = key[u]
  BY <1>1 DEF TypeOK, WriteVal, Goto
<1>4. TypeOK'
  BY <1>0, <1>1, <1>2 DEF TypeOK, WriteVal, ChangeAndRemove, Goto
<1>5. RequestHeld'
  BY <1>1, <1>2, <1>3
  DEF RequestHeld, FoundItemKeepsItsKey, TypeOK, Threads
<1>6. RingConsistent'
  BY <1>1 DEF RingConsistent, NextIsBad, IsBetween, Dist
<1>7. PointersFollowPc'
  BY <1>1, <1>3
  DEF PointersFollowPc, WritePcs, OldPcs, FlushingPcs, FlushReadPcs
<1>8. HeldInLog'
  BY <1>1, <1>3 DEF HeldInLog, Between, IsBetween
<1>9. BitsHeld'
  <2>1. \A u \in Threads \ {w} : pc[u] \in WritePcs => it[u] # p
    BY <1>0, <1>1 DEF OneWriterPerItem, WritePcs
  <2>2. QED
    BY <1>1, <1>2, <1>3, <2>1
    DEF BitsHeld, TypeOK, PointersFollowPc, WritePcs, FlushingPcs,
        FlushReadPcs
<1>10. OneWriterPerItem'
  BY <1>3 DEF OneWriterPerItem, WritePcs
<1>11. OneFlusherPerItem'
  BY <1>1, <1>3
  DEF OneFlusherPerItem, Before, Dist, FlushingPcs, FlushReadPcs
<1>12. ReadersExact'
  <2>1. ASSUME NEW q \in Slot
        PROVE  ReadersOf(q)' = ReadersOf(q)
    BY <1>1, <1>3 DEF ReadersOf, FlushReadPcs
  <2>2. QED
    BY <1>2, <2>1 DEF ReadersExact
<1>13. NoItemSkipped'
  BY <1>1, <1>2 DEF NoItemSkipped, Between, IsBetween, Before, Dist
<1>14. QED
  BY <1>4, <1>5, <1>6, <1>7, <1>8, <1>9, <1>10, <1>11, <1>12, <1>13

\* The item is on the SSD: the flusher lets go of it.
LEMMA ConsumeStep ==
    ASSUME IInv, NEW t \in Threads, Consume(t)
    PROVE  IInv'
<1> USE DEF IInv
<1>0. PICK p \in Slot : p = it[t]
  BY DEF TypeOK, PointersFollowPc, FlushingPcs, Consume
<1>1. /\ pc[t] = "consume" /\ p # NoSlot /\ old[t] = NoSlot
      /\ UNCHANGED <<head, next, tail, capacity, store, key, val, old, buf,
                     exited>>
  BY ValuesAssumption DEF TypeOK, PointersFollowPc, OldPcs, Consume, log
<1>2. /\ item[p] \in Item /\ item'[p] \in Item
      /\ item'[p].key = item[p].key
      /\ item'[p].state
           = (item[p].state \cup {"CONSUMED"}) \ {"WRITING_TO_SSD"}
      /\ item'[p].readers = item[p].readers
      /\ \A q \in Slot \ {p} : item'[q] = item[q]
  BY <1>0 DEF TypeOK, Consume, ChangeAndRemove, Item, Flags
<1>3. /\ pc'[t] = "flush_inval" /\ it'[t] = NoSlot
      /\ \A u \in Threads \ {t} : pc'[u] = pc[u] /\ it'[u] = it[u]
  BY <1>1 DEF TypeOK, Consume, Goto
<1>4. TypeOK'
  BY <1>0, <1>1, <1>2 DEF TypeOK, Consume, ChangeAndRemove, Goto, FlushPcs
<1>5. RequestHeld'
  BY <1>1, <1>2, <1>3
  DEF RequestHeld, FoundItemKeepsItsKey, TypeOK, Threads
<1>6. RingConsistent'
  BY <1>1 DEF RingConsistent, NextIsBad, IsBetween, Dist
<1>7. PointersFollowPc'
  BY <1>1, <1>3
  DEF PointersFollowPc, WritePcs, OldPcs, FlushingPcs, FlushReadPcs
<1>8. HeldInLog'
  BY <1>1, <1>3 DEF HeldInLog, Between, IsBetween
<1>9. BitsHeld'
  <2>1. \A u \in Threads \ {t} : pc[u] \in FlushingPcs => it[u] # p
    BY <1>0, <1>1 DEF OneFlusherPerItem, FlushingPcs
  <2>2. QED
    BY <1>1, <1>2, <1>3, <2>1
    DEF BitsHeld, TypeOK, PointersFollowPc, WritePcs, FlushingPcs,
        FlushReadPcs
<1>10. OneWriterPerItem'
  BY <1>3 DEF OneWriterPerItem, WritePcs
<1>11. OneFlusherPerItem'
  BY <1>1, <1>3
  DEF OneFlusherPerItem, Before, Dist, FlushingPcs, FlushReadPcs
<1>12. ReadersExact'
  <2>1. ASSUME NEW q \in Slot
        PROVE  ReadersOf(q)' = ReadersOf(q)
    BY <1>1, <1>3 DEF ReadersOf, FlushReadPcs
  <2>2. QED
    BY <1>2, <2>1 DEF ReadersExact
<1>13. NoItemSkipped'
  BY <1>1, <1>2 DEF NoItemSkipped, Between, IsBetween, Before, Dist
<1>14. QED
  BY <1>4, <1>5, <1>6, <1>7, <1>8, <1>9, <1>10, <1>11, <1>12, <1>13

-----------------------------------------------------------------------------
(* NVDIMM_allocate: the slot at the tail joins the log. *)

LEMMA AllocateStep ==
    ASSUME IInv, NEW w \in Workers, Allocate(w)
    PROVE  IInv'
<1> USE DEF IInv
<1>0. PICK p \in Slot : p = tail
  BY DEF TypeOK
<1>1. /\ w \in Threads /\ pc[w] = "alloc" /\ p # NoSlot
      /\ old[w] = NoSlot /\ it[w] = NoSlot
      /\ head \in Slot /\ next \in Slot
      /\ tail' = Succ(p) /\ capacity' = capacity - 1
      /\ UNCHANGED <<head, next, store, key, val, old, buf, exited>>
  BY <1>0, ValuesAssumption
  DEF Threads, TypeOK, PointersFollowPc, OldPcs, WritePcs, FlushingPcs,
      FlushReadPcs, Allocate
<1>2. /\ item' \in [Slot -> Item]
      /\ item'[p].state = {"WRITING_KEY"} /\ item'[p].readers = 0
      /\ \A q \in Slot \ {p} : item'[q] = item[q]
  <2>1. /\ item'[p] = [item[p] EXCEPT !.readers = 0,
                                     !.state = {"WRITING_KEY"}]
        /\ \A q \in Slot \ {p} : item'[q] = item[q]
        /\ item[p] \in Item
    BY <1>0 DEF TypeOK, Allocate
  <2>2. item'[p] \in Item
    <3>1. {"WRITING_KEY"} \in SUBSET Flags /\ 0 \in ReaderValues
      BY DEF Flags, ReaderValues
    <3>2. QED
      BY <2>1, <3>1 DEF Item
  <2>3. item'[p].state = {"WRITING_KEY"} /\ item'[p].readers = 0
    BY <2>1 DEF Item
  <2>4. item' = [q \in Slot |-> item'[q]]
    BY DEF TypeOK, Allocate
  <2>5. \A q \in Slot : item'[q] \in Item
    BY <2>1, <2>2 DEF TypeOK
  <2>6. QED
    BY <2>1, <2>3, <2>4, <2>5
<1>3. /\ pc'[w] = "write_key" /\ it'[w] = p
      /\ \A u \in Threads \ {w} : pc'[u] = pc[u] /\ it'[u] = it[u]
  BY <1>0, <1>1 DEF TypeOK, Allocate, Goto
<1>4. /\ tail' \in Slot
      /\ Dist(head, tail') = Dist(head, tail) + 1
      /\ Dist(head, tail) \in 0 .. Slots - 1
  <2>1. capacity > 1 /\ capacity = Slots - Dist(head, tail)
    BY DEF Allocate, RingConsistent
  <2>2. Dist(head, tail) \in 0 .. Slots - 1
    BY <1>0, <1>1, DistRange
  <2>3. Succ(tail) # head
    BY <1>0, <1>1, <2>1, <2>2, SuccDist, SlotsAssumption
  <2>4. QED
    BY <1>0, <1>1, <2>2, <2>3, SuccDist
<1>5. ASSUME NEW q \in Slot
      PROVE  /\ Between(q) <=> Dist(head, q) < Dist(head, tail)
             /\ Between(q)' <=> Between(q) \/ q = p
             /\ Before(p, q) => ~Between(q)
  <2>1. Between(q) <=> Dist(head, q) < Dist(head, tail)
    BY <1>0, <1>1, BetweenIsDist DEF Between
  <2>2. Between(q)' <=> Dist(head, q) < Dist(head, tail')
    BY <1>1, <1>4, BetweenIsDist DEF Between
  <2>3. Dist(head, q) \in 0 .. Slots - 1
    BY <1>1, DistRange
  <2>4. Dist(head, q) = Dist(head, p) => q = p
    BY <1>1, DistInjective
  <2>5. QED
    BY <1>0, <1>4, <2>1, <2>2, <2>3, <2>4 DEF Before
<1>6. \A u \in Threads : old[u] # p /\ it[u] # p
  BY <1>0, <1>1, BetweenNotTail DEF HeldInLog, Between, TypeOK
<1>7. TypeOK'
  <2>1. capacity' \in 1 .. Slots
    BY <1>1, SlotsAssumption DEF TypeOK, Allocate
  <2>2. QED
    BY <1>0, <1>1, <1>2, <1>4, <2>1 DEF TypeOK, Allocate, Goto, SetPcs
<1>8. RequestHeld'
  <2>1. key[w] # NoKey
    BY <1>1 DEF RequestHeld
  <2>2. \A u \in Workers : old[u] # NoSlot => item'[old[u]] = item[old[u]]
    BY <1>2, <1>6 DEF TypeOK, Threads
  <2>3. QED
    BY <1>1, <1>3, <2>1, <2>2
    DEF RequestHeld, FoundItemKeepsItsKey, Threads
<1>9. RingConsistent'
  <2>1. Between(next)' \/ next = tail'
    BY <1>0, <1>1, <1>5 DEF RingConsistent, NextIsBad, Between
  <2>2. capacity' = Slots - Dist(head', tail')
    BY <1>1, <1>4, SlotsAssumption DEF RingConsistent, TypeOK
  <2>3. QED
    BY <1>1, <2>1, <2>2 DEF RingConsistent, NextIsBad, Between
<1>10. PointersFollowPc'
  BY <1>1, <1>3
  DEF PointersFollowPc, WritePcs, OldPcs, FlushingPcs, FlushReadPcs
<1>11. HeldInLog'
  BY <1>1, <1>3, <1>5 DEF HeldInLog, TypeOK
<1>12. BitsHeld'
  BY <1>1, <1>2, <1>3, <1>6
  DEF BitsHeld, TypeOK, PointersFollowPc, WritePcs, FlushingPcs, FlushReadPcs
<1>13. OneWriterPerItem'
  BY <1>3, <1>6 DEF OneWriterPerItem, WritePcs
<1>14. OneFlusherPerItem'
  <2>1. ASSUME NEW u \in Threads, pc'[u] \in FlushingPcs
        PROVE  u # w /\ Before(it[u], next)
    <3>1. u # w /\ pc[u] \in FlushingPcs
      BY <1>3, <2>1 DEF FlushingPcs, FlushReadPcs
    <3>2. it[u] \in Slot /\ Between(it[u])
      BY <3>1 DEF PointersFollowPc, HeldInLog, TypeOK
    <3>3. next = tail \/ Before(it[u], next)
      BY <3>1 DEF OneFlusherPerItem
    <3>4. QED
      BY <1>5, <3>1, <3>2, <3>3 DEF Before
  <2>2. ASSUME NEW u \in Threads, pc'[u] \in FlushingPcs
        PROVE  Before(it[u], next)'
    BY <1>1, <1>3, <2>1, <2>2 DEF Before
  <2>3. QED
    BY <1>3, <2>1, <2>2 DEF OneFlusherPerItem
<1>15. ReadersExact'
  <2>1. ReadersOf(p)' = {}
    BY <1>0, <1>1, <1>3, <1>6 DEF ReadersOf, FlushReadPcs
  <2>2. ASSUME NEW q \in Slot \ {p}
        PROVE  ReadersOf(q)' = ReadersOf(q)
    BY <1>1, <1>3, ValuesAssumption DEF ReadersOf, FlushReadPcs
  <2>3. Cardinality({}) = 0
    BY FS_EmptySet
  <2>4. QED
    BY <1>2, <2>1, <2>2, <2>3 DEF ReadersExact
<1>16. NoItemSkipped'
  <2>1. Dist(head, next) <= Dist(head, tail)
    BY <1>0, <1>1, <1>4, <1>5, DistRange, SlotsAssumption
    DEF RingConsistent, NextIsBad, Between
  <2>2. next # tail'
    BY <1>4, <2>1, SlotsAssumption
  <2>3. ASSUME NEW q \in Slot, Between(q)', Before(q, next)
        PROVE  q # p /\ Between(q)
    <3>1. Dist(head, q) < Dist(head, tail)
      BY <1>1, <1>4, <2>1, <2>3, DistRange, SlotsAssumption DEF Before
    <3>2. QED
      BY <1>0, <1>4, <1>5, <3>1
  <2>4. ASSUME NEW q \in Slot, Between(q)', Before(q, next)
        PROVE  item'[q].state \cap {"CONSUMED", "WRITING_TO_SSD"} # {}
    BY <1>2, <2>3, <2>4 DEF NoItemSkipped
  <2>5. QED
    BY <1>1, <2>2, <2>4 DEF NoItemSkipped, Before
<1>17. QED
  BY <1>7, <1>8, <1>9, <1>10, <1>11, <1>12, <1>13, <1>14, <1>15, <1>16

-----------------------------------------------------------------------------
(* NVDIMM_claim_next: the oldest unclaimed item gets a flusher. *)

LEMMA ClaimStep ==
    ASSUME IInv, NEW t \in Threads, Claim(t)
    PROVE  IInv'
<1> USE DEF IInv
<1>0. PICK p \in Slot : p = next
  BY DEF TypeOK
<1>1. /\ pc[t] = "claim" /\ p # NoSlot /\ Between(p)
      /\ old[t] = NoSlot /\ it[t] = NoSlot
      /\ head \in Slot /\ tail \in Slot /\ next' = Succ(p)
      /\ UNCHANGED <<head, tail, capacity, store, key, val, old, buf, exited>>
  BY <1>0, ValuesAssumption
  DEF TypeOK, PointersFollowPc, OldPcs, WritePcs, FlushingPcs, FlushReadPcs,
      Claim
<1>2. /\ item[p] \in Item /\ Claimed(item[p]) \in Item
      /\ item'[p].key = item[p].key
      /\ item'[p].state
           = ((item[p].state \cup {"WRITING_TO_SSD"}) \ {"WAITING"})
               \cup {"READING"}
      /\ item'[p].readers = IncReaders(item[p].readers)
      /\ \A q \in Slot \ {p} : item'[q] = item[q]
  BY <1>0, ClaimedType DEF TypeOK, Claim
<1>3. /\ pc'[t] = "check_between" /\ it'[t] = p
      /\ \A u \in Threads \ {t} : pc'[u] = pc[u] /\ it'[u] = it[u]
  BY <1>0, <1>1 DEF TypeOK, Claim, Goto
<1>4. /\ next' \in Slot
      /\ Dist(head, next') = Dist(head, p) + 1
      /\ Dist(head, p) < Dist(head, tail)
      /\ Dist(head, p) \in 0 .. Slots - 1
      /\ Dist(head, tail) \in 0 .. Slots - 1
  BY <1>1, BetweenIsDist, DistRange, SuccDist, SlotsAssumption DEF Between
<1>5. ASSUME NEW q \in Slot
      PROVE  /\ Between(q) <=> Dist(head, q) < Dist(head, tail)
             /\ Between(q)' <=> Between(q)
             /\ Dist(head, q) \in 0 .. Slots - 1
             /\ Dist(head, q) = Dist(head, p) => q = p
             /\ Dist(head, q) = Dist(head, tail) => q = tail
  BY <1>1, BetweenIsDist, DistRange, DistInjective DEF Between, IsBetween
<1>6. next # tail
  BY <1>0, <1>1, BetweenNotTail DEF Between
<1>7. ASSUME NEW u \in Threads, pc[u] \in FlushingPcs
      PROVE  it[u] \in Slot /\ Before(it[u], p) /\ it[u] # p
  <2>1. it[u] \in Slot /\ Before(it[u], p)
    BY <1>0, <1>6, <1>7 DEF TypeOK, PointersFollowPc, OneFlusherPerItem
  <2>2. QED
    BY <1>5, <2>1 DEF Before
<1>8. TypeOK'
  BY <1>0, <1>1, <1>2, <1>4 DEF TypeOK, Claim, Goto, FlushPcs
<1>9. RequestHeld'
  BY <1>1, <1>2, <1>3
  DEF RequestHeld, FoundItemKeepsItsKey, TypeOK, Threads
<1>10. RingConsistent'
  <2>1. Dist(head, next') < Dist(head, tail)
          \/ Dist(head, next') = Dist(head, tail)
    BY <1>4, SlotsAssumption
  <2>2. IsBetween(next', head, tail) \/ next' = tail
    BY <1>1, <1>4, <2>1, BetweenIsDist, DistInjective
  <2>3. QED
    BY <1>1, <2>2 DEF RingConsistent, NextIsBad
<1>11. PointersFollowPc'
  BY <1>1, <1>3
  DEF PointersFollowPc, WritePcs, OldPcs, FlushingPcs, FlushReadPcs
<1>12. HeldInLog'
  BY <1>1, <1>3, <1>5 DEF HeldInLog, TypeOK
<1>13. BitsHeld'
  BY <1>1, <1>2, <1>3
  DEF BitsHeld, TypeOK, PointersFollowPc, WritePcs, FlushingPcs, FlushReadPcs
<1>14. OneWriterPerItem'
  BY <1>3 DEF OneWriterPerItem, WritePcs
<1>15. OneFlusherPerItem'
  <2>1. ASSUME NEW u \in Threads, pc'[u] \in FlushingPcs
        PROVE  Before(it[u], next)'
    <3>1. CASE u = t
      BY <1>1, <1>3, <1>4, <3>1 DEF Before
    <3>2. CASE u # t
      <4>1. it[u] \in Slot /\ Dist(head, it[u]) < Dist(head, p)
        BY <1>3, <1>7, <2>1, <3>2 DEF Before
      <4>2. Dist(head, it[u]) \in 0 .. Slots - 1
        BY <1>5, <4>1
      <4>3. QED
        BY <1>1, <1>3, <1>4, <3>2, <4>1, <4>2 DEF Before
    <3>3. QED
      BY <3>1, <3>2
  <2>2. QED
    BY <1>3, <1>7, <2>1 DEF OneFlusherPerItem
<1>16. ReadersExact'
  <2>1. ReadersOf(p)' = ReadersOf(p) \cup {t} /\ t \notin ReadersOf(p)
    BY <1>1, <1>3 DEF ReadersOf, FlushReadPcs
  <2>2. ReadersOf(p) \in SUBSET Threads
    BY DEF ReadersOf
  <2>3. /\ item'[p].readers = Cardinality(ReadersOf(p)')
        /\ item'[p].readers > 0
    BY <1>1, <1>2, <2>1, <2>2, ReaderAdded DEF ReadersExact
  <2>4. ASSUME NEW q \in Slot \ {p}
        PROVE  ReadersOf(q)' = ReadersOf(q)
    BY <1>1, <1>3, ValuesAssumption DEF ReadersOf, FlushReadPcs
  <2>5. QED
    BY <1>2, <2>3, <2>4 DEF ReadersExact
<1>17. NoItemSkipped'
  <2>1. ASSUME NEW q \in Slot, Between(q),
               next' = tail \/ Dist(head, q) < Dist(head, next')
        PROVE  item'[q].state \cap {"CONSUMED", "WRITING_TO_SSD"} # {}
    <3>1. q = p \/ Before(q, p)
      BY <1>4, <1>5, <2>1 DEF Before
    <3>2. QED
      BY <1>0, <1>2, <2>1, <3>1 DEF NoItemSkipped
  <2>2. QED
    BY <1>1, <1>5, <2>1 DEF NoItemSkipped, Before
<1>18. QED
  BY <1>8, <1>9, <1>10, <1>11, <1>12, <1>13, <1>14, <1>15, <1>16, <1>17

-----------------------------------------------------------------------------
(* NVDIMM_invalidate: the evictable prefix leaves the log.  Every item in  *)
(* use stops the walk, so what the threads hold stays behind the new head. *)

LEMMA InvalidateStep ==
    ASSUME IInv, NEW t \in Threads, NEW l \in AllPcs,
           Invalidate(t, l), SameDuty(pc[t], l), pc[t] # "idle",
           UNCHANGED <<key, val, it, old, buf>>
    PROVE  IInv'
<1> USE DEF IInv
<1>0. PICK h \in Slot :
        /\ EvictableUpTo(h)
        /\ head' = h
        /\ next' = DragNext(h)
        /\ capacity' = capacity + Dist(head, h)
        /\ exited' = NextIsBad(DragNext(h), h, tail)
  BY DEF Invalidate
<1>1. /\ head \in Slot /\ next \in Slot /\ tail \in Slot
      /\ pc' = [pc EXCEPT ![t] = l]
      /\ UNCHANGED <<tail, item, store, key, val, it, old, buf>>
      /\ \A u \in Threads : SameDuty(pc[u], pc'[u])
  BY DEF TypeOK, Invalidate, Goto, SameDuty
<1>2. ASSUME NEW q \in Slot
      PROVE  /\ Dist(head, q) \in 0 .. Slots - 1
             /\ Dist(h, q) \in 0 .. Slots - 1
             /\ Dist(h, q) = 0 <=> h = q
             /\ Dist(head, q) = Dist(head, tail) => q = tail
             /\ Dist(h, q) = Dist(h, tail) => q = tail
             /\ Between(q) <=> Dist(head, q) < Dist(head, tail)
             /\ IsBetween(q, h, tail) <=> Dist(h, q) < Dist(h, tail)
             /\ Between(q)' <=> Dist(h, q) < Dist(h, tail)
  BY <1>0, <1>1, BetweenIsDist, DistRange, DistInjective DEF Between, IsBetween
<1>3. Dist(head, h) <= Dist(head, tail)
  BY <1>0, <1>1, <1>2, SlotsAssumption DEF EvictableUpTo
<1>4. ASSUME NEW q \in Slot
      PROVE  Dist(h, q) = IF Dist(head, q) < Dist(head, h)
                          THEN Dist(head, q) - Dist(head, h) + Slots
                          ELSE Dist(head, q) - Dist(head, h)
  BY <1>1, <1>2, DistSplit, DistBehind, SlotsAssumption
<1>5. /\ Dist(h, tail) = Dist(head, tail) - Dist(head, h)
      /\ Dist(head, h) \in 0 .. Slots - 1
      /\ Dist(head, tail) \in 0 .. Slots - 1
  BY <1>1, <1>2, <1>3, <1>4, SlotsAssumption
<1>6. ASSUME NEW q \in Slot
      PROVE  Between(q)' <=> Between(q) /\ ~Before(q, h)
  BY <1>2, <1>4, <1>5, SlotsAssumption DEF Before
<1>7. ASSUME NEW q \in Slot, Between(q), ~IsEvictable(q)
      PROVE  Between(q)' /\ ~Before(q, h)
  BY <1>6, <1>7, <1>0 DEF EvictableUpTo
<1>8. \/ /\ next' = h /\ Between(next) /\ Before(next, h)
      \/ /\ next' = next
         /\ next = tail \/ (Between(next) /\ ~Before(next, h))
  <2>1. Between(next) \/ next = tail
    BY DEF RingConsistent, NextIsBad, Between
  <2>2. QED
    BY <1>0, <2>1 DEF DragNext
<1>9. TypeOK'
  <2>1. capacity' \in 1 .. Slots
    BY <1>0, <1>3, <1>5, SlotsAssumption DEF RingConsistent
  <2>2. next' \in Slot
    BY <1>1, <1>8
  <2>3. exited' \in BOOLEAN
    BY <1>0 DEF NextIsBad
  <2>4. QED
    BY <1>0, <1>1, <2>1, <2>2, <2>3 DEF TypeOK, AllPcs
<1>10. RequestHeld'
  BY <1>1 DEF RequestHeld, FoundItemKeepsItsKey, TypeOK, Threads
<1>11. RingConsistent'
  <2>1. capacity' = Slots - Dist(head', tail')
    BY <1>0, <1>1, <1>5, SlotsAssumption DEF RingConsistent
  <2>2. IsBetween(next', h, tail) \/ next' = tail
    <3>1. CASE next' = h
      BY <1>1, <1>2, <1>5, <3>1, SlotsAssumption
    <3>2. CASE next' = next /\ (next = tail \/ (Between(next) /\ ~Before(next, h)))
      BY <1>1, <1>2, <1>6, <3>2
    <3>3. QED
      BY <1>8, <3>1, <3>2
  <2>3. QED
    BY <1>0, <1>1, <2>1, <2>2 DEF RingConsistent, NextIsBad
<1>12. PointersFollowPc'
  BY <1>1 DEF PointersFollowPc, SameDuty, WritePcs
<1>13. HeldInLog'
  BY <1>1, <1>7, HeldNotEvictable DEF HeldInLog, TypeOK
<1>14. BitsHeld'
  BY <1>1 DEF BitsHeld, SameDuty
<1>15. OneWriterPerItem'
  BY <1>1 DEF OneWriterPerItem, SameDuty, WritePcs
<1>16. OneFlusherPerItem'
  <2>1. ASSUME NEW u \in Threads, pc[u] \in FlushingPcs
        PROVE  next' = tail \/ Dist(h, it[u]) < Dist(h, next')
    <3>1. /\ it[u] \in Slot /\ it[u] # NoSlot
      BY <2>1 DEF PointersFollowPc, TypeOK
    <3>2. ~Before(it[u], h) /\ Between(it[u])
      BY <1>7, <2>1, <3>1, HeldNotEvictable DEF HeldInLog
    <3>3. next = tail \/ Before(it[u], next)
      BY <2>1 DEF OneFlusherPerItem
    <3>4. CASE next' = h /\ Between(next) /\ Before(next, h)
      BY <1>1, <1>2, <1>5, <3>1, <3>2, <3>3, <3>4, SlotsAssumption DEF Before
    <3>5. CASE next' = next /\ Between(next) /\ ~Before(next, h)
      BY <1>1, <1>2, <1>4, <1>5, <3>1, <3>2, <3>3, <3>5, SlotsAssumption
      DEF Before
    <3>6. QED
      BY <1>8, <3>4, <3>5
  <2>2. QED
    BY <1>0, <1>1, <2>1 DEF OneFlusherPerItem, SameDuty, Before
<1>17. ReadersExact'
  <2>1. ASSUME NEW q \in Slot
        PROVE  ReadersOf(q)' = ReadersOf(q)
    BY <1>1 DEF ReadersOf, SameDuty
  <2>2. QED
    BY <1>1, <2>1 DEF ReadersExact
<1>18. NoItemSkipped'
  <2>1. ASSUME NEW q \in Slot, Between(q)',
               next' = tail \/ Dist(h, q) < Dist(h, next')
        PROVE  item[q].state \cap {"CONSUMED", "WRITING_TO_SSD"} # {}
    <3>1. Between(q) /\ ~Before(q, h)
      BY <1>6, <2>1
    <3>2. next = tail \/ Before(q, next)
      <4>1. CASE next' = h /\ Between(next) /\ Before(next, h)
        BY <1>1, <1>2, <1>5, <2>1, <4>1, SlotsAssumption
      <4>2. CASE next' = next /\ Between(next) /\ ~Before(next, h)
        BY <1>1, <1>2, <1>4, <1>5, <2>1, <3>1, <4>2, SlotsAssumption DEF Before
      <4>3. QED
        BY <1>8, <4>1, <4>2
    <3>3. QED
      BY <3>1, <3>2 DEF NoItemSkipped
  <2>2. QED
    BY <1>0, <1>1, <2>1 DEF NoItemSkipped, Before
<1>19. QED
  BY <1>9, <1>10, <1>11, <1>12, <1>13, <1>14, <1>15, <1>16, <1>17, <1>18

LEMMA SetInvalidateStep ==
    ASSUME IInv, NEW w \in Workers, SetInvalidate(w)
    PROVE  IInv'
BY InvalidateStep DEF SetInvalidate, Threads, SameDuty, OldPcs, FlushReadPcs,
   FlushingPcs, AllPcs, SetPcs

LEMMA GetInvalidateStep ==
    ASSUME IInv, NEW w \in Workers, GetInvalidate(w)
    PROVE  IInv'
BY InvalidateStep DEF GetInvalidate, Threads, SameDuty, OldPcs, FlushReadPcs,
   FlushingPcs, AllPcs, GetPcs

LEMMA ClaimInvalidateStep ==
    ASSUME IInv, NEW t \in Threads, ClaimInvalidate(t)
    PROVE  IInv'
BY InvalidateStep DEF ClaimInvalidate, AfterWriteOut, SameDuty, OldPcs,
   FlushReadPcs, FlushingPcs, AllPcs, SetPcs, FlushPcs

LEMMA FlushInvalidateStep ==
    ASSUME IInv, NEW t \in Threads, FlushInvalidate(t)
    PROVE  IInv'
BY InvalidateStep DEF FlushInvalidate, AfterWriteOut, SameDuty, OldPcs,
   FlushReadPcs, FlushingPcs, AllPcs, SetPcs, FlushPcs

-----------------------------------------------------------------------------
(* The invariant and its consequences. *)

LEMMA InitIInv == Init => IInv
<1> SUFFICES ASSUME Init PROVE IInv
  OBVIOUS
<1>1. 0 \in Slot /\ NoSlot \notin Slot
  BY SlotsAssumption, ValuesAssumption DEF Slot
<1>2. TypeOK
  <2>1. [key |-> NoKey, val |-> Absent, state |-> {}, readers |-> 0] \in Item
    BY DEF Item, ReaderValues
  <2>2. capacity \in 1 .. Slots
    BY SlotsAssumption DEF Init
  <2>3. pc \in [Threads -> AllPcs]
    BY DEF Init, AllPcs, FlushPcs
  <2>4. QED
    BY <1>1, <2>1, <2>2, <2>3 DEF Init, TypeOK, AllPcs
<1>3. RequestHeld
  BY ThreadsAssumption DEF Init, RequestHeld, FoundItemKeepsItsKey, Threads
<1>4. RingConsistent
  BY SlotsAssumption DEF Init, RingConsistent, NextIsBad, Dist
<1>5. PointersFollowPc
  BY DEF Init, PointersFollowPc, OldPcs, WritePcs, FlushingPcs, FlushReadPcs
<1>6. HeldInLog
  BY DEF Init, HeldInLog
<1>7. BitsHeld /\ OneWriterPerItem
  BY DEF Init, BitsHeld, OneWriterPerItem, WritePcs, FlushingPcs, FlushReadPcs
<1>8. OneFlusherPerItem
  BY DEF Init, OneFlusherPerItem, FlushingPcs, FlushReadPcs
<1>9. ReadersExact
  <2>1. \A p \in Slot : ReadersOf(p) = {}
    BY <1>1 DEF Init, ReadersOf
  <2>2. Cardinality({}) = 0
    BY FS_EmptySet
  <2>3. \A p \in Slot : item[p].readers = 0 /\ item[p].state = {}
    BY DEF Init
  <2>4. QED
    BY <2>1, <2>2, <2>3 DEF ReadersExact
<1>10. NoItemSkipped
  BY SlotsAssumption DEF Init, NoItemSkipped, Between, IsBetween
<1>11. QED
  BY <1>2, <1>3, <1>4, <1>5, <1>6, <1>7, <1>8, <1>9, <1>10 DEF IInv

LEMMA StutterStep == IInv /\ UNCHANGED vars => IInv'
<1> SUFFICES ASSUME IInv, UNCHANGED vars PROVE IInv'
  OBVIOUS
<1> USE DEF IInv, vars
<1>1. TypeOK' /\ RequestHeld'
  BY DEF TypeOK, RequestHeld, FoundItemKeepsItsKey
<1>2. RingConsistent'
  BY DEF RingConsistent, NextIsBad, IsBetween, Dist
<1>3. PointersFollowPc' /\ BitsHeld' /\ OneWriterPerItem'
  BY DEF PointersFollowPc, BitsHeld, OneWriterPerItem
<1>4. HeldInLog'
  BY DEF HeldInLog, Between, IsBetween
<1>5. OneFlusherPerItem' /\ NoItemSkipped'
  BY DEF OneFlusherPerItem, NoItemSkipped, Between, IsBetween, Before, Dist
<1>6. ReadersExact'
  BY DEF ReadersExact, ReadersOf
<1>7. QED
  BY <1>1, <1>2, <1>3, <1>4, <1>5, <1>6

LEMMA NextIInv == IInv /\ [Next]_vars => IInv'
<1> SUFFICES ASSUME IInv, [Next]_vars PROVE IInv'
  OBVIOUS
<1>1. ASSUME NEW w \in Workers, Request(w)
      PROVE  IInv'
  BY <1>1, BeginSetStep, BeginGetStep DEF Request
<1>2. ASSUME NEW w \in Workers, SetStep(w)
      PROVE  IInv'
  BY <1>2, SetFindStep, SetMarkOldStep, SetUnreadStep, SetInvalidateStep,
     AllocateStep, AllocateFailsStep, WriteKeyStep, WriteValStep DEF SetStep
<1>3. ASSUME NEW w \in Workers, GetStep(w)
      PROVE  IInv'
  BY <1>3, GetFindStep, GetCopyStep, GetUnreadStep, GetInvalidateStep,
     GetStoreStep, GetReplyStep DEF GetStep
<1>4. ASSUME NEW t \in Threads, FlushStep(t)
      PROVE  IInv'
  BY <1>4, ClaimNothingStep, ClaimTooEarlyStep, ClaimStep,
     ClaimInvalidateStep, CheckBetweenStep, CheckTailStep, FlushCopyStep,
     FlushUnreadStep, FlushStoreStep, ConsumeStep, FlushInvalidateStep
  DEF FlushStep
<1>5. ASSUME NEW t \in Threads, ClaimLockBusy(t)
      PROVE  IInv'
  BY <1>5, ClaimLockBusyStep
<1>6. CASE UNCHANGED vars
  BY <1>6, StutterStep
<1>7. QED
  BY <1>1, <1>2, <1>3, <1>4, <1>5, <1>6 DEF Next, Running

\* The inductive invariant holds in every behaviour of the log's threads.
THEOREM Invariance == Spec => []IInv
BY InitIInv, NextIInv, PTL DEF Spec

\* Every variable keeps its type; no reader count leaves its byte.
THEOREM TypeCorrect == Spec => []TypeOK
<1>1. IInv => TypeOK
  BY DEF IInv
<1>2. QED
  BY <1>1, Invariance, PTL

\* NVDIMM_invalidate never frees an item a writer, a reader or a flusher still
\* works on, however many of them there are (NVDIMM.c:789-876).
THEOREM HeldItemsStay == Spec => []HeldInLog
<1>1. IInv => HeldInLog
  BY DEF IInv
<1>2. QED
  BY <1>1, Invariance, PTL

\* The space accounting is exact and next stays in the log or at its tail, so
\* NVDIMM_invalidate never ends the process with NEXT IS BAD 2.
THEOREM RingStaysConsistent == Spec => []RingConsistent
<1>1. IInv => RingConsistent
  BY DEF IInv
<1>2. QED
  BY <1>1, Invariance, PTL

\* The reader count of an item is the number of threads reading it, for any
\* number of workers below 255, and READING is set exactly while it is positive.
THEOREM ReadersCounted == Spec => []ReadersExact
<1>1. IInv => ReadersExact
  BY DEF IInv
<1>2. QED
  BY <1>1, Invariance, PTL

\* No item is flushed by two threads at a time, and what is being flushed lies
\* behind next.
THEOREM FlushersApart == Spec => []OneFlusherPerItem
<1>1. IInv => OneFlusherPerItem
  BY DEF IInv
<1>2. QED
  BY <1>1, Invariance, PTL

\* The flushers never step over an item that still has to reach the SSD.
THEOREM NothingSkipped == Spec => []NoItemSkipped
<1>1. IInv => NoItemSkipped
  BY DEF IInv
<1>2. QED
  BY <1>1, Invariance, PTL

\* The item NVDIMM_find returned still holds the key it was found for when its
\* finder copies it or marks it consumed: no slot is reused under a finder.
THEOREM FoundKeyStays == Spec => []FoundItemKeepsItsKey
<1>1. IInv => FoundItemKeepsItsKey
  BY DEF IInv, RequestHeld
<1>2. QED
  BY <1>1, Invariance, PTL
-----------------------------------------------------------------------------
(***************************************************************************)
(* NvLog implements LogQueue: seen as the sequence of its items from head  *)
(* to tail, each released or not, and the number of items behind next, the *)
(* log of any number of threads is a queue.  Claim is ClaimOldest, Allocate*)
(* Enter, the step that makes an item evictable Release, and a call of     *)
(* NVDIMM_invalidate that frees something Leave; the other steps stutter.  *)
(***************************************************************************)

Released == [i \in 1 .. Dist(head, tail) |-> IsEvictable(QueuePosition(i))]
Behind == Dist(head, next)

QueueNext ==
    \/ Queue!Next
    \/ UNCHANGED <<Released, Behind>>

-----------------------------------------------------------------------------
(* Positions in the queue are distances from head. *)

LEMMA PositionOf ==
    ASSUME head \in Slot, NEW i \in 1 .. Slots
    PROVE  /\ QueuePosition(i) \in Slot
           /\ Dist(head, QueuePosition(i)) = i - 1
BY SlotsAssumption DEF Slot, QueuePosition, Dist

LEMMA PositionAt ==
    ASSUME head \in Slot, NEW q \in Slot
    PROVE  /\ Dist(head, q) + 1 \in 1 .. Slots
           /\ QueuePosition(Dist(head, q) + 1) = q
BY SlotsAssumption DEF Slot, QueuePosition, Dist

\* The same slot counted from two heads.
LEMMA PositionFrom ==
    ASSUME NEW a \in Slot, NEW h \in Slot, NEW i \in 1 .. Slots,
           i + Dist(a, h) <= Slots
    PROVE  (IF h + i - 1 >= Slots THEN h + i - 1 - Slots ELSE h + i - 1)
             = IF a + (i + Dist(a, h)) - 1 >= Slots
               THEN a + (i + Dist(a, h)) - 1 - Slots
               ELSE a + (i + Dist(a, h)) - 1
BY SlotsAssumption DEF Slot, Dist

\* What next and the length of the queue are under the invariant.
LEMMA QueueShape ==
    ASSUME IInv
    PROVE  /\ head \in Slot /\ next \in Slot /\ tail \in Slot
           /\ Dist(head, tail) \in 0 .. Slots - 1
           /\ Dist(head, next) \in 0 .. Slots - 1
           /\ Dist(head, next) <= Dist(head, tail)
           /\ Released \in Seq(BOOLEAN)
           /\ Len(Released) = Dist(head, tail)
<1> USE DEF IInv
<1>1. head \in Slot /\ next \in Slot /\ tail \in Slot
  BY DEF TypeOK
<1>2. /\ Dist(head, tail) \in 0 .. Slots - 1
      /\ Dist(head, next) \in 0 .. Slots - 1
  BY <1>1, DistRange
<1>3. Dist(head, next) <= Dist(head, tail)
  BY <1>1, <1>2, BetweenIsDist DEF RingConsistent, NextIsBad
<1>4. \A i \in 1 .. Dist(head, tail) : IsEvictable(QueuePosition(i)) \in BOOLEAN
  BY DEF IsEvictable
<1>5. Released \in [1 .. Dist(head, tail) -> BOOLEAN]
  BY <1>4 DEF Released
<1>6. Dist(head, tail) \in Nat
  BY <1>2, SlotsAssumption
<1>7. Released \in Seq(BOOLEAN) /\ Len(Released) = Dist(head, tail)
  BY <1>5, <1>6
<1>8. QED
  BY <1>1, <1>2, <1>3, <1>7

-----------------------------------------------------------------------------
(* Steps that leave the ring alone. *)

\* Nothing became evictable or stopped being so: a stuttering step.
LEMMA NothingReleased ==
    ASSUME IInv, UNCHANGED <<head, next, tail>>,
           \A q \in Slot : IsEvictable(q)' = IsEvictable(q)
    PROVE  QueueNext
<1>1. \A i \in 1 .. Dist(head, tail) : QueuePosition(i) \in Slot
  BY QueueShape, PositionOf, SlotsAssumption
<1>2. Released' = Released
  <2>1. Dist(head, tail)' = Dist(head, tail)
    BY DEF Dist
  <2>2. \A i \in 1 .. Dist(head, tail) :
           IsEvictable(QueuePosition(i))' = IsEvictable(QueuePosition(i))
    BY <1>1 DEF QueuePosition
  <2>3. QED
    BY <2>1, <2>2 DEF Released
<1>3. Behind' = Behind
  BY DEF Behind, Dist
<1>4. QED
  BY <1>2, <1>3 DEF QueueNext

\* One item in use may have become evictable: a step of Release, or none.
LEMMA OneReleased ==
    ASSUME IInv, UNCHANGED <<head, next, tail>>,
           NEW p \in Slot, Between(p), ~IsEvictable(p),
           \A q \in Slot \ {p} : IsEvictable(q)' = IsEvictable(q)
    PROVE  QueueNext
<1>1. CASE ~IsEvictable(p)'
  <2>1. \A q \in Slot : IsEvictable(q)' = IsEvictable(q)
    BY <1>1 DEF IsEvictable
  <2>2. QED
    BY <2>1, NothingReleased
<1>2. CASE IsEvictable(p)'
  <2>1. PICK n \in 1 .. Dist(head, tail) : n = Dist(head, p) + 1
    BY QueueShape, BetweenIsDist, DistRange, SlotsAssumption DEF Between
  <2>2. n \in 1 .. Slots /\ QueuePosition(n) = p
    BY <2>1, QueueShape, PositionAt
  <2>3. \A i \in 1 .. Dist(head, tail) :
           /\ QueuePosition(i) \in Slot
           /\ i # n => QueuePosition(i) # p
    BY <2>1, <2>2, QueueShape, PositionOf, SlotsAssumption
  <2>4. Dist(head, tail)' = Dist(head, tail) /\ Behind' = Behind
    BY DEF Dist, Behind
  <2>5. \A i \in 1 .. Dist(head, tail) :
           IsEvictable(QueuePosition(i))' =
             IF i = n THEN TRUE ELSE IsEvictable(QueuePosition(i))
    BY <1>2, <2>2, <2>3 DEF QueuePosition, IsEvictable
  <2>6. Released' = [Released EXCEPT ![n] = TRUE]
    BY <2>4, <2>5 DEF Released
  <2>7. ~Released[n] /\ n \in 1 .. Len(Released)
    BY <2>1, <2>2, QueueShape DEF Released
  <2>8. Queue!Release
    BY <2>4, <2>6, <2>7 DEF Queue!Release, Released, Behind
  <2>9. QED
    BY <2>8 DEF QueueNext, Queue!Next
<1>3. QED
  BY <1>1, <1>2

\* A step on the item a thread holds: it was in use before.
LEMMA HeldStep ==
    ASSUME IInv, UNCHANGED <<head, next, tail>>,
           NEW t \in Threads, NEW p \in Slot, p = old[t] \/ p = it[t],
           \A q \in Slot \ {p} : item'[q] = item[q]
    PROVE  QueueNext
<1>1. p # NoSlot
  BY ValuesAssumption
<1>2. Between(p) /\ ~IsEvictable(p)
  BY <1>1, HeldNotEvictable DEF IInv, HeldInLog
<1>3. \A q \in Slot \ {p} : IsEvictable(q)' = IsEvictable(q)
  BY DEF IsEvictable
<1>4. QED
  BY <1>2, <1>3, OneReleased

LEMMA SameItems ==
    ASSUME IInv, UNCHANGED <<head, next, tail, item>>
    PROVE  QueueNext
<1>1. \A q \in Slot : IsEvictable(q)' = IsEvictable(q)
  BY DEF IsEvictable
<1>2. QED
  BY <1>1, NothingReleased

\* A found item is neither evictable before nor while it is read.
LEMMA FindRefines ==
    ASSUME IInv, NEW w \in Workers, NEW a, NEW b, Find(w, a, b),
           UNCHANGED <<head, next, tail>>
    PROVE  QueueNext
<1>1. ASSUME NEW p \in Slot, FoundAt(key[w], p),
             item' = [item EXCEPT ![p] = AddReader(@)]
      PROVE  QueueNext
  <2>1. ~IsEvictable(p)
    BY <1>1 DEF FoundAt, Matches, IsEmptyState, IsEvictable
  <2>2. item'[p].state = item[p].state \cup {"READING"}
    BY <1>1, AddReaderType DEF IInv, TypeOK
  <2>3. ~IsEvictable(p)'
    BY <2>2 DEF IsEvictable
  <2>4. \A q \in Slot \ {p} : item'[q] = item[q]
    BY <1>1 DEF IInv, TypeOK
  <2>5. \A q \in Slot : IsEvictable(q)' = IsEvictable(q)
    BY <2>1, <2>3, <2>4 DEF IsEvictable
  <2>6. QED
    BY <2>5, NothingReleased
<1>2. CASE UNCHANGED item
  BY <1>2, SameItems
<1>3. QED
  BY <1>1, <1>2 DEF Find

-----------------------------------------------------------------------------
(* The steps of the queue. *)

LEMMA AllocateRefines ==
    ASSUME IInv, NEW w \in Workers, Allocate(w)
    PROVE  Queue!Enter
<1>0. PICK p \in Slot, n \in 0 .. Slots - 1 : p = tail /\ n = Dist(head, tail)
  BY QueueShape
<1>1. /\ head' = head /\ next' = next /\ tail' = Succ(p)
      /\ item'[p].state = {"WRITING_KEY"}
      /\ \A q \in Slot \ {p} : item'[q] = item[q]
  BY <1>0 DEF IInv, TypeOK, Item, Allocate
<1>2. n + 1 \in 1 .. Slots /\ Dist(head, Succ(p)) = n + 1
  <2>1. capacity > 1 /\ capacity = Slots - n
    BY <1>0 DEF IInv, RingConsistent, Allocate
  <2>2. Succ(p) # head
    BY <1>0, <2>1, QueueShape, SuccDist, SlotsAssumption
  <2>3. QED
    BY <1>0, <2>1, <2>2, QueueShape, SuccDist, SlotsAssumption
<1>3. Dist(head, tail)' = n + 1 /\ Behind' = Behind
  BY <1>1, <1>2 DEF Dist, Behind
<1>4. /\ \A i \in 1 .. n : QueuePosition(i) \in Slot /\ QueuePosition(i) # p
      /\ QueuePosition(n + 1) = p
  <2>1. ASSUME NEW i \in 1 .. n
        PROVE  QueuePosition(i) \in Slot /\ QueuePosition(i) # p
    <3>1. i \in 1 .. Slots /\ i - 1 # n
      BY SlotsAssumption
    <3>2. QED
      BY <1>0, <3>1, QueueShape, PositionOf
  <2>2. QueuePosition(n + 1) = p
    BY <1>0, QueueShape, PositionAt
  <2>3. QED
    BY <2>1, <2>2
<1>5. ASSUME NEW i \in 1 .. n + 1
      PROVE  QueuePosition(i)' = QueuePosition(i)
  BY <1>1 DEF QueuePosition
<1>6. ASSUME NEW i \in 1 .. n + 1
      PROVE  IsEvictable(QueuePosition(i))' =
               IF i = n + 1 THEN FALSE ELSE IsEvictable(QueuePosition(i))
  <2>1. CASE i = n + 1
    <3>1. QueuePosition(i)' = p
      BY <1>4, <1>5, <2>1
    <3>2. QED
      <4>1. item'[QueuePosition(i)'].state \notin {{}, {"CONSUMED"}}
        BY <1>1, <3>1
      <4>2. IsEvictable(QueuePosition(i))' = FALSE
        BY <4>1 DEF IsEvictable
      <4>3. QED
        BY <2>1, <4>2
  <2>2. CASE i # n + 1
    <3>1. i \in 1 .. n
      BY <2>2
    <3>2. /\ QueuePosition(i)' = QueuePosition(i)
          /\ QueuePosition(i) \in Slot \ {p}
      BY <1>4, <1>5, <3>1
    <3>3. QED
      BY <1>1, <2>2, <3>2 DEF IsEvictable
  <2>3. QED
    BY <2>1, <2>2
<1>7. Released' = [i \in 1 .. n + 1 |->
                     IF i = n + 1 THEN FALSE ELSE IsEvictable(QueuePosition(i))]
  BY <1>3, <1>6 DEF Released
<1>8. Released = [i \in 1 .. n |-> IsEvictable(QueuePosition(i))]
  BY <1>0 DEF Released
<1>9. Released' = Append(Released, FALSE)
  <2>1. n \in Nat
    BY SlotsAssumption
  <2>2. Len(Released) = n
    BY <1>0, QueueShape
  <2>3. Append(Released, FALSE)
          = [i \in 1 .. n + 1 |-> IF i = n + 1 THEN FALSE ELSE Released[i]]
    <3>1. Released \in Seq(BOOLEAN) /\ FALSE \in BOOLEAN
      BY QueueShape
    <3>2. /\ Append(Released, FALSE) \in Seq(BOOLEAN)
          /\ Len(Append(Released, FALSE)) = n + 1
          /\ \A i \in 1 .. n : Append(Released, FALSE)[i] = Released[i]
          /\ Append(Released, FALSE)[n + 1] = FALSE
      BY <2>2, <3>1, AppendProperties, ZenonT(40)
    <3>3. Append(Released, FALSE) \in [1 .. n + 1 -> BOOLEAN]
      BY <3>2, LenProperties
    <3>4. ASSUME NEW i \in 1 .. n + 1
          PROVE  Append(Released, FALSE)[i] =
                   IF i = n + 1 THEN FALSE ELSE Released[i]
      <4>1. CASE i = n + 1
        BY <3>2, <4>1, Zenon
      <4>2. CASE i # n + 1
        <5>1. i \in 1 .. n
          BY <2>1, <4>2
        <5>2. QED
          BY <3>2, <4>2, <5>1, Zenon
      <4>3. QED
        BY <4>1, <4>2
    <3>5. QED
      BY <3>3, <3>4
  <2>4. ASSUME NEW i \in 1 .. n + 1
        PROVE  (IF i = n + 1 THEN FALSE ELSE Released[i])
                 = IF i = n + 1 THEN FALSE ELSE IsEvictable(QueuePosition(i))
    <3>1. CASE i = n + 1
      BY <3>1, Zenon
    <3>2. CASE i # n + 1
      <4>1. i \in 1 .. n
        BY <2>1, <3>2
      <4>2. Released[i] = IsEvictable(QueuePosition(i))
        BY <1>8, <4>1, Zenon
      <4>3. QED
        BY <3>2, <4>2, Zenon
    <3>3. QED
      BY <3>1, <3>2
  <2>5. QED
    BY <1>7, <2>3, <2>4
<1>10. QED
  BY <1>3, <1>9 DEF Queue!Enter, Released, Behind

LEMMA ClaimRefines ==
    ASSUME IInv, NEW t \in Threads, Claim(t)
    PROVE  Queue!ClaimOldest
<1>0. PICK p \in Slot : p = next
  BY QueueShape
<1>1. /\ head' = head /\ tail' = tail /\ next' = Succ(p)
      /\ item'[p].state =
           ((item[p].state \cup {"WRITING_TO_SSD"}) \ {"WAITING"})
             \cup {"READING"}
      /\ \A q \in Slot \ {p} : item'[q] = item[q]
  BY <1>0, ClaimedType DEF IInv, TypeOK, Claim
<1>2. ~IsEvictable(p) /\ ~IsEvictable(p)'
  BY <1>0, <1>1 DEF Claim, IsEmptyState, IsEvictable
<1>3. PICK n \in Nat : n = Behind
  BY QueueShape, SlotsAssumption DEF Behind
<1>4. n < Dist(head, tail) /\ QueuePosition(n + 1) = p
  BY <1>0, <1>3, QueueShape, PositionAt, BetweenIsDist DEF Claim, Between, Behind
<1>5. Behind' = n + 1
  <2>1. Succ(p) # head
    BY <1>0, <1>3, <1>4, QueueShape, SuccDist, SlotsAssumption DEF Behind
  <2>2. QED
    BY <1>0, <1>1, <1>3, <2>1, QueueShape, SuccDist DEF Behind, Dist
<1>6. Released' = Released
  <2>1. \A q \in Slot : IsEvictable(q)' = IsEvictable(q)
    BY <1>1, <1>2 DEF IsEvictable
  <2>2. \A i \in 1 .. Dist(head, tail) :
           /\ QueuePosition(i) \in Slot
           /\ QueuePosition(i)' = QueuePosition(i)
    BY <1>1, QueueShape, PositionOf, SlotsAssumption DEF QueuePosition
  <2>3. \A i \in 1 .. Dist(head, tail) :
           IsEvictable(QueuePosition(i))' = IsEvictable(QueuePosition(i))
    BY <2>1, <2>2 DEF IsEvictable
  <2>4. Dist(head, tail)' = Dist(head, tail)
    BY <1>1 DEF Dist
  <2>5. QED
    BY <2>3, <2>4 DEF Released
<1>7. n < Len(Released) /\ ~Released[n + 1]
  <2>1. n + 1 \in 1 .. Dist(head, tail)
    BY <1>4, QueueShape, SlotsAssumption
  <2>2. QED
    BY <1>2, <1>4, <2>1, QueueShape DEF Released
<1>8. QED
  BY <1>3, <1>5, <1>6, <1>7 DEF Queue!ClaimOldest, Released, Behind

\* A call of NVDIMM_invalidate takes the released items up to the new head out
\* of the queue.
LEMMA InvalidateRefines ==
    ASSUME IInv, NEW t \in Threads, NEW l, Invalidate(t, l)
    PROVE  QueueNext
<1>0. PICK h \in Slot :
        /\ EvictableUpTo(h)
        /\ head' = h
        /\ next' = DragNext(h)
        /\ UNCHANGED <<tail, item>>
  BY DEF Invalidate
<1>1. PICK n \in 0 .. Slots - 1, d \in 0 .. Slots - 1, b \in 0 .. Slots - 1 :
        /\ n = Dist(head, h) /\ d = Dist(head, tail) /\ b = Behind
        /\ n <= d /\ b <= d
  BY <1>0, QueueShape, DistRange, BetweenIsDist, SlotsAssumption
  DEF EvictableUpTo, Between, Behind
<1>2. Dist(h, tail) = d - n
  BY <1>0, <1>1, QueueShape, DistSplit
<1>3. Behind' = IF b < n THEN 0 ELSE b - n
  <2>1. CASE Between(next) /\ Before(next, h)
    BY <1>0, <1>1, <2>1, DistRange DEF Behind, Before, DragNext, Dist
  <2>2. CASE ~(Between(next) /\ Before(next, h))
    <3>1. next' = next /\ ~(b < n)
      BY <1>0, <1>1, <2>2
      DEF DragNext, Before, Behind, IInv, RingConsistent, NextIsBad, Between
    <3>2. Dist(h, next) = b - n
      BY <1>0, <1>1, <3>1, QueueShape, DistSplit DEF Behind
    <3>3. QED
      BY <1>0, <3>1, <3>2 DEF Behind, Dist
  <2>3. QED
    BY <2>1, <2>2
<1>4. ASSUME NEW i \in 1 .. d - n
      PROVE  /\ i + n \in 1 .. d
             /\ QueuePosition(i)' = QueuePosition(i + n)
  <2>1. i + n \in 1 .. d
    BY <1>1
  <2>2. QueuePosition(i)' = QueuePosition(i + n)
    <3>1. i \in 1 .. Slots /\ i + Dist(head, h) <= Slots
      BY <1>1, <2>1, SlotsAssumption
    <3>2. QED
      BY <1>0, <1>1, <3>1, QueueShape, PositionFrom DEF QueuePosition
  <2>3. QED
    BY <2>1, <2>2
<1>5. Released' = [i \in 1 .. d - n |-> IsEvictable(QueuePosition(i + n))]
  <2>1. Dist(head, tail)' = d - n
    BY <1>0, <1>2 DEF Dist
  <2>2. \A i \in 1 .. d - n :
           IsEvictable(QueuePosition(i))' = IsEvictable(QueuePosition(i + n))
    BY <1>0, <1>4 DEF IsEvictable
  <2>3. QED
    BY <2>1, <2>2 DEF Released
<1>6. Released = [i \in 1 .. d |-> IsEvictable(QueuePosition(i))]
  BY <1>1 DEF Released
<1>7. CASE n = 0
  <2>1. Released' = Released /\ Behind' = Behind
    BY <1>1, <1>3, <1>5, <1>6, <1>7
  <2>2. QED
    BY <2>1 DEF QueueNext
<1>8. CASE n > 0
  <2>1. n \in 1 .. Len(Released)
    BY <1>1, <1>8, QueueShape
  <2>2. ASSUME NEW i \in 1 .. n
        PROVE  Released[i]
    <3>1. i \in 1 .. Slots /\ i \in 1 .. d
      BY <1>1, SlotsAssumption
    <3>2. PICK q \in Slot : q = QueuePosition(i) /\ Dist(head, q) = i - 1
      BY <3>1, QueueShape, PositionOf
    <3>3. Between(q) /\ Before(q, h)
      BY <1>1, <3>1, <3>2, QueueShape, BetweenIsDist DEF Between, Before
    <3>4. QED
      BY <1>0, <1>6, <3>1, <3>2, <3>3 DEF EvictableUpTo
  <2>3. Released' = SubSeq(Released, n + 1, Len(Released))
    BY <1>1, <1>5, <1>6, QueueShape
  <2>4. Queue!Leave
    BY <1>1, <1>3, <2>1, <2>2, <2>3 DEF Queue!Leave, Released, Behind
  <2>5. QED
    BY <2>4 DEF QueueNext, Queue!Next
<1>9. QED
  BY <1>1, <1>7, <1>8

-----------------------------------------------------------------------------
(* Every step of NvLog. *)

LEMMA SetRefines ==
    ASSUME IInv, NEW w \in Workers, SetStep(w)
    PROVE  QueueNext
<1>0. w \in Threads
  BY DEF Threads
<1>1. CASE SetFind(w)
  BY <1>1, FindRefines DEF SetFind, log
<1>2. CASE SetMarkOld(w) \/ SetUnread(w)
  <2>1. PICK p \in Slot : p = old[w]
    BY <1>0, <1>2 DEF IInv, TypeOK, PointersFollowPc, OldPcs, SetMarkOld, SetUnread
  <2>2. \A q \in Slot \ {p} : item'[q] = item[q]
    BY <1>2, <2>1 DEF IInv, TypeOK, SetMarkOld, SetUnread, ChangeAndRemove
  <2>3. UNCHANGED <<head, next, tail>>
    BY <1>2 DEF SetMarkOld, SetUnread, log
  <2>4. QED
    BY <1>0, <2>1, <2>2, <2>3, HeldStep
<1>3. CASE SetInvalidate(w)
  BY <1>0, <1>3, InvalidateRefines DEF SetInvalidate
<1>4. CASE Allocate(w)
  BY <1>4, AllocateRefines DEF QueueNext, Queue!Next
<1>5. CASE AllocateFails(w)
  BY <1>5, SameItems DEF AllocateFails, log
<1>6. CASE WriteKey(w) \/ WriteVal(w)
  <2>1. PICK p \in Slot : p = it[w]
    BY <1>0, <1>6 DEF IInv, TypeOK, PointersFollowPc, WritePcs, WriteKey, WriteVal
  <2>2. \A q \in Slot \ {p} : item'[q] = item[q]
    BY <1>6, <2>1 DEF IInv, TypeOK, WriteKey, WriteVal, ChangeAndRemove
  <2>3. UNCHANGED <<head, next, tail>>
    BY <1>6 DEF WriteKey, WriteVal, log
  <2>4. QED
    BY <1>0, <2>1, <2>2, <2>3, HeldStep
<1>7. QED
  BY <1>1, <1>2, <1>3, <1>4, <1>5, <1>6 DEF SetStep

LEMMA GetRefines ==
    ASSUME IInv, NEW w \in Workers, GetStep(w)
    PROVE  QueueNext
<1>0. w \in Threads
  BY DEF Threads
<1>1. CASE GetFind(w)
  BY <1>1, FindRefines DEF GetFind, log
<1>2. CASE GetCopy(w) \/ GetStore(w) \/ GetReply(w)
  BY <1>2, SameItems DEF GetCopy, GetStore, GetReply, Copy, log
<1>3. CASE GetUnread(w)
  <2>1. PICK p \in Slot : p = old[w]
    BY <1>0, <1>3 DEF IInv, TypeOK, PointersFollowPc, OldPcs, GetUnread
  <2>2. \A q \in Slot \ {p} : item'[q] = item[q]
    BY <1>3, <2>1 DEF IInv, TypeOK, GetUnread
  <2>3. UNCHANGED <<head, next, tail>>
    BY <1>3 DEF GetUnread, log
  <2>4. QED
    BY <1>0, <2>1, <2>2, <2>3, HeldStep
<1>4. CASE GetInvalidate(w)
  BY <1>0, <1>4, InvalidateRefines DEF GetInvalidate
<1>5. QED
  BY <1>1, <1>2, <1>3, <1>4 DEF GetStep

LEMMA FlushRefines ==
    ASSUME IInv, NEW t \in Threads, FlushStep(t) \/ ClaimLockBusy(t)
    PROVE  QueueNext
<1>1. CASE \/ ClaimLockBusy(t) \/ ClaimNothing(t) \/ ClaimTooEarly(t)
           \/ CheckBetween(t) \/ CheckTail(t) \/ FlushCopy(t) \/ FlushStore(t)
  <2>1. UNCHANGED <<head, next, tail, item>>
    BY <1>1
    DEF ClaimLockBusy, ClaimNothing, ClaimTooEarly, CheckBetween, CheckTail,
        FlushCopy, FlushStore, Copy, log
  <2>2. QED
    BY <2>1, SameItems
<1>2. CASE Claim(t)
  BY <1>2, ClaimRefines DEF QueueNext, Queue!Next
<1>3. CASE ClaimInvalidate(t) \/ FlushInvalidate(t)
  BY <1>3, InvalidateRefines DEF ClaimInvalidate, FlushInvalidate
<1>4. CASE FlushUnread(t) \/ Consume(t)
  <2>1. PICK p \in Slot : p = it[t]
    BY <1>4
    DEF IInv, TypeOK, PointersFollowPc, FlushingPcs, FlushReadPcs, FlushUnread,
        Consume
  <2>2. \A q \in Slot \ {p} : item'[q] = item[q]
    BY <1>4, <2>1 DEF IInv, TypeOK, FlushUnread, Consume, ChangeAndRemove
  <2>3. UNCHANGED <<head, next, tail>>
    BY <1>4 DEF FlushUnread, Consume, log
  <2>4. QED
    BY <2>1, <2>2, <2>3, HeldStep
<1>5. QED
  BY <1>1, <1>2, <1>3, <1>4 DEF FlushStep

LEMMA StepRefines ==
    ASSUME IInv, [Next]_vars
    PROVE  [Queue!Next]_(Queue!qvars)
<1>1. QueueNext
  <2>1. CASE UNCHANGED vars
    BY <2>1, SameItems DEF vars, log
  <2>2. ASSUME NEW w \in Workers, Request(w)
        PROVE  QueueNext
    BY <2>2, SameItems DEF Request, BeginSet, BeginGet, log
  <2>3. QED
    BY <2>1, <2>2, SetRefines, GetRefines, FlushRefines DEF Next, Running
<1>2. QED
  BY <1>1 DEF QueueNext, Queue!qvars, Released, Behind

LEMMA InitRefines ==
    ASSUME Init
    PROVE  Queue!Init
<1>1. Dist(head, tail) = 0 /\ Dist(head, next) = 0
  BY SlotsAssumption DEF Init, Dist
<1>2. Released = <<>>
  BY <1>1 DEF Released
<1>3. QED
  BY <1>1, <1>2 DEF Queue!Init, Released

\* The log is a queue for every number of workers, slots, keys and values:
\* items are claimed in the order NVDIMM_allocate laid them out and each at
\* most once, and NVDIMM_invalidate takes them out in that order, none before
\* it was released, however the sections of the threads interleave.
THEOREM QueueImplemented == Spec => ImplementsQueue
<1>1. Init => Queue!Init
  BY InitRefines
<1>2. IInv /\ [Next]_vars => [Queue!Next]_(Queue!qvars)
  BY StepRefines
<1>3. QED
  BY <1>1, <1>2, Invariance, PTL DEF Spec, ImplementsQueue, Queue!Spec

-----------------------------------------------------------------------------
(* What the clients may expect.                                            *)


allvars == <<vars, hvars>>

-----------------------------------------------------------------------------
(* The invariant for any number of workers. *)

HTypeOK ==
    /\ known \subseteq Keys
    /\ newest \in [Keys -> Values \cup {Absent}]
    /\ promised \in [Workers -> Values \cup {Absent}]
    /\ fate \in [Slot -> SUBSET {"stored", "superseded"}]

\* What an item of the log is there for.
PhaseBits == {"WRITING_KEY", "WRITING_VAL", "WAITING", "WRITING_TO_SSD",
              "CONSUMED"}

InPhase(i) ==
    /\ i.state \cap PhaseBits # {}
    /\ "WRITING_KEY" \in i.state => i.state = {"WRITING_KEY"}
    /\ "WRITING_KEY" \notin i.state => i.key \in Keys /\ i.val \in Values

ItemsInPhase == \A p \in Slot : Between(p) => InPhase(item[p])

\* A SET has its key and value until it is answered, and its item has them as
\* soon as they were written.
SetPending(w) == pc[w] \in SetPcs \cup FlushPcs

RequestComplete ==
    \A w \in Workers :
        /\ SetPending(w) => key[w] \in Keys /\ val[w] \in Values
        /\ pc[w] = "write_val" => /\ item[it[w]].key = key[w]
                                  /\ item[it[w]].val = val[w]

\* A flusher has a value to store, and has stored it when it consumes the item.
FlushersStore ==
    \A t \in Threads :
        /\ pc[t] \in {"flush_unread", "flush_store"} => buf[t] # Absent
        /\ pc[t] = "consume" => /\ store[item[it[t]].key] # Absent
                                /\ "stored" \in fate[it[t]]

ConsumedHaveFate ==
    \A p \in Slot :
        Between(p) /\ "CONSUMED" \in item[p].state => fate[p] # {}

\* A worker that will still give the log an item of this key ...
Owes(w, k) ==
    pc[w] \in (SetPcs \ {"write_val"}) \cup FlushPcs /\ key[w] = k

\* ... and one that has, and is about to answer.
Gave(w, k) == pc[w] = "write_val" /\ key[w] = k

KeyIsKept ==
    \A k \in Keys :
        k \in known \/ (\E w \in Workers : Gave(w, k))
          => Readable(k) \/ store[k] # Absent \/ \E w \in Workers : Owes(w, k)

HInv ==
    /\ HTypeOK
    /\ ItemsInPhase
    /\ RequestComplete
    /\ FlushersStore
    /\ ConsumedHaveFate
    /\ KeyIsKept

-----------------------------------------------------------------------------
(* The invariant for a single worker. *)

OneWorker == \A u, w \in Workers : u = w

WriterOf(p) == {w \in Workers : pc[w] = "write_val" /\ it[w] = p}

WrittenAlone ==
    \A p \in Slot :
        Between(p) /\ "WRITING_VAL" \in item[p].state
          => item[p].state = {"WRITING_VAL"} /\ WriterOf(p) # {}

Live(p, k) == Between(p) /\ Matches(p, k)

\* The SET has taken the previous item of its key out.
ClearedPcs == {"set_unread", "set_inval", "alloc", "write_key"} \cup FlushPcs

Cleared(w) == pc[w] \in ClearedPcs

ClearedFirst ==
    \A w \in Workers, p \in Slot : Cleared(w) => ~Live(p, key[w])

\* ... or is about to take out the only live one, if that is still live.
MarksLast ==
    \A w \in Workers, p \in Slot :
        pc[w] = "set_mark" /\ Live(p, key[w]) => p = old[w]

OneLive ==
    \A k \in Keys, p, q \in Slot : Live(p, k) /\ Live(q, k) => p = q

LiveIsNewest ==
    \A k \in Keys, p \in Slot :
        Live(p, k) /\ WriterOf(p) = {}
          => k \in known /\ item[p].val = newest[k]

KnownHasNewest == \A k \in Keys : newest[k] # Absent => k \in known

\* What the GET a worker serves may rely on, when its key was answered before.
Promise(w) ==
    /\ pc[w] \in {"get_find", "get_store"} => key[w] \in known
    /\ pc[w] = "get_store" => store[key[w]] # Absent
    /\ pc[w] \in {"get_unread", "get_inval", "get_reply"} => buf[w] # Absent

PromiseKept == \A w \in Workers : promised[w] # Absent => Promise(w)

MaintFlushes == pc[Maint] \in FlushPcs

ClientInv ==
    /\ MaintFlushes
    /\ WrittenAlone
    /\ ClearedFirst
    /\ MarksLast
    /\ OneLive
    /\ LiveIsNewest
    /\ KnownHasNewest
    /\ PromiseKept

-----------------------------------------------------------------------------
(* What the invariants say of the items threads work on. *)

LEMMA FlushedHasKey ==
    ASSUME IInv, HInv, NEW t \in Threads, pc[t] \in FlushingPcs
    PROVE  /\ it[t] \in Slot /\ Between(it[t])
           /\ item[it[t]].key \in Keys /\ item[it[t]].val \in Values
           /\ "WRITING_KEY" \notin item[it[t]].state
<1>1. it[t] \in Slot /\ Between(it[t])
  BY DEF IInv, TypeOK, PointersFollowPc, HeldInLog
<1>2. "WRITING_TO_SSD" \in item[it[t]].state
  BY DEF IInv, BitsHeld
<1>3. QED
  BY <1>1, <1>2 DEF HInv, ItemsInPhase, InPhase

LEMMA FoundHasKey ==
    ASSUME IInv, HInv, NEW w \in Workers, pc[w] \in OldPcs
    PROVE  /\ old[w] \in Slot /\ Between(old[w])
           /\ item[old[w]].key = key[w] /\ key[w] \in Keys
           /\ item[old[w]].val \in Values
           /\ "WRITING_KEY" \notin item[old[w]].state
<1>1. w \in Threads /\ old[w] \in Slot /\ Between(old[w]) /\ old[w] # NoSlot
  BY DEF IInv, TypeOK, PointersFollowPc, HeldInLog, Threads
<1>2. item[old[w]].key = key[w] /\ "WRITING_KEY" \notin item[old[w]].state
  BY <1>1 DEF IInv, RequestHeld, FoundItemKeepsItsKey
<1>3. QED
  BY <1>1, <1>2 DEF HInv, ItemsInPhase, InPhase

-----------------------------------------------------------------------------
(* Steps that keep the items of the log, or take them out with a reason.   *)

\* A thread moves from pc[t] to l, no item is added, and whatever item of a key
\* is lost, the key is stored or a worker still owes an item of it.
LEMMA KeepStep ==
    ASSUME IInv, HInv, HTypeOK', NEW t \in Threads, NEW l \in AllPcs,
           pc' = [pc EXCEPT ![t] = l],
           \A u \in Threads \ {t} : /\ key'[u] = key[u] /\ val'[u] = val[u]
                                    /\ buf'[u] = buf[u] /\ it'[u] = it[u],
           \A q \in Slot : /\ Between(q)' => Between(q)
                           /\ item'[q].key = item[q].key
                           /\ item'[q].val = item[q].val
                           /\ fate[q] \subseteq fate'[q],
           \A q \in Slot : Between(q)' =>
               /\ InPhase(item'[q])
               /\ "CONSUMED" \in item'[q].state
                    => "CONSUMED" \in item[q].state \/ fate'[q] # {},
           \A k \in Keys : store[k] # Absent => store'[k] # Absent,
           \A k \in Keys, q \in Slot : Live(q, k) =>
               Live(q, k)' \/ store'[k] # Absent
                           \/ \E w \in Workers : Owes(w, k)',
           \A k \in known' : k \in known \/ \E w \in Workers : Gave(w, k),
           l \notin {"write_val"},
           l = "consume" => /\ store'[item'[it'[t]].key] # Absent
                            /\ "stored" \in fate'[it'[t]],
           l \in {"flush_unread", "flush_store"} => buf'[t] # Absent,
           t \in Workers /\ l \in SetPcs \cup FlushPcs
             => key'[t] \in Keys /\ val'[t] \in Values,
           t \in Workers /\ pc[t] \in (SetPcs \ {"write_val"}) \cup FlushPcs
             => /\ l \in (SetPcs \ {"write_val"}) \cup FlushPcs
                /\ key'[t] = key[t]
    PROVE  HInv'
<1> USE DEF HInv
<1>1. /\ pc \in [Threads -> AllPcs] /\ pc'[t] = l
      /\ \A u \in Threads \ {t} : pc'[u] = pc[u]
  BY DEF IInv, TypeOK, AllPcs
<1>2. ItemsInPhase'
  BY DEF ItemsInPhase
<1>3. ASSUME NEW u \in Threads, pc[u] \in {"write_val", "consume"}
      PROVE  it[u] \in Slot
  BY <1>3 DEF IInv, TypeOK, PointersFollowPc, WritePcs, FlushingPcs
<1>4. RequestComplete'
  <2>1. \A w \in Workers : SetPending(w)' => key'[w] \in Keys /\ val'[w] \in Values
    BY <1>1 DEF RequestComplete, SetPending, Threads
  <2>2. ASSUME NEW w \in Workers, pc'[w] = "write_val"
        PROVE  item'[it'[w]].key = key'[w] /\ item'[it'[w]].val = val'[w]
    <3>1. w # t /\ w \in Threads /\ pc[w] = "write_val"
      BY <1>1, <2>2 DEF Threads
    <3>2. it[w] \in Slot
      BY <1>3, <3>1
    <3>3. QED
      BY <3>1, <3>2 DEF RequestComplete
  <2>3. QED
    BY <2>1, <2>2 DEF RequestComplete
<1>5. FlushersStore'
  <2>1. ASSUME NEW u \in Threads, pc'[u] = "consume"
        PROVE  store'[item'[it'[u]].key] # Absent /\ "stored" \in fate'[it'[u]]
    <3>1. CASE u = t
      BY <1>1, <2>1, <3>1
    <3>2. CASE u # t
      <4>1. pc[u] = "consume" /\ it'[u] = it[u] /\ it[u] \in Slot
        BY <1>1, <1>3, <2>1, <3>2
      <4>2. /\ store[item[it[u]].key] # Absent /\ "stored" \in fate[it[u]]
        BY <4>1 DEF FlushersStore
      <4>3. item[it[u]].key \in Keys
        BY <4>1, FlushedHasKey DEF FlushingPcs
      <4>4. QED
        BY <4>1, <4>2, <4>3
    <3>3. QED
      BY <3>1, <3>2
  <2>2. QED
    BY <1>1, <2>1 DEF FlushersStore
<1>6. ConsumedHaveFate'
  BY DEF ConsumedHaveFate, HTypeOK
<1>7. ASSUME NEW k \in Keys, NEW w \in Workers, Owes(w, k)
      PROVE  Owes(w, k)'
  BY <1>1, <1>7 DEF Owes, Threads
<1>8. ASSUME NEW k \in Keys, NEW w \in Workers, Gave(w, k)'
      PROVE  Gave(w, k)
  BY <1>1, <1>8 DEF Gave, Threads
<1>9. ASSUME NEW k \in Keys, Readable(k)
      PROVE  \/ Readable(k)' \/ store'[k] # Absent
             \/ \E w \in Workers : Owes(w, k)'
  BY <1>9 DEF Readable, Live
<1>10. KeyIsKept'
  BY <1>7, <1>8, <1>9 DEF KeyIsKept
<1>11. QED
  BY <1>2, <1>4, <1>5, <1>6, <1>10

\* A step that leaves the items and the history alone: only released items may
\* leave the log.
LEMMA ItemsStay ==
    ASSUME IInv, HInv, UNCHANGED <<item, fate, known>>,
           \A q \in Slot : /\ Between(q)' => Between(q)
                           /\ Between(q) /\ ~IsEvictable(q) => Between(q)'
    PROVE  /\ \A q \in Slot : /\ Between(q)' => Between(q)
                              /\ item'[q].key = item[q].key
                              /\ item'[q].val = item[q].val
                              /\ fate[q] \subseteq fate'[q]
           /\ \A q \in Slot : Between(q)' =>
                /\ InPhase(item'[q])
                /\ "CONSUMED" \in item'[q].state
                     => "CONSUMED" \in item[q].state \/ fate'[q] # {}
           /\ \A k \in Keys, q \in Slot : Live(q, k) => Live(q, k)'
           /\ \A k \in known' : k \in known
<1>1. ASSUME NEW k \in Keys, NEW q \in Slot, Live(q, k)
      PROVE  Live(q, k)'
  <2>1. ~IsEvictable(q)
    BY <1>1 DEF Live, Matches, IsEmptyState, IsEvictable
  <2>2. Matches(q, k)'
    BY <1>1 DEF Live, Matches, IsEmptyState, KeyPending
  <2>3. QED
    BY <1>1, <2>1, <2>2 DEF Live
<1>2. QED
  BY <1>1 DEF HInv, ItemsInPhase

\* A step that changes bits of one item's state, and leaves what it is there for.
LEMMA BitsChange ==
    ASSUME IInv, HInv, UNCHANGED <<head, tail>>, NEW p \in Slot, NEW i,
           item' = [item EXCEPT ![p] = i],
           Between(p),
           i.key = item[p].key, i.val = item[p].val,
           "WRITING_KEY" \notin item[p].state \cup i.state,
           i.state \cap PhaseBits # {},
           \A q \in Slot : fate[q] \subseteq fate'[q],
           "CONSUMED" \in i.state => "CONSUMED" \in item[p].state \/ fate'[p] # {}
    PROVE  /\ \A q \in Slot : /\ Between(q)' => Between(q)
                              /\ item'[q].key = item[q].key
                              /\ item'[q].val = item[q].val
                              /\ fate[q] \subseteq fate'[q]
           /\ \A q \in Slot : Between(q)' =>
                /\ InPhase(item'[q])
                /\ "CONSUMED" \in item'[q].state
                     => "CONSUMED" \in item[q].state \/ fate'[q] # {}
           /\ \A k \in Keys, q \in Slot :
                Live(q, k) /\ (q = p => "CONSUMED" \notin i.state) => Live(q, k)'
<1>1. /\ item'[p] = i
      /\ \A q \in Slot \ {p} : item'[q] = item[q]
      /\ \A q \in Slot : Between(q)' <=> Between(q)
  BY DEF IInv, TypeOK, Between, IsBetween
<1>2. /\ InPhase(i) /\ \A q \in Slot : Between(q) => InPhase(item[q])
  BY DEF HInv, ItemsInPhase, InPhase
<1>3. ASSUME NEW k \in Keys, NEW q \in Slot, Live(q, k),
             q = p => "CONSUMED" \notin i.state
      PROVE  Live(q, k)'
  <2>1. CASE q = p
    <3>1. i.state # {} /\ i.key = k
      BY <1>3, <2>1 DEF Live, Matches
    <3>2. QED
      BY <1>1, <1>3, <2>1, <3>1 DEF Live, Matches, IsEmptyState, KeyPending
  <2>2. CASE q # p
    BY <1>1, <1>3, <2>2 DEF Live, Matches, IsEmptyState, KeyPending
  <2>3. QED
    BY <2>1, <2>2
<1>4. QED
  BY <1>1, <1>2, <1>3

\* A thread moves on, and nothing but released items leaves the log.
LEMMA MoveStep ==
    ASSUME IInv, HInv, HTypeOK', NEW t \in Threads, NEW l \in AllPcs,
           pc' = [pc EXCEPT ![t] = l], pc[t] # "write_val",
           UNCHANGED <<item, fate, known, store, it>>,
           \A q \in Slot : /\ Between(q)' => Between(q)
                           /\ Between(q) /\ ~IsEvictable(q) => Between(q)',
           \A u \in Threads \ {t} :
               key'[u] = key[u] /\ val'[u] = val[u] /\ buf'[u] = buf[u],
           l \notin {"write_val", "consume"},
           l \in {"flush_unread", "flush_store"} => buf'[t] # Absent,
           t \in Workers /\ l \in SetPcs \cup FlushPcs
             => key'[t] \in Keys /\ val'[t] \in Values,
           t \in Workers /\ pc[t] \in (SetPcs \ {"write_val"}) \cup FlushPcs
             => /\ l \in (SetPcs \ {"write_val"}) \cup FlushPcs
                /\ key'[t] = key[t]
    PROVE  HInv'
BY ItemsStay, KeepStep

LEMMA RingStays ==
    ASSUME UNCHANGED <<head, tail>>
    PROVE  \A q \in Slot : /\ Between(q)' => Between(q)
                           /\ Between(q) /\ ~IsEvictable(q) => Between(q)'
BY DEF Between, IsBetween

LEMMA PointsOnTheWay ==
    /\ SetPcs \cup GetPcs \cup FlushPcs \cup {"idle"} = AllPcs
    /\ \A t \in Threads : AfterWriteOut(t) \in {"claim", "alloc"}
BY DEF AllPcs, AfterWriteOut

\* A worker that serves a SET and stays in it keeps what it owes.
LEMMA SetMove ==
    ASSUME IInv, HInv, HTypeOK', NEW t \in Threads, NEW l \in AllPcs,
           pc' = [pc EXCEPT ![t] = l],
           pc[t] \in (SetPcs \ {"write_val"}) \cup FlushPcs,
           l \in (SetPcs \ {"write_val"}) \cup FlushPcs, l # "consume",
           l \in {"flush_unread", "flush_store"} => buf'[t] # Absent,
           UNCHANGED <<item, fate, known, store, it, key, val>>,
           \A u \in Threads \ {t} : buf'[u] = buf[u],
           \A q \in Slot : /\ Between(q)' => Between(q)
                           /\ Between(q) /\ ~IsEvictable(q) => Between(q)'
    PROVE  HInv'
<1>1. t \in Workers => key[t] \in Keys /\ val[t] \in Values
  BY DEF HInv, RequestComplete, SetPending
<1>2. pc[t] # "write_val" /\ l # "write_val"
  BY DEF FlushPcs
<1>3. QED
  BY <1>1, <1>2, MoveStep

\* A worker that serves a GET owes nothing.
LEMMA GetMove ==
    ASSUME IInv, HInv, HTypeOK', NEW w \in Workers, NEW l \in AllPcs,
           pc' = [pc EXCEPT ![w] = l],
           pc[w] \in GetPcs \cup {"idle"}, l \in GetPcs \cup {"idle"},
           UNCHANGED <<item, fate, known, store, it, val>>,
           \A u \in Threads \ {w} : buf'[u] = buf[u] /\ key'[u] = key[u],
           \A q \in Slot : /\ Between(q)' => Between(q)
                           /\ Between(q) /\ ~IsEvictable(q) => Between(q)'
    PROVE  HInv'
BY MoveStep DEF Threads, SetPcs, GetPcs, FlushPcs

-----------------------------------------------------------------------------
(* Steps that move a thread. *)

LEMMA HBeginSetStep ==
    ASSUME IInv, HInv, UNCHANGED hvars,
           NEW w \in Workers, NEW k \in Keys, NEW v \in Values, BeginSet(w, k, v)
    PROVE  HInv'
<1>1. /\ HTypeOK' /\ w \in Threads /\ "set_find" \in AllPcs
      /\ key'[w] = k /\ val'[w] = v
      /\ \A u \in Threads \ {w} : key'[u] = key[u] /\ val'[u] = val[u]
  BY DEF HInv, HTypeOK, hvars, Threads, AllPcs, SetPcs, BeginSet, IInv, TypeOK
<1>2. QED
  BY <1>1, MoveStep, RingStays
  DEF BeginSet, Goto, log, hvars, SetPcs, GetPcs, FlushPcs, AllPcs

LEMMA HBeginGetStep ==
    ASSUME IInv, HInv, NEW w \in Workers, NEW k \in Keys, HBeginGet(w, k)
    PROVE  HInv'
<1>1. /\ HTypeOK' /\ w \in Threads
      /\ \A u \in Threads \ {w} : key'[u] = key[u]
  BY DEF HInv, HTypeOK, HBeginGet, Threads, BeginGet, IInv, TypeOK
<1>2. QED
  BY <1>1, GetMove, RingStays
  DEF HBeginGet, BeginGet, Goto, log, GetPcs, AllPcs

LEMMA HAnswerGetStep ==
    ASSUME IInv, HInv, NEW w \in Workers, HAnswerGet(w)
    PROVE  HInv'
<1>1. /\ HTypeOK' /\ w \in Threads
      /\ \A u \in Threads \ {w} : key'[u] = key[u] /\ buf'[u] = buf[u]
  BY DEF HInv, HTypeOK, HAnswerGet, Threads, GetReply, IInv, TypeOK
<1>2. QED
  BY <1>1, GetMove, RingStays
  DEF HAnswerGet, GetReply, Goto, log, GetPcs, AllPcs

LEMMA HTypesStay == HInv /\ UNCHANGED hvars => HTypeOK'
BY DEF HInv, HTypeOK, hvars

LEMMA HGetStoreStep ==
    ASSUME IInv, HInv, UNCHANGED hvars, NEW w \in Workers, GetStore(w)
    PROVE  HInv'
<1>1. w \in Threads /\ \A u \in Threads \ {w} : buf'[u] = buf[u]
  BY DEF Threads, GetStore, IInv, TypeOK
<1>2. QED
  BY <1>1, GetMove, RingStays, HTypesStay
  DEF GetStore, Goto, log, hvars, GetPcs, AllPcs

LEMMA HGetCopyStep ==
    ASSUME IInv, HInv, UNCHANGED hvars, NEW w \in Workers, GetCopy(w)
    PROVE  HInv'
<1>1. w \in Threads /\ \A u \in Threads \ {w} : buf'[u] = buf[u]
  BY DEF Threads, GetCopy, Copy, IInv, TypeOK
<1>2. QED
  BY <1>1, GetMove, RingStays, HTypesStay
  DEF GetCopy, Copy, Goto, log, hvars, GetPcs, AllPcs

LEMMA HAllocateFailsStep ==
    ASSUME IInv, HInv, UNCHANGED hvars, NEW w \in Workers, AllocateFails(w)
    PROVE  HInv'
BY SetMove, RingStays, HTypesStay
DEF AllocateFails, Goto, log, hvars, Threads, SetPcs, FlushPcs, AllPcs

LEMMA HClaimMissesStep ==
    ASSUME IInv, HInv, UNCHANGED hvars, NEW t \in Threads,
           ClaimLockBusy(t) \/ ClaimNothing(t) \/ ClaimTooEarly(t)
    PROVE  HInv'
<1>1. PICK l \in {"claim", "alloc", "claim_inval"} : Goto(t, l)
  BY PointsOnTheWay DEF ClaimLockBusy, ClaimNothing, ClaimTooEarly
<1>2. pc[t] = "claim" /\ UNCHANGED <<head, tail, item, store, it, key, val, buf>>
  BY DEF ClaimLockBusy, ClaimNothing, ClaimTooEarly, log
<1>3. QED
  BY <1>1, <1>2, SetMove, RingStays, HTypesStay
  DEF Goto, hvars, SetPcs, FlushPcs, AllPcs

LEMMA HCheckStep ==
    ASSUME IInv, HInv, UNCHANGED hvars, NEW t \in Threads,
           CheckBetween(t) \/ CheckTail(t)
    PROVE  HInv'
<1>1. PICK l \in {"flush_copy", "check_tail"} : Goto(t, l)
  BY DEF CheckBetween, CheckTail
<1>2. /\ pc[t] \in {"check_between", "check_tail"}
      /\ UNCHANGED <<head, tail, item, store, it, key, val, buf>>
  BY DEF CheckBetween, CheckTail, log
<1>3. QED
  BY <1>1, <1>2, SetMove, RingStays, HTypesStay
  DEF Goto, hvars, SetPcs, FlushPcs, AllPcs

\* The flusher's copy is a value, or torn.
LEMMA HFlushCopyStep ==
    ASSUME IInv, HInv, UNCHANGED hvars, NEW t \in Threads, FlushCopy(t)
    PROVE  HInv'
<1>1. item[it[t]].val \in Values
  BY FlushedHasKey DEF FlushCopy, FlushingPcs, FlushReadPcs
<1>2. \A v \in CopyOf(it[t]) : v # Absent
  BY <1>1, ValuesAssumption DEF CopyOf
<1>3. /\ buf'[t] # Absent
      /\ \A u \in Threads \ {t} : buf'[u] = buf[u]
  BY <1>2 DEF FlushCopy, Copy, IInv, TypeOK
<1>4. QED
  BY <1>3, SetMove, RingStays, HTypesStay
  DEF FlushCopy, Copy, Goto, log, hvars, SetPcs, FlushPcs, AllPcs

-----------------------------------------------------------------------------
(* NVDIMM_invalidate. *)

\* What leaves the log was in it and is evictable.
LEMMA InvalidateKeeps ==
    ASSUME IInv, NEW t \in Threads, NEW l, Invalidate(t, l)
    PROVE  \A q \in Slot : /\ Between(q)' => Between(q)
                           /\ Between(q) /\ ~IsEvictable(q) => Between(q)'
<1>0. PICK h \in Slot : EvictableUpTo(h) /\ head' = h
  BY DEF Invalidate
<1>1. /\ head \in Slot /\ tail \in Slot /\ tail' = tail
  BY DEF IInv, TypeOK, Invalidate
<1>2. ASSUME NEW q \in Slot
      PROVE  /\ Dist(head, q) \in 0 .. Slots - 1
             /\ Dist(h, q) \in 0 .. Slots - 1
             /\ Between(q) <=> Dist(head, q) < Dist(head, tail)
             /\ Between(q)' <=> Dist(h, q) < Dist(h, tail)
             /\ Dist(h, q) = IF Dist(head, q) < Dist(head, h)
                             THEN Dist(head, q) - Dist(head, h) + Slots
                             ELSE Dist(head, q) - Dist(head, h)
  <2>1. Between(q)' <=> IsBetween(q, h, tail)
    BY <1>0, <1>1 DEF Between
  <2>2. /\ Dist(head, q) \in 0 .. Slots - 1 /\ Dist(h, q) \in 0 .. Slots - 1
        /\ Dist(head, h) \in 0 .. Slots - 1
    BY <1>1, DistRange
  <2>3. QED
    BY <1>1, <2>1, <2>2, BetweenIsDist, DistSplit, DistBehind, SlotsAssumption
    DEF Between
<1>3. Dist(head, h) <= Dist(head, tail) /\ Dist(head, h) \in 0 .. Slots - 1
  BY <1>0, <1>1, <1>2, SlotsAssumption DEF EvictableUpTo
<1>4. /\ Dist(h, tail) = Dist(head, tail) - Dist(head, h)
      /\ Dist(head, tail) \in 0 .. Slots - 1
  BY <1>1, <1>2, <1>3, SlotsAssumption
<1>5. \A q \in Slot : Between(q)' <=> Between(q) /\ ~Before(q, h)
  BY <1>2, <1>3, <1>4, SlotsAssumption DEF Before
<1>6. QED
  BY <1>0, <1>5 DEF EvictableUpTo

LEMMA HInvalidateStep ==
    ASSUME IInv, HInv, UNCHANGED hvars,
           \/ \E w \in Workers : SetInvalidate(w) \/ GetInvalidate(w)
           \/ \E t \in Threads : ClaimInvalidate(t) \/ FlushInvalidate(t)
    PROVE  HInv'
<1>1. ASSUME NEW t \in Threads, NEW l \in {"alloc", "claim"}, Invalidate(t, l),
             pc[t] \in {"set_inval", "claim_inval", "flush_inval"},
             UNCHANGED <<key, val, it, old, buf>>
      PROVE  HInv'
  BY <1>1, SetMove, InvalidateKeeps, HTypesStay
  DEF Invalidate, Goto, hvars, SetPcs, FlushPcs, AllPcs
<1>2. ASSUME NEW w \in Workers, GetInvalidate(w)
      PROVE  HInv'
  <2>1. w \in Threads
    BY DEF Threads
  <2>2. QED
    BY <1>2, <2>1, GetMove, InvalidateKeeps, HTypesStay
    DEF GetInvalidate, Invalidate, Goto, hvars, GetPcs, AllPcs
<1>3. QED
  BY <1>1, <1>2, PointsOnTheWay
  DEF SetInvalidate, ClaimInvalidate, FlushInvalidate, Threads

-----------------------------------------------------------------------------
(* NVDIMM_find and the end of a reading. *)

LEMMA FoundInPhase ==
    ASSUME IInv, HInv, NEW k, NEW p \in Slot, FoundAt(k, p)
    PROVE  /\ Between(p) /\ InPhase(item[p]) /\ item[p] \in Item
           /\ "WRITING_KEY" \notin item[p].state
           /\ "CONSUMED" \notin item[p].state
BY DEF FoundAt, HInv, ItemsInPhase, IInv, TypeOK, Matches, KeyPending,
   IsEmptyState

LEMMA HFindStep ==
    ASSUME IInv, HInv, UNCHANGED hvars, NEW w \in Workers,
           SetFind(w) \/ GetFind(w)
    PROVE  HInv'
<1>0. /\ w \in Threads /\ HTypeOK' /\ pc[w] \in {"set_find", "get_find"}
      /\ UNCHANGED <<head, tail, store, key, val, it, buf, fate, known>>
  BY HTypesStay DEF SetFind, GetFind, Threads, log, hvars
<1>1. PICK l \in {"set_mark", "alloc", "get_copy", "get_store"} :
        /\ pc' = [pc EXCEPT ![w] = l]
        /\ pc[w] = "set_find" => l \in {"set_mark", "alloc"}
        /\ pc[w] = "get_find" => l \in {"get_copy", "get_store"}
        /\ \/ item' = item
           \/ \E p \in Slot : /\ FoundAt(key[w], p)
                              /\ item' = [item EXCEPT ![p] = AddReader(item[p])]
  BY DEF SetFind, GetFind, Find, Goto
<1>2. l \in AllPcs
  BY DEF AllPcs, SetPcs, GetPcs
<1>3. /\ w \in Workers /\ l \in SetPcs \cup FlushPcs
           => key'[w] \in Keys /\ val'[w] \in Values
      /\ w \in Workers /\ pc[w] \in (SetPcs \ {"write_val"}) \cup FlushPcs
           => l \in (SetPcs \ {"write_val"}) \cup FlushPcs
  BY <1>0, <1>1 DEF HInv, RequestComplete, SetPending, SetPcs, GetPcs, FlushPcs
<1>4. CASE item' = item
  BY <1>0, <1>1, <1>2, <1>3, <1>4, MoveStep, RingStays
<1>5. CASE \E p \in Slot : /\ FoundAt(key[w], p)
                          /\ item' = [item EXCEPT ![p] = AddReader(item[p])]
  <2>1. PICK p \in Slot : /\ FoundAt(key[w], p)
                          /\ item' = [item EXCEPT ![p] = AddReader(item[p])]
    BY <1>5
  <2>2. /\ Between(p) /\ InPhase(item[p]) /\ item[p] \in Item
        /\ "WRITING_KEY" \notin item[p].state
        /\ "CONSUMED" \notin item[p].state
    BY <2>1, FoundInPhase
  <2>3. /\ AddReader(item[p]).key = item[p].key
        /\ AddReader(item[p]).val = item[p].val
        /\ AddReader(item[p]).state = item[p].state \cup {"READING"}
    BY <2>2, AddReaderType
  <2>4. /\ AddReader(item[p]).state \cap PhaseBits # {}
        /\ "WRITING_KEY" \notin item[p].state \cup AddReader(item[p]).state
        /\ "CONSUMED" \notin AddReader(item[p]).state
    BY <2>2, <2>3 DEF InPhase
  <2>5. QED
    BY <1>0, <1>1, <1>2, <1>3, <2>1, <2>2, <2>3, <2>4, BitsChange, KeepStep
<1>6. QED
  BY <1>1, <1>4, <1>5

\* The phase of an item is not touched when a reader leaves.
LEMMA UnreadKeepsPhase ==
    ASSUME NEW i \in Item, InPhase(i)
    PROVE  /\ RemoveReader(i).key = i.key /\ RemoveReader(i).val = i.val
           /\ RemoveReader(i).state \cap PhaseBits # {}
           /\ \A b \in PhaseBits : b \in RemoveReader(i).state <=> b \in i.state
<1>1. /\ RemoveReader(i).key = i.key /\ RemoveReader(i).val = i.val
      /\ RemoveReader(i).state = IF DecReaders(i.readers) = 0
                                 THEN i.state \ {"READING"} ELSE i.state
  BY RemoveReaderType
<1>2. "READING" \notin PhaseBits
  BY DEF PhaseBits
<1>3. QED
  BY <1>1, <1>2 DEF InPhase

LEMMA HUnreadStep ==
    ASSUME IInv, HInv, UNCHANGED hvars, NEW w \in Workers,
           SetUnread(w) \/ GetUnread(w)
    PROVE  HInv'
<1>0. /\ w \in Threads /\ HTypeOK'
      /\ UNCHANGED <<head, tail, store, key, val, it, buf, fate, known>>
      /\ pc[w] \in {"set_unread", "get_unread"}
      /\ item' = [item EXCEPT ![old[w]] = RemoveReader(item[old[w]])]
  BY HTypesStay DEF SetUnread, GetUnread, Threads, log, hvars
<1>1. PICK l \in {"set_inval", "get_inval"} :
        /\ pc' = [pc EXCEPT ![w] = l]
        /\ pc[w] = "set_unread" => l = "set_inval"
        /\ pc[w] = "get_unread" => l = "get_inval"
  BY DEF SetUnread, GetUnread, Goto
<1>2. l \in AllPcs /\ pc[w] \in OldPcs
  BY <1>0 DEF AllPcs, SetPcs, GetPcs, OldPcs
<1>3. /\ w \in Workers /\ l \in SetPcs \cup FlushPcs
           => key'[w] \in Keys /\ val'[w] \in Values
      /\ w \in Workers /\ pc[w] \in (SetPcs \ {"write_val"}) \cup FlushPcs
           => l \in (SetPcs \ {"write_val"}) \cup FlushPcs
  BY <1>0, <1>1 DEF HInv, RequestComplete, SetPending, SetPcs, GetPcs, FlushPcs
<1>4. /\ old[w] \in Slot /\ Between(old[w])
      /\ "WRITING_KEY" \notin item[old[w]].state
      /\ item[old[w]] \in Item /\ InPhase(item[old[w]])
  BY <1>2, FoundHasKey DEF HInv, ItemsInPhase, IInv, TypeOK
<1> DEFINE i == RemoveReader(item[old[w]])
<1>5. /\ i.key = item[old[w]].key /\ i.val = item[old[w]].val
      /\ "WRITING_KEY" \notin item[old[w]].state \cup i.state
      /\ i.state \cap PhaseBits # {}
      /\ "CONSUMED" \in i.state <=> "CONSUMED" \in item[old[w]].state
  BY <1>4, UnreadKeepsPhase DEF PhaseBits
<1>6. item' = [item EXCEPT ![old[w]] = i]
  BY <1>0
<1> HIDE DEF i
<1>7. ASSUME NEW k \in Keys, NEW q \in Slot, Live(q, k), q = old[w]
      PROVE  "CONSUMED" \notin i.state
  BY <1>5, <1>7 DEF Live, Matches, IsEmptyState
<1>8. /\ \A p \in Slot : /\ Between(p)' => Between(p)
                         /\ item'[p].key = item[p].key
                         /\ item'[p].val = item[p].val
                         /\ fate[p] \subseteq fate'[p]
      /\ \A p \in Slot : Between(p)' =>
           /\ InPhase(item'[p])
           /\ "CONSUMED" \in item'[p].state
                => "CONSUMED" \in item[p].state \/ fate'[p] # {}
      /\ \A k \in Keys, p \in Slot : Live(p, k) => Live(p, k)'
  BY <1>0, <1>4, <1>5, <1>6, <1>7, BitsChange
<1>9. QED
  BY <1>0, <1>1, <1>2, <1>3, <1>8, KeepStep

LEMMA HFlushUnreadStep ==
    ASSUME IInv, HInv, UNCHANGED hvars, NEW t \in Threads, FlushUnread(t)
    PROVE  HInv'
<1>0. /\ HTypeOK' /\ pc[t] = "flush_unread" /\ buf[t] # Absent
      /\ UNCHANGED <<head, tail, store, key, val, it, buf, fate, known>>
      /\ pc' = [pc EXCEPT ![t] = "flush_store"]
      /\ item' = [item EXCEPT ![it[t]] = RemoveReader(item[it[t]])]
  BY HTypesStay DEF FlushUnread, Goto, log, hvars, HInv, FlushersStore
<1>1. "flush_store" \in AllPcs /\ pc[t] \in FlushingPcs
  BY <1>0 DEF AllPcs, FlushPcs, FlushingPcs, FlushReadPcs
<1>2. /\ t \in Workers => key'[t] \in Keys /\ val'[t] \in Values
      /\ "flush_store" \in FlushPcs
  BY <1>0 DEF HInv, RequestComplete, SetPending, FlushPcs
<1>3. /\ it[t] \in Slot /\ Between(it[t])
      /\ "WRITING_KEY" \notin item[it[t]].state
      /\ item[it[t]] \in Item /\ InPhase(item[it[t]])
  BY <1>1, FlushedHasKey DEF HInv, ItemsInPhase, IInv, TypeOK
<1> DEFINE i == RemoveReader(item[it[t]])
<1>4. /\ i.key = item[it[t]].key /\ i.val = item[it[t]].val
      /\ "WRITING_KEY" \notin item[it[t]].state \cup i.state
      /\ i.state \cap PhaseBits # {}
      /\ "CONSUMED" \in i.state <=> "CONSUMED" \in item[it[t]].state
  BY <1>3, UnreadKeepsPhase DEF PhaseBits
<1>5. item' = [item EXCEPT ![it[t]] = i]
  BY <1>0
<1> HIDE DEF i
<1>6. ASSUME NEW k \in Keys, NEW q \in Slot, Live(q, k), q = it[t]
      PROVE  "CONSUMED" \notin i.state
  BY <1>4, <1>6 DEF Live, Matches, IsEmptyState
<1>7. /\ \A p \in Slot : /\ Between(p)' => Between(p)
                         /\ item'[p].key = item[p].key
                         /\ item'[p].val = item[p].val
                         /\ fate[p] \subseteq fate'[p]
      /\ \A p \in Slot : Between(p)' =>
           /\ InPhase(item'[p])
           /\ "CONSUMED" \in item'[p].state
                => "CONSUMED" \in item[p].state \/ fate'[p] # {}
      /\ \A k \in Keys, p \in Slot : Live(p, k) => Live(p, k)'
  BY <1>0, <1>3, <1>4, <1>5, <1>6, BitsChange
<1>8. QED
  BY <1>0, <1>1, <1>2, <1>7, KeepStep

-----------------------------------------------------------------------------
(* Claiming, completing, consuming. *)

LEMMA HClaimStep ==
    ASSUME IInv, HInv, UNCHANGED hvars, NEW t \in Threads, Claim(t)
    PROVE  HInv'
<1> DEFINE p == next
           i == Claimed(item[p])
<1>0. /\ HTypeOK' /\ pc[t] = "claim" /\ p \in Slot /\ Between(p)
      /\ UNCHANGED <<head, tail, store, key, val, buf, fate, known>>
      /\ pc' = [pc EXCEPT ![t] = "check_between"]
      /\ it' = [it EXCEPT ![t] = p] /\ item' = [item EXCEPT ![p] = i]
      /\ ~IsEmptyState(p) /\ ~BeingWritten(p) /\ item[p] \in Item
      /\ InPhase(item[p])
  BY HTypesStay DEF Claim, Goto, log, hvars, IInv, TypeOK, HInv, ItemsInPhase
<1>1. /\ "check_between" \in AllPcs
      /\ \A u \in Threads \ {t} : it'[u] = it[u]
      /\ t \in Workers => key'[t] \in Keys /\ val'[t] \in Values
      /\ "check_between" \in FlushPcs
  BY <1>0
  DEF AllPcs, FlushPcs, IInv, TypeOK, HInv, RequestComplete, SetPending
<1>2. /\ "WRITING_KEY" \notin item[p].state /\ "CONSUMED" \notin item[p].state
  BY <1>0 DEF InPhase, BeingWritten, IsEmptyState
<1>3. /\ i.key = item[p].key /\ i.val = item[p].val
      /\ i.state = ((item[p].state \cup {"WRITING_TO_SSD"}) \ {"WAITING"})
                       \cup {"READING"}
  BY <1>0, ClaimedType
<1>4. /\ "WRITING_KEY" \notin item[p].state \cup i.state
      /\ i.state \cap PhaseBits # {} /\ "CONSUMED" \notin i.state
  BY <1>2, <1>3 DEF PhaseBits
<1> HIDE DEF p, i
<1>5. /\ \A q \in Slot : /\ Between(q)' => Between(q)
                         /\ item'[q].key = item[q].key
                         /\ item'[q].val = item[q].val
                         /\ fate[q] \subseteq fate'[q]
      /\ \A q \in Slot : Between(q)' =>
           /\ InPhase(item'[q])
           /\ "CONSUMED" \in item'[q].state
                => "CONSUMED" \in item[q].state \/ fate'[q] # {}
      /\ \A k \in Keys, q \in Slot :
           Live(q, k) /\ (q = p => "CONSUMED" \notin i.state) => Live(q, k)'
  BY <1>0, <1>3, <1>4, BitsChange
<1>6. QED
  BY <1>0, <1>1, <1>4, <1>5, KeepStep

LEMMA HAnswerSetStep ==
    ASSUME IInv, HInv, NEW w \in Workers, HAnswerSet(w)
    PROVE  HInv'
<1> DEFINE p == it[w]
           i == [item[p] EXCEPT !.state = (@ \cup {"WAITING"}) \ {"WRITING_VAL"}]
<1>0. /\ w \in Threads /\ pc[w] = "write_val"
      /\ UNCHANGED <<head, tail, store, buf, fate>>
      /\ pc' = [pc EXCEPT ![w] = "idle"]
      /\ it' = [it EXCEPT ![w] = NoSlot] /\ item' = [item EXCEPT ![p] = i]
      /\ key' = [key EXCEPT ![w] = NoKey] /\ val' = [val EXCEPT ![w] = Absent]
      /\ known' = known \cup {key[w]}
      /\ newest' = [newest EXCEPT ![key[w]] = val[w]] /\ promised' = promised
  BY DEF HAnswerSet, WriteVal, ChangeAndRemove, Goto, log, Threads
<1>1. /\ key[w] \in Keys /\ val[w] \in Values
      /\ Gave(w, key[w])
  BY <1>0 DEF HInv, RequestComplete, SetPending, SetPcs, Gave
<1>2. /\ HTypeOK' /\ "idle" \in AllPcs
      /\ \A u \in Threads \ {w} : /\ it'[u] = it[u] /\ key'[u] = key[u]
                                  /\ val'[u] = val[u]
  BY <1>0, <1>1 DEF AllPcs, IInv, TypeOK, HInv, HTypeOK
<1>3. p \in Slot /\ Between(p) /\ "WRITING_VAL" \in item[p].state
  BY <1>0
  DEF IInv, TypeOK, PointersFollowPc, WritePcs, HeldInLog, BitsHeld
<1>4. /\ item[p] \in Item /\ InPhase(item[p])
      /\ "WRITING_KEY" \notin item[p].state
  BY <1>3 DEF IInv, TypeOK, HInv, ItemsInPhase, InPhase
<1>5. /\ i.key = item[p].key /\ i.val = item[p].val
      /\ i.state = (item[p].state \cup {"WAITING"}) \ {"WRITING_VAL"}
  BY <1>4 DEF Item
<1>6. /\ "WRITING_KEY" \notin item[p].state \cup i.state
      /\ i.state \cap PhaseBits # {}
      /\ "CONSUMED" \in i.state <=> "CONSUMED" \in item[p].state
  BY <1>4, <1>5 DEF PhaseBits
<1> HIDE DEF p, i
<1>7. /\ \A q \in Slot : /\ Between(q)' => Between(q)
                         /\ item'[q].key = item[q].key
                         /\ item'[q].val = item[q].val
                         /\ fate[q] \subseteq fate'[q]
      /\ \A q \in Slot : Between(q)' =>
           /\ InPhase(item'[q])
           /\ "CONSUMED" \in item'[q].state
                => "CONSUMED" \in item[q].state \/ fate'[q] # {}
      /\ \A k \in Keys, q \in Slot :
           Live(q, k) /\ (q = p => "CONSUMED" \notin i.state) => Live(q, k)'
  BY <1>0, <1>3, <1>5, <1>6, BitsChange
<1>8. \A k \in Keys, q \in Slot : Live(q, k) => Live(q, k)'
  BY <1>6, <1>7 DEF Live, Matches, IsEmptyState
<1>9. \A k \in known' : k \in known \/ \E u \in Workers : Gave(u, k)
  BY <1>0, <1>1
<1>10. "idle" \notin SetPcs \cup FlushPcs /\ "write_val" \notin FlushPcs
  BY DEF SetPcs, FlushPcs
<1>11. QED
  BY <1>0, <1>2, <1>7, <1>8, <1>9, <1>10, KeepStep, ZenonT(40)

\* The worker that takes an item out owes another of the same key.
LEMMA HMarkOldStep ==
    ASSUME IInv, HInv, NEW w \in Workers, HMarkOld(w)
    PROVE  HInv'
<1> DEFINE p == old[w]
           i == [item[p] EXCEPT !.state = (@ \cup {"CONSUMED"}) \ {"WAITING"}]
<1>0. /\ w \in Threads /\ pc[w] = "set_mark"
      /\ UNCHANGED <<head, tail, store, buf, it, key, val, known, newest, promised>>
      /\ pc' = [pc EXCEPT ![w] = "set_unread"]
      /\ item' = [item EXCEPT ![p] = i]
      /\ fate' = [fate EXCEPT ![p] = @ \cup {"superseded"}]
  BY DEF HMarkOld, SetMarkOld, ChangeAndRemove, Goto, log, Threads
<1>1. /\ p \in Slot /\ Between(p) /\ item[p].key = key[w] /\ key[w] \in Keys
      /\ "WRITING_KEY" \notin item[p].state /\ item[p] \in Item
  BY <1>0, FoundHasKey DEF OldPcs, IInv, TypeOK
<1>2. /\ HTypeOK' /\ \A q \in Slot : fate[q] \subseteq fate'[q]
      /\ fate'[p] # {}
  BY <1>0, <1>1 DEF HInv, HTypeOK
<1>3. /\ i.key = item[p].key /\ i.val = item[p].val
      /\ i.state = (item[p].state \cup {"CONSUMED"}) \ {"WAITING"}
  BY <1>1 DEF Item
<1>4. /\ "WRITING_KEY" \notin item[p].state \cup i.state
      /\ i.state \cap PhaseBits # {}
  BY <1>1, <1>3 DEF PhaseBits
<1>5. /\ "set_unread" \in (SetPcs \ {"write_val"}) \cup FlushPcs
      /\ "set_unread" \in AllPcs
      /\ key'[w] \in Keys /\ val'[w] \in Values
  BY <1>0 DEF SetPcs, AllPcs, HInv, RequestComplete, SetPending
<1>6. Owes(w, key[w])'
  BY <1>0, <1>5 DEF Owes, IInv, TypeOK
<1> HIDE DEF p, i
<1>7. /\ \A q \in Slot : /\ Between(q)' => Between(q)
                         /\ item'[q].key = item[q].key
                         /\ item'[q].val = item[q].val
                         /\ fate[q] \subseteq fate'[q]
      /\ \A q \in Slot : Between(q)' =>
           /\ InPhase(item'[q])
           /\ "CONSUMED" \in item'[q].state
                => "CONSUMED" \in item[q].state \/ fate'[q] # {}
      /\ \A k \in Keys, q \in Slot :
           Live(q, k) /\ (q = p => "CONSUMED" \notin i.state) => Live(q, k)'
  BY <1>0, <1>1, <1>2, <1>3, <1>4, BitsChange
<1>8. ASSUME NEW k \in Keys, NEW q \in Slot, Live(q, k)
      PROVE  Live(q, k)' \/ Owes(w, k)'
  <2>1. CASE q = p
    <3>1. k = key[w]
      BY <1>1, <1>8, <2>1 DEF Live, Matches
    <3>2. QED
      BY <1>0, <1>6, <3>1 DEF Owes
  <2>2. CASE q # p
    BY <1>7, <1>8, <2>2
  <2>3. QED
    BY <2>1, <2>2
<1>9. QED
  BY <1>0, <1>2, <1>5, <1>7, <1>8, KeepStep

\* What a flusher consumes, it has stored.
LEMMA HConsumeStep ==
    ASSUME IInv, HInv, UNCHANGED hvars, NEW t \in Threads, Consume(t)
    PROVE  HInv'
<1> DEFINE p == it[t]
           i == [item[p] EXCEPT !.state = (@ \cup {"CONSUMED"}) \ {"WRITING_TO_SSD"}]
<1>0. /\ HTypeOK' /\ pc[t] = "consume"
      /\ UNCHANGED <<head, tail, store, buf, key, val, known, fate>>
      /\ pc' = [pc EXCEPT ![t] = "flush_inval"]
      /\ it' = [it EXCEPT ![t] = NoSlot] /\ item' = [item EXCEPT ![p] = i]
  BY HTypesStay DEF Consume, ChangeAndRemove, Goto, log, hvars
<1>1. /\ p \in Slot /\ Between(p) /\ item[p].key \in Keys
      /\ "WRITING_KEY" \notin item[p].state /\ item[p] \in Item
  BY <1>0, FlushedHasKey DEF FlushingPcs, IInv, TypeOK
<1>2. /\ store'[item[p].key] # Absent /\ fate'[p] # {}
      /\ \A u \in Threads \ {t} : it'[u] = it[u]
  BY <1>0, <1>1 DEF HInv, FlushersStore, IInv, TypeOK
<1>3. /\ i.key = item[p].key /\ i.val = item[p].val
      /\ i.state = (item[p].state \cup {"CONSUMED"}) \ {"WRITING_TO_SSD"}
  BY <1>1 DEF Item
<1>4. /\ "WRITING_KEY" \notin item[p].state \cup i.state
      /\ i.state \cap PhaseBits # {}
  BY <1>1, <1>3 DEF PhaseBits
<1>5. /\ "flush_inval" \in FlushPcs /\ "flush_inval" \in AllPcs
      /\ t \in Workers => key'[t] \in Keys /\ val'[t] \in Values
  BY <1>0 DEF FlushPcs, AllPcs, HInv, RequestComplete, SetPending
<1> HIDE DEF p, i
<1>6. /\ \A q \in Slot : /\ Between(q)' => Between(q)
                         /\ item'[q].key = item[q].key
                         /\ item'[q].val = item[q].val
                         /\ fate[q] \subseteq fate'[q]
      /\ \A q \in Slot : Between(q)' =>
           /\ InPhase(item'[q])
           /\ "CONSUMED" \in item'[q].state
                => "CONSUMED" \in item[q].state \/ fate'[q] # {}
      /\ \A k \in Keys, q \in Slot :
           Live(q, k) /\ (q = p => "CONSUMED" \notin i.state) => Live(q, k)'
  BY <1>0, <1>1, <1>2, <1>3, <1>4, BitsChange
<1>7. ASSUME NEW k \in Keys, NEW q \in Slot, Live(q, k)
      PROVE  Live(q, k)' \/ store'[k] # Absent
  BY <1>2, <1>6, <1>7 DEF Live, Matches
<1>8. QED
  BY <1>0, <1>2, <1>5, <1>6, <1>7, KeepStep

LEMMA HStoreStep ==
    ASSUME IInv, HInv, NEW t \in Threads, HStore(t)
    PROVE  HInv'
<1> DEFINE p == it[t]
           k == item[p].key
<1>0. /\ pc[t] = "flush_store"
      /\ UNCHANGED <<head, tail, item, it, key, val, known, newest, promised>>
      /\ pc' = [pc EXCEPT ![t] = "consume"]
      /\ store' = [store EXCEPT ![k] = buf[t]]
      /\ buf' = [buf EXCEPT ![t] = Absent]
      /\ fate' = [fate EXCEPT ![p] = @ \cup {"stored"}]
  BY DEF HStore, FlushStore, Goto, log
<1>1. p \in Slot /\ k \in Keys /\ buf[t] # Absent
  BY <1>0, FlushedHasKey DEF FlushingPcs, HInv, FlushersStore
<1>2. /\ HTypeOK' /\ \A q \in Slot : fate[q] \subseteq fate'[q]
      /\ "stored" \in fate'[p] /\ store'[k] # Absent
      /\ \A l \in Keys : store[l] # Absent => store'[l] # Absent
      /\ \A u \in Threads \ {t} : buf'[u] = buf[u]
  BY <1>0, <1>1 DEF HInv, HTypeOK, IInv, TypeOK
<1>3. /\ "consume" \in FlushPcs /\ "consume" \in AllPcs
      /\ t \in Workers => key'[t] \in Keys /\ val'[t] \in Values
  BY <1>0 DEF FlushPcs, AllPcs, HInv, RequestComplete, SetPending
<1>4. /\ \A q \in Slot : Between(q)' <=> Between(q)
      /\ \A l \in Keys, q \in Slot : Live(q, l) => Live(q, l)'
      /\ \A q \in Slot : Between(q) => InPhase(item[q])
  BY <1>0
  DEF Between, IsBetween, Live, Matches, IsEmptyState, KeyPending, HInv,
      ItemsInPhase
<1>5. QED
  BY <1>0, <1>2, <1>3, <1>4, KeepStep

-----------------------------------------------------------------------------
(* The item a SET appends. *)

\* Appending adds the slot at the tail, which no thread works on.
LEMMA AllocateAppends ==
    ASSUME IInv, NEW w \in Workers, Allocate(w)
    PROVE  /\ tail \in Slot /\ ~Between(tail)
           /\ \A q \in Slot : Between(q)' <=> Between(q) \/ q = tail
           /\ \A u \in Threads : it[u] # tail /\ old[u] # tail
<1> USE DEF IInv
<1>0. PICK p \in Slot : p = tail
  BY DEF TypeOK
<1>1. head \in Slot /\ head' = head /\ tail' = Succ(p) /\ p # NoSlot
  BY <1>0, ValuesAssumption DEF TypeOK, Allocate
<1>2. /\ tail' \in Slot
      /\ Dist(head, tail') = Dist(head, tail) + 1
      /\ Dist(head, tail) \in 0 .. Slots - 1
  <2>1. capacity > 1 /\ capacity = Slots - Dist(head, tail)
    BY DEF Allocate, RingConsistent
  <2>2. Dist(head, tail) \in 0 .. Slots - 1
    BY <1>0, <1>1, DistRange
  <2>3. Succ(tail) # head
    BY <1>0, <1>1, <2>1, <2>2, SuccDist, SlotsAssumption
  <2>4. QED
    BY <1>0, <1>1, <2>2, <2>3, SuccDist
<1>3. ASSUME NEW q \in Slot
      PROVE  Between(q)' <=> Between(q) \/ q = p
  <2>1. Between(q) <=> Dist(head, q) < Dist(head, tail)
    BY <1>0, <1>1, BetweenIsDist DEF Between
  <2>2. Between(q)' <=> Dist(head, q) < Dist(head, tail')
    BY <1>1, <1>2, BetweenIsDist DEF Between
  <2>3. Dist(head, q) \in 0 .. Slots - 1
    BY <1>1, DistRange
  <2>4. Dist(head, q) = Dist(head, p) => q = p
    BY <1>1, DistInjective
  <2>5. QED
    BY <1>0, <1>2, <2>1, <2>2, <2>3, <2>4
<1>4. ~Between(p)
  BY <1>0, <1>1, BetweenNotTail DEF Between
<1>5. \A u \in Threads : it[u] # p /\ old[u] # p
  BY <1>1, <1>4 DEF HeldInLog
<1>6. QED
  BY <1>0, <1>3, <1>4, <1>5

\* The new slot's flags are those of the new item only, and its fate is open.
LEMMA HAllocateStep ==
    ASSUME IInv, HInv, NEW w \in Workers, HAllocate(w)
    PROVE  HInv'
<1> DEFINE p == tail
<1>0. Allocate(w)
  BY DEF HAllocate
<1>1. /\ p \in Slot /\ ~Between(p)
      /\ \A q \in Slot : Between(q)' <=> Between(q) \/ q = p
      /\ \A u \in Threads : it[u] # p /\ old[u] # p
  BY <1>0, AllocateAppends
<1>2. /\ w \in Threads /\ pc[w] = "alloc" /\ pc' = [pc EXCEPT ![w] = "write_key"]
      /\ it' = [it EXCEPT ![w] = p]
      /\ fate' = [fate EXCEPT ![p] = {}]
      /\ UNCHANGED <<store, key, val, old, buf, known, newest, promised>>
  BY DEF HAllocate, Allocate, Goto, Threads
<1>3. /\ item'[p].state = {"WRITING_KEY"}
      /\ \A q \in Slot \ {p} : item'[q] = item[q] /\ fate'[q] = fate[q]
  BY <1>0, <1>1, <1>2 DEF Allocate, IInv, TypeOK, Item, HInv, HTypeOK
<1> HIDE DEF p
<1>4. /\ pc'[w] = "write_key"
      /\ \A u \in Threads \ {w} : pc'[u] = pc[u] /\ it'[u] = it[u]
  BY <1>2 DEF IInv, TypeOK
<1>5. HTypeOK'
  BY <1>1, <1>2 DEF HInv, HTypeOK
<1>6. ItemsInPhase'
  BY <1>1, <1>3 DEF HInv, ItemsInPhase, InPhase, PhaseBits
<1>7. ASSUME NEW u \in Threads, pc[u] \in {"write_val", "consume"}
      PROVE  it[u] \in Slot \ {p}
  BY <1>1, <1>7 DEF IInv, TypeOK, PointersFollowPc, WritePcs, FlushingPcs
<1>8. RequestComplete'
  <2>1. \A u \in Workers : SetPending(u)' => key'[u] \in Keys /\ val'[u] \in Values
    BY <1>2, <1>4 DEF HInv, RequestComplete, SetPending, Threads, SetPcs
  <2>2. ASSUME NEW u \in Workers, pc'[u] = "write_val"
        PROVE  item'[it'[u]].key = key'[u] /\ item'[it'[u]].val = val'[u]
    <3>1. u # w /\ u \in Threads /\ pc[u] = "write_val"
      BY <1>4, <2>2 DEF Threads
    <3>2. QED
      BY <1>2, <1>3, <1>4, <1>7, <3>1 DEF HInv, RequestComplete
  <2>3. QED
    BY <2>1, <2>2 DEF RequestComplete
<1>9. FlushersStore'
  <2>1. ASSUME NEW u \in Threads, pc'[u] = "consume"
        PROVE  store'[item'[it'[u]].key] # Absent /\ "stored" \in fate'[it'[u]]
    <3>1. u # w /\ pc[u] = "consume"
      BY <1>4, <2>1
    <3>2. QED
      BY <1>2, <1>3, <1>4, <1>7, <3>1 DEF HInv, FlushersStore
  <2>2. QED
    BY <1>2, <1>4, <2>1 DEF HInv, FlushersStore
<1>10. ConsumedHaveFate'
  BY <1>1, <1>3 DEF HInv, ConsumedHaveFate
<1>11. KeyIsKept'
  <2>1. ASSUME NEW k \in Keys, NEW u \in Workers, Owes(u, k)
        PROVE  Owes(u, k)'
    BY <1>2, <1>4, <2>1 DEF Owes, Threads, SetPcs
  <2>2. ASSUME NEW k \in Keys, NEW u \in Workers, Gave(u, k)'
        PROVE  Gave(u, k)
    BY <1>2, <1>4, <2>2 DEF Gave, Threads
  <2>3. ASSUME NEW k \in Keys, Readable(k)
        PROVE  Readable(k)'
    BY <1>1, <1>3, <2>3 DEF Readable, Matches, IsEmptyState, KeyPending
  <2>4. QED
    BY <1>2, <2>1, <2>2, <2>3 DEF HInv, KeyIsKept
<1>12. QED
  BY <1>5, <1>6, <1>8, <1>9, <1>10, <1>11 DEF HInv

\* With its key the new item answers for it.
LEMMA HWriteKeyStep ==
    ASSUME IInv, HInv, UNCHANGED hvars, NEW w \in Workers, WriteKey(w)
    PROVE  HInv'
<1> DEFINE p == it[w]
<1>0. /\ w \in Threads /\ pc[w] = "write_key" /\ pc' = [pc EXCEPT ![w] = "write_val"]
      /\ UNCHANGED <<head, tail, store, key, val, it, old, buf, known, fate>>
  BY DEF WriteKey, Goto, log, hvars, Threads
<1>1. /\ p \in Slot /\ Between(p) /\ "WRITING_KEY" \in item[p].state
      /\ item[p] \in Item
  BY <1>0
  DEF IInv, TypeOK, PointersFollowPc, WritePcs, HeldInLog, BitsHeld
<1>2. item[p].state = {"WRITING_KEY"}
  BY <1>1 DEF HInv, ItemsInPhase, InPhase
<1>3. key[w] \in Keys /\ val[w] \in Values
  BY <1>0 DEF HInv, RequestComplete, SetPending, SetPcs
<1>4. /\ item'[p].key = key[w] /\ item'[p].val = val[w]
      /\ item'[p].state = {"WRITING_VAL"}
      /\ \A q \in Slot \ {p} : item'[q] = item[q]
  <2>1. item' = [item EXCEPT ![p].key = key[w], ![p].val = val[w],
                   ![p].state = (@ \cup {"WRITING_VAL"}) \ {"WRITING_KEY"}]
    BY DEF WriteKey
  <2>2. QED
    BY <1>1, <1>2, <2>1 DEF IInv, TypeOK, Item
<1>5. \A u \in Threads \ {w} : pc[u] \in WritePcs \cup FlushingPcs => it[u] # p
  BY <1>0, <1>1, <1>2 DEF IInv, OneWriterPerItem, WritePcs, BitsHeld
<1> HIDE DEF p
<1>6. /\ pc'[w] = "write_val"
      /\ \A u \in Threads \ {w} : pc'[u] = pc[u]
  BY <1>0 DEF IInv, TypeOK
<1>7. /\ HTypeOK' /\ \A q \in Slot : Between(q)' <=> Between(q)
  BY <1>0, HTypesStay DEF Between, IsBetween
<1>8. ItemsInPhase'
  BY <1>3, <1>4, <1>7 DEF HInv, ItemsInPhase, InPhase, PhaseBits
<1>9. RequestComplete'
  <2>1. \A u \in Workers : SetPending(u)' => key'[u] \in Keys /\ val'[u] \in Values
    BY <1>0, <1>3, <1>6 DEF HInv, RequestComplete, SetPending, Threads
  <2>2. ASSUME NEW u \in Workers, pc'[u] = "write_val", u # w
        PROVE  item'[it'[u]].key = key'[u] /\ item'[it'[u]].val = val'[u]
    <3>1. u \in Threads /\ pc[u] = "write_val"
      BY <1>6, <2>2 DEF Threads
    <3>2. pc[u] \in WritePcs
      BY <3>1 DEF WritePcs
    <3>3. it[u] \in Slot \ {p}
      BY <1>5, <2>2, <3>1, <3>2 DEF IInv, TypeOK, PointersFollowPc
    <3>4. QED
      BY <1>0, <1>4, <3>1, <3>3 DEF HInv, RequestComplete
  <2>3. item'[it'[w]].key = key'[w] /\ item'[it'[w]].val = val'[w]
    BY <1>0, <1>4 DEF p
  <2>4. QED
    BY <2>1, <2>2, <2>3 DEF RequestComplete
<1>10. FlushersStore'
  <2>1. ASSUME NEW u \in Threads, pc'[u] = "consume"
        PROVE  store'[item'[it'[u]].key] # Absent /\ "stored" \in fate'[it'[u]]
    <3>1. u # w /\ pc[u] = "consume"
      BY <1>6, <2>1
    <3>2. pc[u] \in FlushingPcs
      BY <3>1 DEF FlushingPcs
    <3>3. it[u] \in Slot \ {p}
      BY <1>5, <3>1, <3>2 DEF IInv, TypeOK, PointersFollowPc
    <3>4. QED
      BY <1>0, <1>4, <3>1, <3>3 DEF HInv, FlushersStore
  <2>2. QED
    BY <1>0, <1>6, <2>1 DEF HInv, FlushersStore
<1>11. ConsumedHaveFate'
  BY <1>0, <1>4, <1>7 DEF HInv, ConsumedHaveFate
<1>12. KeyIsKept'
  <2>1. ASSUME NEW k \in Keys, Readable(k)
        PROVE  Readable(k)'
    BY <1>2, <1>4, <1>7, <2>1 DEF Readable, Matches, IsEmptyState, KeyPending
  <2>2. ASSUME NEW k \in Keys, k = key[w]
        PROVE  Readable(k)'
    BY <1>1, <2>2, <1>4, <1>7 DEF Readable, Matches, IsEmptyState, KeyPending
  <2>3. ASSUME NEW k \in Keys, k # key[w], NEW u \in Workers, Owes(u, k)
        PROVE  Owes(u, k)'
    BY <1>0, <1>6, <2>3 DEF Owes, Threads
  <2>4. ASSUME NEW k \in Keys, k # key[w], NEW u \in Workers, Gave(u, k)'
        PROVE  Gave(u, k)
    BY <1>0, <1>6, <2>4 DEF Gave, Threads
  <2>5. ASSUME NEW k \in Keys,
               k \in known' \/ \E u \in Workers : Gave(u, k)'
        PROVE  Readable(k)' \/ store'[k] # Absent \/ \E u \in Workers : Owes(u, k)'
    <3>1. CASE k = key[w]
      BY <2>2, <3>1
    <3>2. CASE k # key[w]
      <4>1. k \in known \/ \E u \in Workers : Gave(u, k)
        BY <1>0, <2>4, <2>5, <3>2
      <4>2. Readable(k) \/ store[k] # Absent \/ \E u \in Workers : Owes(u, k)
        BY <4>1 DEF HInv, KeyIsKept
      <4>3. QED
        BY <1>0, <2>1, <2>3, <3>2, <4>2
    <3>3. QED
      BY <3>1, <3>2
  <2>6. QED
    BY <2>5 DEF KeyIsKept
<1>13. QED
  BY <1>7, <1>8, <1>9, <1>10, <1>11, <1>12 DEF HInv
-----------------------------------------------------------------------------
(* The steps together. *)

LEMMA HInitHInv == HInit => HInv
<1> SUFFICES ASSUME HInit PROVE HInv
  OBVIOUS
<1>1. /\ pc = [t \in Threads |-> IF t = Maint THEN "claim" ELSE "idle"]
      /\ known = {} /\ head = tail
  BY DEF HInit, Init
<1>2. \A p \in Slot : ~Between(p)
  BY <1>1, SlotsAssumption DEF Between, IsBetween, Slot, HInit, Init
<1>3. HTypeOK
  BY DEF HInit, HTypeOK
<1>4. /\ \A w \in Workers : pc[w] = "idle"
      /\ \A t \in Threads : pc[t] \in {"claim", "idle"}
  BY <1>1, ThreadsAssumption DEF Threads
<1>5. ItemsInPhase /\ ConsumedHaveFate
  BY <1>2 DEF ItemsInPhase, ConsumedHaveFate
<1>6. RequestComplete /\ FlushersStore
  BY <1>4 DEF RequestComplete, FlushersStore, SetPending, SetPcs, FlushPcs
<1>7. KeyIsKept
  BY <1>1, <1>4 DEF KeyIsKept, Gave
<1>8. QED
  BY <1>3, <1>5, <1>6, <1>7 DEF HInv

LEMMA HStutterStep == HInv /\ UNCHANGED allvars => HInv'
<1> SUFFICES ASSUME HInv, UNCHANGED allvars PROVE HInv'
  OBVIOUS
<1> USE DEF HInv, allvars, vars, hvars
<1>1. HTypeOK'
  BY DEF HTypeOK
<1>2. ItemsInPhase' /\ ConsumedHaveFate'
  BY DEF ItemsInPhase, ConsumedHaveFate, Between, IsBetween
<1>3. RequestComplete' /\ FlushersStore'
  BY DEF RequestComplete, FlushersStore, SetPending
<1>4. KeyIsKept'
  BY DEF KeyIsKept, Gave, Owes, Readable, Between, IsBetween, Matches,
     IsEmptyState, KeyPending
<1>5. QED
  BY <1>1, <1>2, <1>3, <1>4

LEMMA HNextHInv == IInv /\ HInv /\ [HNext]_allvars => HInv'
<1> SUFFICES ASSUME IInv, HInv, [HNext]_allvars PROVE HInv'
  OBVIOUS
<1>1. ASSUME NEW w \in Workers,
             \/ HAnswerSet(w) \/ HAnswerGet(w) \/ HAllocate(w) \/ HMarkOld(w)
             \/ \E k \in Keys : HBeginGet(w, k)
      PROVE  HInv'
  BY <1>1, HAnswerSetStep, HAnswerGetStep, HAllocateStep, HMarkOldStep,
     HBeginGetStep
<1>2. ASSUME NEW t \in Threads, HStore(t)
      PROVE  HInv'
  BY <1>2, HStoreStep
<1>3. ASSUME HOther
      PROVE  HInv'
  <2>0. UNCHANGED hvars
    BY <1>3 DEF HOther
  <2>1. ASSUME NEW w \in Workers, NEW k \in Keys, NEW v \in Values, BeginSet(w, k, v)
        PROVE  HInv'
    BY <2>0, <2>1, HBeginSetStep
  <2>2. ASSUME NEW w \in Workers,
               \/ SetFind(w) \/ SetUnread(w) \/ SetInvalidate(w)
               \/ AllocateFails(w) \/ WriteKey(w)
               \/ GetFind(w) \/ GetCopy(w) \/ GetUnread(w) \/ GetInvalidate(w)
               \/ GetStore(w)
        PROVE  HInv'
    BY <2>0, <2>2, HFindStep, HUnreadStep, HInvalidateStep, HAllocateFailsStep,
       HWriteKeyStep, HGetCopyStep, HGetStoreStep
  <2>3. ASSUME NEW t \in Threads,
               \/ ClaimLockBusy(t) \/ ClaimNothing(t) \/ ClaimTooEarly(t)
               \/ Claim(t) \/ ClaimInvalidate(t) \/ CheckBetween(t)
               \/ CheckTail(t) \/ FlushCopy(t) \/ FlushUnread(t) \/ Consume(t)
               \/ FlushInvalidate(t)
        PROVE  HInv'
    BY <2>0, <2>3, HClaimMissesStep, HClaimStep, HInvalidateStep, HCheckStep,
       HFlushCopyStep, HFlushUnreadStep, HConsumeStep
  <2>4. QED
    BY <1>3, <2>1, <2>2, <2>3 DEF HOther
<1>4. CASE UNCHANGED allvars
  BY <1>4, HStutterStep
<1>5. QED
  BY <1>1, <1>2, <1>3, <1>4 DEF HNext, Running

\* The history variables restrain no thread.
LEMMA HistoryOnly == [HNext]_allvars => [Next]_vars
<1>1. ASSUME NEW w \in Workers,
             \/ HAnswerSet(w) \/ HAnswerGet(w) \/ HAllocate(w) \/ HMarkOld(w)
             \/ \E k \in Keys : HBeginGet(w, k)
      PROVE  Request(w) \/ SetStep(w) \/ GetStep(w)
  BY <1>1 DEF HAnswerSet, HAnswerGet, HAllocate, HMarkOld, HBeginGet, Request,
     SetStep, GetStep
<1>2. ASSUME NEW t \in Threads, HStore(t)
      PROVE  FlushStep(t)
  BY <1>2 DEF HStore, FlushStep
<1>3. HOther => \/ \E w \in Workers : Request(w) \/ SetStep(w) \/ GetStep(w)
                \/ \E t \in Threads : FlushStep(t) \/ ClaimLockBusy(t)
  BY DEF HOther, Request, SetStep, GetStep, FlushStep
<1>4. QED
  BY <1>1, <1>2, <1>3 DEF HNext, Next, Running, allvars

THEOREM HistoryInvariance == HSpec => [](IInv /\ HInv)
<1>1. HInit => IInv /\ HInv
  BY InitIInv, HInitHInv DEF HInit
<1>2. IInv /\ HInv /\ [HNext]_allvars => IInv' /\ HInv'
  BY NextIInv, HistoryOnly, HNextHInv
<1>3. HSpec => HInit /\ [][HNext]_allvars
  BY DEF HSpec, allvars
<1>4. QED
  BY <1>1, <1>2, <1>3, PTL
\* A key whose SET was answered is in the log or in the store while no SET of
\* it is under way, for any number of workers, keys and slots.
THEOREM AnsweredKeysStay == HSpec => []AnsweredKeyIsKept
<1>1. HInv => AnsweredKeyIsKept
  <2> SUFFICES ASSUME HInv, NEW k \in known, ~SetInFlight(k)
               PROVE  Readable(k) \/ store[k] # Absent
    BY DEF AnsweredKeyIsKept
  <2>1. k \in Keys
    BY DEF HInv, HTypeOK
  <2>2. \A w \in Workers : ~Owes(w, k)
    BY DEF SetInFlight, Owes
  <2>3. QED
    BY <2>1, <2>2 DEF HInv, KeyIsKept
<1>2. QED
  BY <1>1, HistoryInvariance, PTL

\* Only NVDIMM_invalidate takes items out of the log.
LEMMA LogOnlyGrows ==
    ASSUME IInv, NEW q \in Slot, Between(q), ~Between(q)', [HNext]_allvars
    PROVE  IsEvictable(q)
<1>1. ASSUME UNCHANGED <<head, tail>>
      PROVE  FALSE
  BY <1>1 DEF Between, IsBetween
<1>2. ASSUME NEW w \in Workers, Allocate(w)
      PROVE  FALSE
  BY <1>2, AllocateAppends
<1>3. ASSUME NEW t \in Threads, NEW l, Invalidate(t, l)
      PROVE  IsEvictable(q)
  BY <1>3, InvalidateKeeps
<1>4. ASSUME NEW w \in Workers
      PROVE  /\ HAnswerSet(w) => UNCHANGED <<head, tail>>
             /\ HAnswerGet(w) => UNCHANGED <<head, tail>>
             /\ HAllocate(w) => Allocate(w)
             /\ HMarkOld(w) => UNCHANGED <<head, tail>>
             /\ \A k \in Keys : HBeginGet(w, k) => UNCHANGED <<head, tail>>
  BY DEF HAnswerSet, WriteVal, HAnswerGet, GetReply, HAllocate, HMarkOld,
     SetMarkOld, HBeginGet, BeginGet, log
<1>5. ASSUME NEW w \in Workers
      PROVE  /\ \A k \in Keys, v \in Values :
                   BeginSet(w, k, v) => UNCHANGED <<head, tail>>
             /\ SetFind(w) => UNCHANGED <<head, tail>>
             /\ SetUnread(w) => UNCHANGED <<head, tail>>
             /\ AllocateFails(w) => UNCHANGED <<head, tail>>
             /\ WriteKey(w) => UNCHANGED <<head, tail>>
             /\ GetFind(w) => UNCHANGED <<head, tail>>
             /\ GetCopy(w) => UNCHANGED <<head, tail>>
             /\ GetUnread(w) => UNCHANGED <<head, tail>>
             /\ GetStore(w) => UNCHANGED <<head, tail>>
             /\ SetInvalidate(w) => Invalidate(w, "alloc")
             /\ GetInvalidate(w) => Invalidate(w, "get_reply")
  BY DEF BeginSet, SetFind, SetUnread, AllocateFails, WriteKey, GetFind,
     GetCopy, Copy, GetUnread, GetStore, SetInvalidate, GetInvalidate, log
<1>6. ASSUME NEW t \in Threads
      PROVE  /\ HStore(t) => UNCHANGED <<head, tail>>
             /\ ClaimLockBusy(t) => UNCHANGED <<head, tail>>
             /\ ClaimNothing(t) => UNCHANGED <<head, tail>>
             /\ ClaimTooEarly(t) => UNCHANGED <<head, tail>>
             /\ Claim(t) => UNCHANGED <<head, tail>>
             /\ CheckBetween(t) => UNCHANGED <<head, tail>>
             /\ CheckTail(t) => UNCHANGED <<head, tail>>
             /\ FlushCopy(t) => UNCHANGED <<head, tail>>
             /\ FlushUnread(t) => UNCHANGED <<head, tail>>
             /\ Consume(t) => UNCHANGED <<head, tail>>
             /\ ClaimInvalidate(t) => Invalidate(t, AfterWriteOut(t))
             /\ FlushInvalidate(t) => Invalidate(t, AfterWriteOut(t))
  BY DEF HStore, FlushStore, ClaimLockBusy, ClaimNothing, ClaimTooEarly, Claim,
     CheckBetween, CheckTail, FlushCopy, Copy, FlushUnread, Consume,
     ClaimInvalidate, FlushInvalidate, log
<1>7. UNCHANGED allvars => UNCHANGED <<head, tail>>
  BY DEF allvars, vars
<1>8. Workers \subseteq Threads
  BY DEF Threads
<1>9. CASE UNCHANGED allvars
  BY <1>1, <1>7, <1>9
<1>10. CASE HOther
  BY <1>1, <1>3, <1>5, <1>6, <1>8, <1>10 DEF HOther
<1>11. ASSUME NEW w \in Workers,
              \/ HAnswerSet(w) \/ HAnswerGet(w) \/ HAllocate(w) \/ HMarkOld(w)
              \/ \E k \in Keys : HBeginGet(w, k)
       PROVE  FALSE
  BY <1>1, <1>2, <1>4, <1>11
<1>12. ASSUME NEW t \in Threads, HStore(t)
       PROVE  FALSE
  BY <1>1, <1>6, <1>12
<1>13. QED
  BY <1>9, <1>10, <1>11, <1>12 DEF HNext, Running

\* No item leaves the log before its value was given to database_set or a later
\* SET of its key took its place.
THEOREM NothingLeavesUnsaved == HSpec => NothingDropped
<1>1. ASSUME IInv, HInv, [HNext]_allvars
      PROVE  [\A p \in Slot : Between(p) /\ ~IsBetween(p, head', tail')
                 => fate[p] # {}]_allvars
  <2>1. ASSUME NEW p \in Slot, Between(p), ~IsBetween(p, head', tail')
        PROVE  fate[p] # {}
    <3>1. ~Between(p)'
      BY <2>1 DEF Between
    <3>2. IsEvictable(p)
      BY <1>1, <2>1, <3>1, LogOnlyGrows
    <3>3. InPhase(item[p])
      BY <1>1, <2>1 DEF HInv, ItemsInPhase
    <3>4. "CONSUMED" \in item[p].state
      BY <3>2, <3>3 DEF IsEvictable, InPhase
    <3>5. QED
      BY <1>1, <2>1, <3>4 DEF HInv, ConsumedHaveFate
  <2>2. QED
    BY <2>1
<1>2. HSpec => [][HNext]_allvars
  BY DEF HSpec, allvars
<1>3. QED
  BY <1>1, <1>2, HistoryInvariance, PTL DEF NothingDropped, allvars
-----------------------------------------------------------------------------
(* A single worker.  Nothing becomes live except by WriteKey, and what is  *)
(* being written is nobody else's, for the only writer does nothing else.  *)

\* No item becomes live, and none that is being written changes.
NothingNew ==
    /\ \A q \in Slot : Between(q)' /\ "WRITING_VAL" \in item'[q].state
                        => Between(q) /\ item'[q].state = item[q].state
    /\ \A k \in Keys, q \in Slot :
          Live(q, k)' => Live(q, k) /\ item'[q].val = item[q].val

LEMMA ClientStep ==
    ASSUME IInv, HInv, ClientInv, NEW t \in Threads, NEW l,
           pc' = [pc EXCEPT ![t] = l], pc[t] # "write_val", l # "write_val",
           \A u \in Threads \ {t} :
               /\ it'[u] = it[u] /\ old'[u] = old[u]
               /\ key'[u] = key[u] /\ buf'[u] = buf[u],
           \A w \in Workers \ {t} : promised'[w] = promised[w],
           UNCHANGED <<known, newest>>,
           \A k \in Keys : store[k] # Absent => store'[k] # Absent,
           NothingNew,
           t = Maint => l \in FlushPcs,
           t \in Workers /\ l \in ClearedPcs =>
               /\ key'[t] = key[t]
               /\ pc[t] \in ClearedPcs
                    \/ \A q \in Slot : ~Live(q, key[t])',
           t \in Workers /\ l = "set_mark" =>
               \A q \in Slot : Live(q, key[t])' => q = old'[t],
           t \in Workers /\ promised'[t] # Absent => Promise(t)'
    PROVE  ClientInv'
<1> USE DEF ClientInv
<1>1. /\ pc'[t] = l /\ \A u \in Threads \ {t} : pc'[u] = pc[u]
      /\ Maint \in Threads /\ \A w \in Workers : w \in Threads
  BY DEF IInv, TypeOK, AllPcs, Threads
<1>2. \A q \in Slot : WriterOf(q)' = WriterOf(q)
  BY <1>1 DEF WriterOf
<1>3. MaintFlushes'
  BY <1>1 DEF MaintFlushes
<1>4. WrittenAlone'
  BY <1>2 DEF WrittenAlone, NothingNew
<1>5. ClearedFirst'
  <2>1. ASSUME NEW w \in Workers, NEW q \in Slot, Cleared(w)',
               Live(q, key[w])', key'[w] = key[w], Cleared(w)
        PROVE  FALSE
    <3>1. key[w] \in Keys
      BY <2>1 DEF HInv, RequestComplete, SetPending, Cleared, ClearedPcs,
         SetPcs
    <3>2. QED
      BY <2>1, <3>1 DEF ClearedFirst, NothingNew
  <2>2. ASSUME NEW w \in Workers, Cleared(w)'
        PROVE  /\ key'[w] = key[w]
               /\ Cleared(w) \/ \A q \in Slot : ~Live(q, key[w])'
    BY <1>1, <2>2 DEF Cleared
  <2>3. QED
    BY <2>1, <2>2 DEF ClearedFirst
<1>6. OneLive'
  BY DEF OneLive, NothingNew
<1>7. LiveIsNewest'
  BY <1>2 DEF LiveIsNewest, NothingNew
<1>8. KnownHasNewest'
  BY DEF KnownHasNewest
<1>9. PromiseKept'
  <2>1. ASSUME NEW w \in Workers, w # t, promised'[w] # Absent
        PROVE  Promise(w)'
    <3>1. /\ pc'[w] = pc[w] /\ key'[w] = key[w] /\ buf'[w] = buf[w]
          /\ promised[w] # Absent /\ known' = known
      BY <1>1, <2>1
    <3>2. pc[w] = "get_store" => key[w] \in Keys
      BY <3>1 DEF PromiseKept, Promise, HInv, HTypeOK
    <3>3. QED
      BY <3>1, <3>2 DEF PromiseKept, Promise
  <2>2. QED
    BY <2>1 DEF PromiseKept
<1>10. MarksLast'
  <2>1. ASSUME NEW w \in Workers, w # t, pc[w] = "set_mark", NEW q \in Slot,
               Live(q, key[w])'
        PROVE  q = old[w]
    <3>1. key[w] \in Keys /\ key'[w] = key[w]
      BY <1>1, <2>1 DEF HInv, RequestComplete, SetPending, SetPcs
    <3>2. QED
      BY <2>1, <3>1 DEF MarksLast, NothingNew
  <2>2. QED
    BY <1>1, <2>1 DEF MarksLast
<1>11. QED
  BY <1>3, <1>4, <1>5, <1>6, <1>7, <1>8, <1>9, <1>10
LEMMA ItemsStayOld ==
    ASSUME UNCHANGED item, \A q \in Slot : Between(q)' => Between(q)
    PROVE  NothingNew
BY DEF NothingNew, Live, Matches, IsEmptyState, KeyPending

\* Bits of one item change that nobody writes, and it does not become live.
LEMMA BitsStayOld ==
    ASSUME IInv, UNCHANGED <<head, tail>>, NEW p \in Slot, NEW i,
           item' = [item EXCEPT ![p] = i],
           i.key = item[p].key, i.val = item[p].val,
           "WRITING_KEY" \notin item[p].state, item[p].state # {},
           "WRITING_VAL" \notin i.state,
           "CONSUMED" \in item[p].state => "CONSUMED" \in i.state
    PROVE  NothingNew
<1>1. /\ item'[p] = i
      /\ \A q \in Slot \ {p} : item'[q] = item[q]
      /\ \A q \in Slot : Between(q)' <=> Between(q)
  BY DEF IInv, TypeOK, Between, IsBetween
<1>2. ASSUME NEW k \in Keys, NEW q \in Slot, Live(q, k)'
      PROVE  Live(q, k) /\ item'[q].val = item[q].val
  <2>1. CASE q = p
    BY <1>1, <1>2, <2>1 DEF Live, Matches, IsEmptyState, KeyPending
  <2>2. CASE q # p
    BY <1>1, <1>2, <2>2 DEF Live, Matches, IsEmptyState, KeyPending
  <2>3. QED
    BY <2>1, <2>2
<1>3. QED
  BY <1>1, <1>2 DEF NothingNew

\* A flusher moves on: a worker that flushes stays cleared.
LEMMA FlushMove ==
    ASSUME IInv, HInv, ClientInv, NEW t \in Threads, NEW l, NothingNew,
           UNCHANGED <<key, old, known, newest, promised>>,
           pc' = [pc EXCEPT ![t] = l],
           pc[t] \in FlushPcs, l \in FlushPcs \/ l = AfterWriteOut(t),
           \A u \in Threads \ {t} : it'[u] = it[u] /\ buf'[u] = buf[u],
           \A k \in Keys : store[k] # Absent => store'[k] # Absent
    PROVE  ClientInv'
<1>1. /\ pc[t] # "write_val" /\ pc[t] \in ClearedPcs
      /\ l \notin {"write_val", "set_mark"} /\ l \notin GetPcs
  BY DEF FlushPcs, ClearedPcs, AfterWriteOut, GetPcs
<1>2. t = Maint => l \in FlushPcs
  BY DEF FlushPcs, AfterWriteOut
<1>3. pc'[t] = l
  BY DEF IInv, TypeOK
<1>4. Promise(t)'
  BY <1>1, <1>3 DEF Promise, GetPcs
<1>5. QED
  BY <1>1, <1>2, <1>4, ClientStep

LEMMA CFlushStep ==
    ASSUME IInv, HInv, ClientInv, NEW t \in Threads, UNCHANGED hvars,
           \/ ClaimLockBusy(t) \/ ClaimNothing(t) \/ ClaimTooEarly(t)
           \/ CheckBetween(t) \/ CheckTail(t) \/ FlushCopy(t)
    PROVE  ClientInv'
<1>1. PICK l \in FlushPcs \cup {AfterWriteOut(t)} : Goto(t, l)
  BY DEF ClaimLockBusy, ClaimNothing, ClaimTooEarly, CheckBetween, CheckTail,
     FlushCopy, Copy, FlushPcs
<1>2. /\ pc[t] \in FlushPcs
      /\ UNCHANGED <<head, tail, item, store, it, key, old>>
      /\ \A u \in Threads \ {t} : buf'[u] = buf[u]
  BY DEF ClaimLockBusy, ClaimNothing, ClaimTooEarly, CheckBetween, CheckTail,
     FlushCopy, Copy, FlushPcs, log, IInv, TypeOK
<1>3. NothingNew
  BY <1>2, ItemsStayOld, RingStays
<1>4. QED
  BY <1>1, <1>2, <1>3, FlushMove DEF Goto, hvars

LEMMA CInvalidateStep ==
    ASSUME IInv, HInv, ClientInv, UNCHANGED hvars,
           \/ \E w \in Workers : SetInvalidate(w) \/ GetInvalidate(w)
           \/ \E t \in Threads : ClaimInvalidate(t) \/ FlushInvalidate(t)
    PROVE  ClientInv'
<1>1. ASSUME NEW t \in Threads, NEW l, Invalidate(t, l)
      PROVE  NothingNew /\ UNCHANGED store /\ pc' = [pc EXCEPT ![t] = l]
  <2>1. UNCHANGED item
    BY <1>1 DEF Invalidate
  <2>2. QED
    BY <1>1, <2>1, InvalidateKeeps, ItemsStayOld DEF Invalidate, Goto
<1>2. ASSUME NEW t \in Threads, ClaimInvalidate(t) \/ FlushInvalidate(t)
      PROVE  ClientInv'
  BY <1>1, <1>2, FlushMove
  DEF ClaimInvalidate, FlushInvalidate, FlushPcs, hvars
<1>3. ASSUME NEW w \in Workers, SetInvalidate(w)
      PROVE  ClientInv'
  <2>1. /\ w \in Threads /\ w # Maint /\ pc[w] = "set_inval"
        /\ pc' = [pc EXCEPT ![w] = "alloc"] /\ NothingNew
        /\ UNCHANGED <<key, it, old, buf, store, known, newest, promised>>
    BY <1>1, <1>3, ThreadsAssumption DEF SetInvalidate, Threads, hvars
  <2>2. Promise(w)'
    BY <2>1 DEF Promise, IInv, TypeOK
  <2>3. QED
    BY <2>1, <2>2, ClientStep DEF ClearedPcs
<1>4. ASSUME NEW w \in Workers, GetInvalidate(w)
      PROVE  ClientInv'
  <2>1. /\ w \in Threads /\ w # Maint /\ pc[w] = "get_inval"
        /\ pc' = [pc EXCEPT ![w] = "get_reply"] /\ NothingNew
        /\ UNCHANGED <<key, it, old, buf, store, known, newest, promised>>
    BY <1>1, <1>4, ThreadsAssumption DEF GetInvalidate, Threads, hvars
  <2>2. promised[w] # Absent => Promise(w)'
    BY <2>1 DEF Promise, IInv, TypeOK, ClientInv, PromiseKept
  <2>3. QED
    BY <2>1, <2>2, ClientStep DEF ClearedPcs, FlushPcs
<1>5. QED
  BY <1>2, <1>3, <1>4
\* Nobody is writing the item another thread has claimed.
LEMMA ClaimedNotWritten ==
    ASSUME IInv, HInv, ClientInv, NEW t \in Threads, pc[t] \in FlushingPcs
    PROVE  "WRITING_VAL" \notin item[it[t]].state
<1>1. it[t] \in Slot /\ Between(it[t]) /\ "WRITING_TO_SSD" \in item[it[t]].state
  BY FlushedHasKey DEF IInv, BitsHeld
<1>2. QED
  BY <1>1 DEF ClientInv, WrittenAlone

\* Nobody is writing when the only worker does something else.
LEMMA NobodyWrites ==
    ASSUME OneWorker, ClientInv, NEW w \in Workers, pc[w] # "write_val"
    PROVE  /\ \A q \in Slot : WriterOf(q) = {}
           /\ \A q \in Slot : Between(q) => "WRITING_VAL" \notin item[q].state
BY DEF OneWorker, ClientInv, WrittenAlone, WriterOf

LEMMA CClaimStep ==
    ASSUME IInv, HInv, ClientInv, UNCHANGED hvars, NEW t \in Threads, Claim(t)
    PROVE  ClientInv'
<1> DEFINE p == next
           i == Claimed(item[p])
<1>0. /\ pc[t] = "claim" /\ p \in Slot /\ Between(p)
      /\ UNCHANGED <<head, tail, store, key, old, buf>>
      /\ pc' = [pc EXCEPT ![t] = "check_between"]
      /\ \A u \in Threads \ {t} : it'[u] = it[u]
      /\ item' = [item EXCEPT ![p] = i]
      /\ ~IsEmptyState(p) /\ ~BeingWritten(p) /\ item[p] \in Item
      /\ InPhase(item[p])
  BY DEF Claim, Goto, log, IInv, TypeOK, HInv, ItemsInPhase
<1>1. /\ i.key = item[p].key /\ i.val = item[p].val
      /\ i.state = ((item[p].state \cup {"WRITING_TO_SSD"}) \ {"WAITING"})
                       \cup {"READING"}
  BY <1>0, ClaimedType
<1>2. /\ "WRITING_KEY" \notin item[p].state /\ "CONSUMED" \notin item[p].state
      /\ "WRITING_VAL" \notin item[p].state /\ item[p].state # {}
  BY <1>0
  DEF InPhase, BeingWritten, IsEmptyState, ClientInv, WrittenAlone
<1>3. "WRITING_VAL" \notin i.state
  BY <1>1, <1>2
<1> HIDE DEF p, i
<1>4. NothingNew
  BY <1>0, <1>1, <1>2, <1>3, BitsStayOld
<1>5. QED
  BY <1>0, <1>4, FlushMove DEF FlushPcs, hvars

LEMMA CFlushUnreadStep ==
    ASSUME IInv, HInv, ClientInv, UNCHANGED hvars, NEW t \in Threads,
           FlushUnread(t)
    PROVE  ClientInv'
<1> DEFINE p == it[t]
           i == RemoveReader(item[p])
<1>0. /\ pc[t] = "flush_unread"
      /\ UNCHANGED <<head, tail, store, key, it, old, buf>>
      /\ pc' = [pc EXCEPT ![t] = "flush_store"]
      /\ item' = [item EXCEPT ![p] = i]
  BY DEF FlushUnread, Goto, log
<1>1. pc[t] \in FlushingPcs
  BY <1>0 DEF FlushingPcs, FlushReadPcs
<1>2. /\ p \in Slot /\ Between(p) /\ "WRITING_VAL" \notin item[p].state
      /\ "WRITING_KEY" \notin item[p].state
      /\ item[p] \in Item /\ InPhase(item[p])
  BY <1>1, FlushedHasKey, ClaimedNotWritten DEF HInv, ItemsInPhase, IInv, TypeOK
<1>3. /\ i.key = item[p].key /\ i.val = item[p].val
      /\ "WRITING_VAL" \notin i.state /\ item[p].state # {}
      /\ "CONSUMED" \in i.state <=> "CONSUMED" \in item[p].state
  BY <1>2, UnreadKeepsPhase DEF PhaseBits, InPhase
<1> HIDE DEF p, i
<1>4. NothingNew
  BY <1>0, <1>2, <1>3, BitsStayOld
<1>5. QED
  BY <1>0, <1>4, FlushMove DEF FlushPcs, hvars

LEMMA CConsumeStep ==
    ASSUME IInv, HInv, ClientInv, UNCHANGED hvars, NEW t \in Threads, Consume(t)
    PROVE  ClientInv'
<1> DEFINE p == it[t]
           i == [item[p] EXCEPT !.state = (@ \cup {"CONSUMED"}) \ {"WRITING_TO_SSD"}]
<1>0. /\ pc[t] = "consume"
      /\ UNCHANGED <<head, tail, store, key, old, buf>>
      /\ pc' = [pc EXCEPT ![t] = "flush_inval"]
      /\ \A u \in Threads \ {t} : it'[u] = it[u]
      /\ item' = [item EXCEPT ![p] = i]
  BY DEF Consume, ChangeAndRemove, Goto, log, IInv, TypeOK
<1>1. pc[t] \in FlushingPcs
  BY <1>0 DEF FlushingPcs
<1>2. /\ p \in Slot /\ Between(p) /\ "WRITING_VAL" \notin item[p].state
      /\ "WRITING_KEY" \notin item[p].state
      /\ item[p] \in Item /\ InPhase(item[p])
  BY <1>1, FlushedHasKey, ClaimedNotWritten DEF HInv, ItemsInPhase, IInv, TypeOK
<1>3. /\ i.key = item[p].key /\ i.val = item[p].val
      /\ i.state = (item[p].state \cup {"CONSUMED"}) \ {"WRITING_TO_SSD"}
  BY <1>2 DEF Item
<1>4. "WRITING_VAL" \notin i.state /\ "CONSUMED" \in i.state /\ item[p].state # {}
  BY <1>2, <1>3 DEF InPhase
<1> HIDE DEF p, i
<1>5. NothingNew
  BY <1>0, <1>2, <1>3, <1>4, BitsStayOld
<1>6. QED
  BY <1>0, <1>5, FlushMove DEF FlushPcs, hvars

LEMMA CStoreStep ==
    ASSUME IInv, HInv, ClientInv, NEW t \in Threads, HStore(t)
    PROVE  ClientInv'
<1>1. /\ pc[t] = "flush_store" /\ buf[t] # Absent
      /\ UNCHANGED <<head, tail, item, it, key, old, known, newest, promised>>
      /\ pc' = [pc EXCEPT ![t] = "consume"]
      /\ store' = [store EXCEPT ![item[it[t]].key] = buf[t]]
      /\ \A u \in Threads \ {t} : buf'[u] = buf[u]
  BY DEF HStore, FlushStore, Goto, log, HInv, FlushersStore, IInv, TypeOK
<1>2. /\ NothingNew
      /\ \A k \in Keys : store[k] # Absent => store'[k] # Absent
  BY <1>1, ItemsStayOld, RingStays DEF IInv, TypeOK
<1>3. QED
  BY <1>1, <1>2, FlushMove DEF FlushPcs
\* A worker moves on and nothing becomes live.
LEMMA WorkerMove ==
    ASSUME IInv, HInv, ClientInv, NEW w \in Workers, NEW l,
           pc' = [pc EXCEPT ![w] = l], pc[w] # "write_val", l # "write_val",
           NothingNew, UNCHANGED <<known, newest, store>>,
           \A u \in Threads \ {w} :
               /\ it'[u] = it[u] /\ old'[u] = old[u]
               /\ key'[u] = key[u] /\ buf'[u] = buf[u],
           \A u \in Workers \ {w} : promised'[u] = promised[u],
           l \in ClearedPcs =>
               /\ key'[w] = key[w]
               /\ pc[w] \in ClearedPcs
                    \/ \A q \in Slot : ~Live(q, key[w])',
           l = "set_mark" => \A q \in Slot : Live(q, key[w])' => q = old'[w],
           promised'[w] # Absent => Promise(w)'
    PROVE  ClientInv'
BY ClientStep, ThreadsAssumption DEF Threads

LEMMA CBeginStep ==
    ASSUME IInv, HInv, ClientInv, NEW w \in Workers, NEW k \in Keys,
           \/ UNCHANGED hvars /\ \E v \in Values : BeginSet(w, k, v)
           \/ HBeginGet(w, k)
    PROVE  ClientInv'
<1>1. PICK l \in {"set_find", "get_find"} :
        /\ pc[w] = "idle" /\ pc' = [pc EXCEPT ![w] = l]
        /\ l = "set_find" => UNCHANGED promised
        /\ l = "get_find" => promised' = [promised EXCEPT ![w] = newest[k]]
  BY DEF BeginSet, HBeginGet, BeginGet, Goto, hvars
<1>2. /\ UNCHANGED <<head, tail, item, store, it, old, buf, known, newest>>
      /\ key' = [key EXCEPT ![w] = k]
  BY DEF BeginSet, HBeginGet, BeginGet, log, hvars
<1>3. /\ w \in Threads /\ pc'[w] = l /\ key'[w] = k
      /\ \A u \in Threads \ {w} : key'[u] = key[u]
      /\ \A u \in Workers \ {w} : promised'[u] = promised[u]
      /\ l = "get_find" => promised'[w] = newest[k]
  BY <1>1, <1>2 DEF Threads, IInv, TypeOK, HInv, HTypeOK
<1>4. promised'[w] # Absent => Promise(w)'
  BY <1>1, <1>2, <1>3 DEF Promise, ClientInv, KnownHasNewest
<1>5. NothingNew
  BY <1>2, ItemsStayOld, RingStays
<1>6. l \notin ClearedPcs
  BY <1>1 DEF ClearedPcs, FlushPcs
<1>7. QED
  BY <1>1, <1>2, <1>3, <1>4, <1>5, <1>6, WorkerMove

LEMMA CAnswerGetStep ==
    ASSUME IInv, HInv, ClientInv, NEW w \in Workers, HAnswerGet(w)
    PROVE  ClientInv'
<1>1. /\ pc[w] = "get_reply" /\ pc' = [pc EXCEPT ![w] = "idle"]
      /\ UNCHANGED <<head, tail, item, store, it, old, known, newest>>
      /\ key' = [key EXCEPT ![w] = NoKey]
      /\ buf' = [buf EXCEPT ![w] = Absent]
      /\ promised' = [promised EXCEPT ![w] = Absent]
  BY DEF HAnswerGet, GetReply, Goto, log
<1>2. /\ promised'[w] = Absent
      /\ \A u \in Threads \ {w} : key'[u] = key[u] /\ buf'[u] = buf[u]
      /\ \A u \in Workers \ {w} : promised'[u] = promised[u]
  BY <1>1 DEF IInv, TypeOK, HInv, HTypeOK
<1>3. NothingNew
  BY <1>1, ItemsStayOld, RingStays
<1>4. "idle" \notin ClearedPcs
  BY DEF ClearedPcs, FlushPcs
<1>5. QED
  BY <1>1, <1>2, <1>3, <1>4, WorkerMove

LEMMA CReadStep ==
    ASSUME IInv, HInv, ClientInv, UNCHANGED hvars, NEW w \in Workers,
           GetCopy(w) \/ GetStore(w)
    PROVE  ClientInv'
<1>1. PICK l \in {"get_unread", "get_reply"} : pc' = [pc EXCEPT ![w] = l]
  BY DEF GetCopy, Copy, GetStore, Goto
<1>2. /\ w \in Threads /\ pc[w] \in {"get_copy", "get_store"}
      /\ UNCHANGED <<head, tail, item, store, key, it, old, known, newest, promised>>
      /\ \A u \in Threads \ {w} : buf'[u] = buf[u]
  BY DEF GetCopy, Copy, GetStore, log, Threads, IInv, TypeOK, hvars
<1>3. ASSUME GetCopy(w)
      PROVE  buf'[w] # Absent
  <2>1. item[old[w]].val \in Values
    BY <1>3, FoundHasKey DEF GetCopy, OldPcs
  <2>2. \A v \in CopyOf(old[w]) : v # Absent
    BY <2>1, ValuesAssumption DEF CopyOf
  <2>3. QED
    BY <1>2, <1>3, <2>2 DEF GetCopy, Copy, IInv, TypeOK
<1>4. ASSUME GetStore(w), promised[w] # Absent
      PROVE  buf'[w] # Absent
  BY <1>2, <1>4 DEF GetStore, ClientInv, PromiseKept, Promise, IInv, TypeOK
<1>5. promised'[w] # Absent => Promise(w)'
  <2>1. pc'[w] = l
    BY <1>1, <1>2 DEF IInv, TypeOK
  <2>2. QED
    BY <1>1, <1>2, <1>3, <1>4, <2>1 DEF Promise
<1>6. NothingNew
  BY <1>2, ItemsStayOld, RingStays
<1>7. l \notin ClearedPcs
  BY <1>1 DEF ClearedPcs, FlushPcs
<1>8. QED
  BY <1>1, <1>2, <1>5, <1>6, <1>7, WorkerMove

LEMMA CAllocateFailsStep ==
    ASSUME IInv, HInv, ClientInv, UNCHANGED hvars, NEW w \in Workers,
           AllocateFails(w)
    PROVE  ClientInv'
<1>1. /\ w \in Threads /\ pc[w] = "alloc" /\ pc' = [pc EXCEPT ![w] = "claim"]
      /\ UNCHANGED <<head, tail, item, store, key, it, old, buf, known, newest, promised>>
  BY DEF AllocateFails, Goto, log, hvars, Threads
<1>2. NothingNew
  BY <1>1, ItemsStayOld, RingStays
<1>3. Promise(w)'
  BY <1>1 DEF Promise, IInv, TypeOK
<1>4. QED
  BY <1>1, <1>2, <1>3, WorkerMove DEF ClearedPcs

\* NVDIMM_find: a miss means that no item of the key is live, and that its
\* value, if it was answered, is in the store.
LEMMA CFindStep ==
    ASSUME OneWorker, IInv, HInv, ClientInv, UNCHANGED hvars, NEW w \in Workers,
           SetFind(w) \/ GetFind(w)
    PROVE  ClientInv'
<1>0. /\ w \in Threads /\ pc[w] \in {"set_find", "get_find"}
      /\ UNCHANGED <<head, tail, store, key, it, buf, known, newest, promised>>
      /\ \A u \in Threads \ {w} : old'[u] = old[u]
  BY DEF SetFind, GetFind, Find, Threads, log, hvars, IInv, TypeOK
<1>1. CASE \E p \in Slot : /\ FoundAt(key[w], p)
                          /\ item' = [item EXCEPT ![p] = AddReader(item[p])]
                          /\ old' = [old EXCEPT ![w] = p]
                          /\ \E l \in {"set_mark", "get_copy"} :
                               pc' = [pc EXCEPT ![w] = l]
  <2>1. PICK p \in Slot : /\ FoundAt(key[w], p)
                          /\ item' = [item EXCEPT ![p] = AddReader(item[p])]
                          /\ old' = [old EXCEPT ![w] = p]
    BY <1>1
  <2>2. PICK l \in {"set_mark", "get_copy"} : pc' = [pc EXCEPT ![w] = l]
    BY <1>1
  <2>3. /\ Between(p) /\ InPhase(item[p]) /\ item[p] \in Item
        /\ "WRITING_KEY" \notin item[p].state
        /\ "CONSUMED" \notin item[p].state
        /\ "WRITING_VAL" \notin item[p].state
    BY <1>0, <2>1, FoundInPhase, NobodyWrites
  <2>4. /\ AddReader(item[p]).key = item[p].key
        /\ AddReader(item[p]).val = item[p].val
        /\ AddReader(item[p]).state = item[p].state \cup {"READING"}
    BY <2>3, AddReaderType
  <2>5. "WRITING_VAL" \notin AddReader(item[p]).state /\ item[p].state # {}
    BY <2>3, <2>4 DEF InPhase
  <2>6. NothingNew
    BY <1>0, <2>1, <2>3, <2>4, <2>5, BitsStayOld
  <2>7. Promise(w)'
    BY <1>0, <2>2 DEF Promise, IInv, TypeOK
  <2>8. l \notin ClearedPcs
    BY <2>2 DEF ClearedPcs, FlushPcs
  <2>9. ASSUME l = "set_mark", NEW q \in Slot, Live(q, key[w])'
        PROVE  q = old'[w]
    <3>1. pc'[w] = "set_mark" /\ old'[w] = p
      BY <1>0, <2>1, <2>2, <2>9 DEF IInv, TypeOK
    <3>2. pc[w] = "set_find"
      BY <1>0, <1>1, <3>1 DEF IInv, TypeOK, SetFind, GetFind, Find, Goto
    <3>3. key[w] \in Keys
      BY <3>2 DEF HInv, RequestComplete, SetPending, SetPcs
    <3>4. Live(q, key[w]) /\ Live(p, key[w])
      BY <1>0, <2>1, <2>6, <2>9, <3>3 DEF NothingNew, FoundAt, Live
    <3>5. QED
      BY <3>1, <3>3, <3>4 DEF ClientInv, OneLive
  <2>10. QED
    BY <1>0, <2>2, <2>6, <2>7, <2>8, <2>9, WorkerMove
<1>2. ASSUME SetFind(w), NotFound(key[w]), item' = item,
             pc' = [pc EXCEPT ![w] = "alloc"]
      PROVE  ClientInv'
  <2>1. NothingNew
    BY <1>0, <1>2, ItemsStayOld, RingStays
  <2>2. \A q \in Slot : ~Live(q, key[w])'
    BY <1>0, <1>2
    DEF NotFound, Live, Matches, IsEmptyState, KeyPending, Between, IsBetween
  <2>3. Promise(w)'
    BY <1>0, <1>2 DEF Promise, IInv, TypeOK
  <2>4. QED
    BY <1>0, <1>2, <2>1, <2>2, <2>3, WorkerMove
<1>3. ASSUME GetFind(w), NotFound(key[w]), item' = item,
             pc' = [pc EXCEPT ![w] = "get_store"]
      PROVE  ClientInv'
  <2>1. NothingNew
    BY <1>0, <1>3, ItemsStayOld, RingStays
  <2>2. ASSUME promised[w] # Absent
        PROVE  key[w] \in known /\ store[key[w]] # Absent
    <3>1. pc[w] = "get_find" /\ key[w] \in known /\ key[w] \in Keys
      BY <1>3, <2>2 DEF GetFind, ClientInv, PromiseKept, Promise, HInv, HTypeOK
    <3>2. ~Readable(key[w])
      BY <1>3 DEF Readable, NotFound
    <3>3. \A u \in Workers : ~Owes(u, key[w])
      BY <3>1 DEF OneWorker, Owes, SetPcs, FlushPcs
    <3>4. QED
      BY <3>1, <3>2, <3>3 DEF HInv, KeyIsKept
  <2>3. promised'[w] # Absent => Promise(w)'
    BY <1>0, <1>3, <2>2 DEF Promise, IInv, TypeOK
  <2>4. QED
    BY <1>0, <1>3, <2>1, <2>3, WorkerMove DEF ClearedPcs, FlushPcs
<1>4. QED
  BY <1>1, <1>2, <1>3 DEF SetFind, GetFind, Find, Goto
\* Once the only live item of the key is marked, none is left.
LEMMA CMarkOldStep ==
    ASSUME OneWorker, IInv, HInv, ClientInv, NEW w \in Workers, HMarkOld(w)
    PROVE  ClientInv'
<1> DEFINE p == old[w]
           i == [item[p] EXCEPT !.state = (@ \cup {"CONSUMED"}) \ {"WAITING"}]
<1>0. /\ w \in Threads /\ pc[w] = "set_mark"
      /\ UNCHANGED <<head, tail, store, buf, it, old, key, known, newest, promised>>
      /\ pc' = [pc EXCEPT ![w] = "set_unread"]
      /\ item' = [item EXCEPT ![p] = i]
  BY DEF HMarkOld, SetMarkOld, ChangeAndRemove, Goto, log, Threads
<1>1. /\ p \in Slot /\ Between(p) /\ item[p].key = key[w] /\ key[w] \in Keys
      /\ "WRITING_KEY" \notin item[p].state /\ item[p] \in Item
      /\ InPhase(item[p])
  BY <1>0, FoundHasKey DEF OldPcs, IInv, TypeOK, HInv, ItemsInPhase
<1>2. "WRITING_VAL" \notin item[p].state
  BY <1>0, <1>1, NobodyWrites
<1>3. /\ i.key = item[p].key /\ i.val = item[p].val
      /\ i.state = (item[p].state \cup {"CONSUMED"}) \ {"WAITING"}
  BY <1>1 DEF Item
<1>4. "WRITING_VAL" \notin i.state /\ "CONSUMED" \in i.state /\ item[p].state # {}
  BY <1>1, <1>2, <1>3 DEF InPhase
<1>5. item'[p] = i
  BY <1>0, <1>1 DEF IInv, TypeOK
<1> HIDE DEF i
<1>6. NothingNew
  BY <1>0, <1>1, <1>2, <1>3, <1>4, BitsStayOld DEF p
<1>7. ASSUME NEW q \in Slot, Live(q, key[w])'
      PROVE  FALSE
  <2>1. Live(q, key[w])
    BY <1>0, <1>1, <1>6, <1>7 DEF NothingNew
  <2>2. q = p
    BY <1>0, <2>1 DEF ClientInv, MarksLast
  <2>3. QED
    BY <1>4, <1>5, <1>7, <2>2 DEF Live, Matches, IsEmptyState
<1>8. Promise(w)'
  BY <1>0 DEF Promise, IInv, TypeOK
<1>9. QED
  BY <1>0, <1>6, <1>7, <1>8, WorkerMove

LEMMA CUnreadStep ==
    ASSUME OneWorker, IInv, HInv, ClientInv, UNCHANGED hvars, NEW w \in Workers,
           SetUnread(w) \/ GetUnread(w)
    PROVE  ClientInv'
<1> DEFINE i == RemoveReader(item[old[w]])
<1>0. /\ w \in Threads /\ pc[w] \in {"set_unread", "get_unread"}
      /\ UNCHANGED <<head, tail, store, key, it, buf, known, newest, promised>>
      /\ item' = [item EXCEPT ![old[w]] = i]
      /\ \A u \in Threads \ {w} : old'[u] = old[u]
  BY DEF SetUnread, GetUnread, Threads, log, hvars, IInv, TypeOK
<1>1. PICK l \in {"set_inval", "get_inval"} :
        /\ pc' = [pc EXCEPT ![w] = l]
        /\ l = "set_inval" => pc[w] = "set_unread"
        /\ l = "get_inval" => pc[w] = "get_unread"
  BY DEF SetUnread, GetUnread, Goto
<1>2. /\ old[w] \in Slot /\ Between(old[w])
      /\ "WRITING_KEY" \notin item[old[w]].state
      /\ item[old[w]] \in Item /\ InPhase(item[old[w]])
  BY <1>0, FoundHasKey DEF HInv, ItemsInPhase, IInv, TypeOK, OldPcs
<1>3. "WRITING_VAL" \notin item[old[w]].state
  BY <1>0, <1>2, NobodyWrites
<1>4. /\ i.key = item[old[w]].key /\ i.val = item[old[w]].val
      /\ "WRITING_VAL" \notin i.state /\ item[old[w]].state # {}
      /\ "CONSUMED" \in i.state <=> "CONSUMED" \in item[old[w]].state
  BY <1>2, <1>3, UnreadKeepsPhase DEF PhaseBits, InPhase
<1> HIDE DEF i
<1>5. NothingNew
  BY <1>0, <1>2, <1>4, BitsStayOld
<1>6. promised'[w] # Absent => Promise(w)'
  BY <1>0, <1>1 DEF Promise, IInv, TypeOK, ClientInv, PromiseKept
<1>7. l \in ClearedPcs => pc[w] \in ClearedPcs
  BY <1>1 DEF ClearedPcs, FlushPcs
<1>8. QED
  BY <1>0, <1>1, <1>5, <1>6, <1>7, WorkerMove

\* The new item is not live before it has its key.
LEMMA CAllocateStep ==
    ASSUME IInv, HInv, ClientInv, NEW w \in Workers, HAllocate(w)
    PROVE  ClientInv'
<1> DEFINE p == tail
<1>0. /\ Allocate(w) /\ w \in Threads /\ pc[w] = "alloc"
      /\ pc' = [pc EXCEPT ![w] = "write_key"]
      /\ it' = [it EXCEPT ![w] = p]
      /\ UNCHANGED <<store, key, old, buf, known, newest, promised>>
  BY DEF HAllocate, Allocate, Goto, Threads
<1>1. /\ p \in Slot
      /\ \A q \in Slot : Between(q)' <=> Between(q) \/ q = p
  BY <1>0, AllocateAppends
<1>2. /\ item'[p].state = {"WRITING_KEY"}
      /\ \A q \in Slot \ {p} : item'[q] = item[q]
  BY <1>0, <1>1 DEF Allocate, IInv, TypeOK, Item
<1>3. \A u \in Threads \ {w} : it'[u] = it[u]
  BY <1>0 DEF IInv, TypeOK
<1> HIDE DEF p
<1>4. NothingNew
  BY <1>1, <1>2 DEF NothingNew, Live, Matches, IsEmptyState, KeyPending
<1>5. Promise(w)'
  BY <1>0 DEF Promise, IInv, TypeOK
<1>6. QED
  BY <1>0, <1>3, <1>4, <1>5, WorkerMove DEF ClearedPcs
\* The new item becomes the live one of its key: no other was left.
LEMMA CWriteKeyStep ==
    ASSUME OneWorker, IInv, HInv, ClientInv, UNCHANGED hvars,
           NEW w \in Workers, WriteKey(w)
    PROVE  ClientInv'
<1> DEFINE p == it[w]
<1>0. /\ w \in Threads /\ w # Maint
      /\ pc[w] = "write_key" /\ pc' = [pc EXCEPT ![w] = "write_val"]
      /\ UNCHANGED <<head, tail, store, key, it, old, buf, known, newest, promised>>
  BY ThreadsAssumption DEF WriteKey, Goto, log, hvars, Threads
<1>1. /\ p \in Slot /\ Between(p) /\ item[p].state = {"WRITING_KEY"}
      /\ key[w] \in Keys
  <2>1. p \in Slot /\ Between(p) /\ "WRITING_KEY" \in item[p].state
    BY <1>0
    DEF IInv, TypeOK, PointersFollowPc, WritePcs, HeldInLog, BitsHeld
  <2>2. QED
    BY <1>0, <2>1
    DEF HInv, ItemsInPhase, InPhase, RequestComplete, SetPending, SetPcs
<1>2. /\ item'[p].key = key[w] /\ item'[p].state = {"WRITING_VAL"}
      /\ \A q \in Slot \ {p} : item'[q] = item[q]
  <2>1. item' = [item EXCEPT ![p].key = key[w], ![p].val = val[w],
                   ![p].state = (@ \cup {"WRITING_VAL"}) \ {"WRITING_KEY"}]
    BY DEF WriteKey
  <2>2. item[p] \in Item
    BY <1>1 DEF IInv, TypeOK
  <2>3. QED
    BY <1>1, <2>1, <2>2 DEF IInv, TypeOK, Item
<1>3. /\ pc'[w] = "write_val"
      /\ \A u \in Threads \ {w} : pc'[u] = pc[u]
      /\ \A q \in Slot : Between(q)' <=> Between(q)
  BY <1>0 DEF IInv, TypeOK, Between, IsBetween
<1>4. \A q \in Slot : WriterOf(q) = {} /\ (Between(q) => "WRITING_VAL" \notin item[q].state)
  BY <1>0, NobodyWrites
<1>5. \A q \in Slot : q = p => w \in WriterOf(q)'
  BY <1>0, <1>3 DEF WriterOf
<1> HIDE DEF p
<1>6. ASSUME NEW k \in Keys, NEW q \in Slot
      PROVE  Live(q, k)' <=> IF q = p THEN k = key[w] ELSE Live(q, k)
  <2>1. CASE q = p
    BY <1>1, <1>2, <1>3, <2>1 DEF Live, Matches, IsEmptyState, KeyPending
  <2>2. CASE q # p
    BY <1>2, <1>3, <2>2 DEF Live, Matches, IsEmptyState, KeyPending
  <2>3. QED
    BY <2>1, <2>2
<1>7. \A q \in Slot : ~Live(q, key[w])
  BY <1>0 DEF ClientInv, ClearedFirst, Cleared, ClearedPcs
<1>8. MaintFlushes'
  BY <1>0, <1>3 DEF ClientInv, MaintFlushes, Threads
<1>9. WrittenAlone'
  <2>1. ASSUME NEW q \in Slot, Between(q)', "WRITING_VAL" \in item'[q].state
        PROVE  item'[q].state = {"WRITING_VAL"} /\ WriterOf(q)' # {}
    <3>1. q = p
      BY <1>2, <1>3, <1>4, <2>1
    <3>2. QED
      BY <1>2, <1>5, <3>1
  <2>2. QED
    BY <2>1 DEF WrittenAlone
<1>10. \A u \in Workers : pc'[u] = "write_val"
  BY <1>3 DEF OneWorker
<1>11. ClearedFirst' /\ MarksLast'
  BY <1>10 DEF ClearedFirst, MarksLast, Cleared, ClearedPcs, FlushPcs
<1>12. OneLive'
  BY <1>6, <1>7 DEF ClientInv, OneLive
<1>13. LiveIsNewest'
  <2>1. ASSUME NEW k \in Keys, NEW q \in Slot, Live(q, k)', WriterOf(q)' = {}
        PROVE  k \in known /\ item'[q].val = newest[k]
    <3>1. q # p
      BY <1>5, <2>1
    <3>2. Live(q, k) /\ WriterOf(q) = {} /\ item'[q] = item[q]
      BY <1>2, <1>4, <1>6, <2>1, <3>1
    <3>3. QED
      BY <3>2 DEF ClientInv, LiveIsNewest
  <2>2. QED
    BY <1>0, <2>1 DEF LiveIsNewest
<1>14. KnownHasNewest'
  BY <1>0 DEF ClientInv, KnownHasNewest
<1>15. PromiseKept'
  BY <1>10 DEF PromiseKept, Promise
<1>16. QED
  BY <1>8, <1>9, <1>11, <1>12, <1>13, <1>14, <1>15 DEF ClientInv

\* With the answer the value of the live item becomes the newest.
LEMMA CAnswerSetStep ==
    ASSUME OneWorker, IInv, HInv, ClientInv, NEW w \in Workers, HAnswerSet(w)
    PROVE  ClientInv'
<1> DEFINE p == it[w]
           i == [item[p] EXCEPT !.state = (@ \cup {"WAITING"}) \ {"WRITING_VAL"}]
<1>0. /\ w \in Threads /\ w # Maint /\ pc[w] = "write_val"
      /\ UNCHANGED <<head, tail, store, old, buf, promised>>
      /\ pc' = [pc EXCEPT ![w] = "idle"] /\ item' = [item EXCEPT ![p] = i]
      /\ known' = known \cup {key[w]}
      /\ newest' = [newest EXCEPT ![key[w]] = val[w]]
  BY ThreadsAssumption
  DEF HAnswerSet, WriteVal, ChangeAndRemove, Goto, log, Threads
<1>1. /\ key[w] \in Keys /\ item[p].key = key[w] /\ item[p].val = val[w]
  BY <1>0 DEF HInv, RequestComplete, SetPending, SetPcs
<1>2. /\ p \in Slot /\ Between(p) /\ "WRITING_VAL" \in item[p].state
      /\ item[p] \in Item
  BY <1>0
  DEF IInv, TypeOK, PointersFollowPc, WritePcs, HeldInLog, BitsHeld
<1>3. item[p].state = {"WRITING_VAL"}
  BY <1>2 DEF ClientInv, WrittenAlone
<1>4. /\ i.key = item[p].key /\ i.val = item[p].val /\ i.state = {"WAITING"}
  BY <1>2, <1>3 DEF Item
<1>5. /\ item'[p] = i /\ \A q \in Slot \ {p} : item'[q] = item[q]
      /\ \A q \in Slot : Between(q)' <=> Between(q)
  BY <1>0, <1>2 DEF IInv, TypeOK, Between, IsBetween
<1>6. \A q \in Slot \ {p} : WriterOf(q) = {}
  BY DEF WriterOf, OneWorker
<1>7. Live(p, key[w])
  BY <1>1, <1>2, <1>3 DEF Live, Matches, IsEmptyState, KeyPending
<1> HIDE DEF p, i
<1>8. ASSUME NEW k \in Keys, NEW q \in Slot
      PROVE  Live(q, k)' => Live(q, k) /\ item'[q].val = item[q].val
  <2>1. CASE q = p
    BY <1>2, <1>3, <1>4, <1>5, <2>1 DEF Live, Matches, IsEmptyState, KeyPending
  <2>2. CASE q # p
    BY <1>5, <2>2 DEF Live, Matches, IsEmptyState, KeyPending
  <2>3. QED
    BY <2>1, <2>2
<1>9. /\ pc'[w] = "idle" /\ \A u \in Threads \ {w} : pc'[u] = pc[u]
      /\ newest \in [Keys -> Values \cup {Absent}]
      /\ newest'[key[w]] = val[w]
      /\ \A k \in Keys \ {key[w]} : newest'[k] = newest[k]
  BY <1>0, <1>1 DEF IInv, TypeOK, HInv, HTypeOK
<1>10. \A u \in Workers : pc'[u] = "idle"
  BY <1>9 DEF OneWorker
<1>11. MaintFlushes'
  BY <1>0, <1>9 DEF ClientInv, MaintFlushes, Threads
<1>12. WrittenAlone'
  BY <1>4, <1>5, <1>6 DEF ClientInv, WrittenAlone
<1>13. ClearedFirst' /\ MarksLast' /\ PromiseKept'
  BY <1>10
  DEF ClearedFirst, MarksLast, Cleared, ClearedPcs, FlushPcs, PromiseKept, Promise
<1>14. OneLive'
  BY <1>8 DEF ClientInv, OneLive
<1>15. LiveIsNewest'
  <2>1. ASSUME NEW k \in Keys, NEW q \in Slot, Live(q, k)'
        PROVE  k \in known' /\ item'[q].val = newest'[k]
    <3>1. Live(q, k) /\ item'[q].val = item[q].val
      BY <1>8, <2>1
    <3>2. CASE k = key[w]
      <4>1. q = p
        BY <1>2, <1>7, <2>1, <3>1, <3>2 DEF ClientInv, OneLive
      <4>2. QED
        BY <1>0, <1>1, <1>9, <3>1, <3>2, <4>1 DEF p
    <3>3. CASE k # key[w]
      <4>1. q # p
        BY <1>1, <3>1, <3>3 DEF Live, Matches, p
      <4>2. WriterOf(q) = {}
        BY <1>6, <4>1
      <4>3. QED
        BY <1>0, <1>9, <3>1, <3>3, <4>2 DEF ClientInv, LiveIsNewest
    <3>4. QED
      BY <3>2, <3>3
  <2>2. QED
    BY <2>1 DEF LiveIsNewest
<1>16. KnownHasNewest'
  BY <1>0, <1>9 DEF ClientInv, KnownHasNewest
<1>17. QED
  BY <1>11, <1>12, <1>13, <1>14, <1>15, <1>16 DEF ClientInv

LEMMA HInitClientInv == HInit => ClientInv
<1> SUFFICES ASSUME HInit PROVE ClientInv
  OBVIOUS
<1>1. /\ pc = [t \in Threads |-> IF t = Maint THEN "claim" ELSE "idle"]
      /\ head = 0 /\ tail = 0
      /\ promised = [w \in Workers |-> Absent]
      /\ newest = [k \in Keys |-> Absent]
  BY DEF HInit, Init
<1>2. \A p \in Slot : ~Between(p)
  BY <1>1 DEF Between, IsBetween, Slot
<1>3. pc[Maint] = "claim" /\ \A w \in Workers : pc[w] = "idle"
  BY <1>1, ThreadsAssumption DEF Threads
<1>4. QED
  BY <1>1, <1>2, <1>3
  DEF ClientInv, MaintFlushes, FlushPcs, WrittenAlone, ClearedFirst, Live,
      MarksLast, OneLive, LiveIsNewest, KnownHasNewest, PromiseKept

LEMMA CStutterStep == ClientInv /\ UNCHANGED allvars => ClientInv'
<1> SUFFICES ASSUME ClientInv, UNCHANGED allvars PROVE ClientInv'
  OBVIOUS
<1> USE DEF ClientInv, allvars, vars, hvars
<1>1. /\ \A q \in Slot : (Between(q)' <=> Between(q)) /\ WriterOf(q)' = WriterOf(q)
      /\ \A q \in Slot, k \in Keys : Live(q, k)' <=> Live(q, k)
      /\ \A q \in Slot, w \in Workers : Live(q, key[w])' <=> Live(q, key[w])
  BY DEF Between, IsBetween, WriterOf, Live, Matches, IsEmptyState, KeyPending
<1>2. MaintFlushes' /\ KnownHasNewest' /\ PromiseKept'
  BY DEF MaintFlushes, KnownHasNewest, PromiseKept, Promise
<1>3. WrittenAlone' /\ OneLive' /\ LiveIsNewest'
  BY <1>1 DEF WrittenAlone, OneLive, LiveIsNewest
<1>4. ClearedFirst' /\ MarksLast'
  BY <1>1 DEF ClearedFirst, MarksLast, Cleared
<1>5. QED
  BY <1>2, <1>3, <1>4

LEMMA HNextClientInv ==
    ASSUME OneWorker
    PROVE  IInv /\ HInv /\ ClientInv /\ [HNext]_allvars => ClientInv'
<1> SUFFICES ASSUME IInv, HInv, ClientInv, [HNext]_allvars PROVE ClientInv'
  OBVIOUS
<1>1. ASSUME NEW w \in Workers,
             \/ HAnswerSet(w) \/ HAnswerGet(w) \/ HAllocate(w) \/ HMarkOld(w)
             \/ \E k \in Keys : HBeginGet(w, k)
      PROVE  ClientInv'
  BY <1>1, CAnswerSetStep, CAnswerGetStep, CAllocateStep, CMarkOldStep,
     CBeginStep
<1>2. ASSUME NEW t \in Threads, HStore(t)
      PROVE  ClientInv'
  BY <1>2, CStoreStep
<1>3. ASSUME HOther
      PROVE  ClientInv'
  <2>0. UNCHANGED hvars
    BY <1>3 DEF HOther
  <2>1. ASSUME NEW w \in Workers, NEW k \in Keys, NEW v \in Values, BeginSet(w, k, v)
        PROVE  ClientInv'
    BY <2>0, <2>1, CBeginStep
  <2>2. ASSUME NEW w \in Workers,
               \/ SetFind(w) \/ SetUnread(w) \/ SetInvalidate(w)
               \/ AllocateFails(w) \/ WriteKey(w)
               \/ GetFind(w) \/ GetCopy(w) \/ GetUnread(w) \/ GetInvalidate(w)
               \/ GetStore(w)
        PROVE  ClientInv'
    BY <2>0, <2>2, CFindStep, CUnreadStep, CInvalidateStep, CAllocateFailsStep,
       CWriteKeyStep, CReadStep
  <2>3. ASSUME NEW t \in Threads,
               \/ ClaimLockBusy(t) \/ ClaimNothing(t) \/ ClaimTooEarly(t)
               \/ Claim(t) \/ ClaimInvalidate(t) \/ CheckBetween(t)
               \/ CheckTail(t) \/ FlushCopy(t) \/ FlushUnread(t) \/ Consume(t)
               \/ FlushInvalidate(t)
        PROVE  ClientInv'
    BY <2>0, <2>3, CFlushStep, CClaimStep, CInvalidateStep, CFlushUnreadStep,
       CConsumeStep
  <2>4. QED
    BY <1>3, <2>1, <2>2, <2>3 DEF HOther
<1>4. CASE UNCHANGED allvars
  BY <1>4, CStutterStep
<1>5. QED
  BY <1>1, <1>2, <1>3, <1>4 DEF HNext, Running

THEOREM ClientInvariance == ASSUME OneWorker PROVE HSpec => []ClientInv
<1>1. HInit => ClientInv
  BY HInitClientInv
<1>2. IInv /\ HInv /\ ClientInv /\ [HNext]_allvars => ClientInv'
  BY HNextClientInv
<1>3. HSpec => HInit /\ [][HNext]_allvars
  BY DEF HSpec, allvars
<1>4. QED
  BY <1>1, <1>2, <1>3, HistoryInvariance, PTL

\* With one worker a value is complete before a flusher claims it
\* (NVDIMM.c:687), for any log and any keys; with two it need not be.
THEOREM CompleteWhenClaimed ==
    ASSUME OneWorker PROVE HSpec => []OnlyCompleteItemsClaimed
<1>1. IInv /\ HInv /\ ClientInv => OnlyCompleteItemsClaimed
  BY ClaimedNotWritten DEF OnlyCompleteItemsClaimed
<1>2. QED
  BY <1>1, HistoryInvariance, ClientInvariance, PTL

\* With one worker the log holds at most one item that answers for a key, and
\* between SETs of the key that item carries the value answered last.
THEOREM LogAnswersNewest ==
    ASSUME OneWorker PROVE HSpec => []LogHoldsNewest
<1>1. IInv /\ HInv /\ ClientInv => LogHoldsNewest
  <2> SUFFICES ASSUME IInv, HInv, ClientInv PROVE LogHoldsNewest
    OBVIOUS
  <2>1. ASSUME NEW k \in Keys
        PROVE  Cardinality({p \in Slot : Between(p) /\ Matches(p, k)}) <= 1
    <3> DEFINE S == {p \in Slot : Between(p) /\ Matches(p, k)}
    <3>1. S = {} \/ \E p : S = {p}
      BY DEF ClientInv, OneLive, Live
    <3>2. Cardinality({}) = 0 /\ \A p : Cardinality({p}) = 1
      BY FS_EmptySet, FS_Singleton
    <3> HIDE DEF S
    <3>3. CASE S = {}
      BY <3>2, <3>3 DEF S
    <3>4. CASE \E p : S = {p}
      <4>1. Cardinality(S) = 1
        BY <3>2, <3>4
      <4>2. QED
        BY <4>1 DEF S
    <3>5. QED
      BY <3>1, <3>3, <3>4
  <2>2. ASSUME NEW k \in known, NEW p \in Slot, FoundAt(k, p), ~SetInFlight(k)
        PROVE  item[p].val = newest[k]
    <3>1. Live(p, k) /\ k \in Keys
      BY <2>2 DEF FoundAt, Live, HInv, HTypeOK
    <3>2. ASSUME NEW w \in WriterOf(p)
          PROVE  FALSE
      <4>1. w \in Workers /\ pc[w] = "write_val" /\ it[w] = p
        BY <3>2 DEF WriterOf
      <4>2. key[w] = k
        BY <3>1, <4>1 DEF HInv, RequestComplete, Live, Matches
      <4>3. QED
        BY <2>2, <4>1, <4>2 DEF SetInFlight, SetPcs
    <3>3. QED
      BY <3>1, <3>2 DEF ClientInv, LiveIsNewest
  <2>3. QED
    BY <2>1, <2>2 DEF LogHoldsNewest
<1>2. QED
  BY <1>1, HistoryInvariance, ClientInvariance, PTL

\* With one worker a client never reads KEY_ENOENT for a key whose SET was
\* answered; run clients_lost_get shows how two workers lose it.
THEOREM AnsweredIsFound ==
    ASSUME OneWorker PROVE HSpec => []GetAfterSetFinds
<1>1. ClientInv => GetAfterSetFinds
  BY DEF ClientInv, PromiseKept, Promise, GetAfterSetFinds
<1>2. QED
  BY <1>1, ClientInvariance, PTL
=============================================================================
