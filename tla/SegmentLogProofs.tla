--------------------------- MODULE SegmentLogProofs ---------------------------
(***************************************************************************)
(* Proofs about the first engine, for every number of workers, keys,       *)
(* buckets, slots, segments and requests and every size of segment and     *)
(* item.  The inductive invariant IInv says where each worker is, that the *)
(* segments can be laid out in places with each list in order (LaidOut),   *)
(* what lies in a segment (MemOK), who counts it (CountsOK) and what the   *)
(* table shows (Newest).  It holds while segalloc_lock keeps two threads   *)
(* apart (Calm), so the theorem is Spec => [](Calm => IInv).               *)
(*                                                                         *)
(* Order: sets and numbers; lists of segments; the memory of a segment and *)
(* its counts; parts of the invariant that a step leaves alone; the steps  *)
(* of the workers and of the maintenance thread; the theorems.             *)
(***************************************************************************)
EXTENDS SegmentLog, FiniteSetTheorems, FunctionTheorems, SequenceTheorems, TLAPS

Calm == "lock" \notin harm

-----------------------------------------------------------------------------
(* Where a worker is. *)

Allocating == {"seg", "pop", "popped", "more", "grow"}
\* At work on a new item, that of a SET or a copy; or on a new reserve.
Making(w) == \/ th[w].pc \in {"alloc", "install", "put", "abort"}
             \/ th[w].pc \in Allocating /\ th[w].then = "install"
Reserving(w) == \/ th[w].pc = "reserve"
                \/ th[w].pc \in Allocating /\ th[w].then = "reserve"

PcOf(w) ==
    LET t == th[w]
    IN  /\ segLock = w <=> t.pc = "popped"
        /\ t.pc = "popped" => t.h = free_segments
        /\ t.pc \in Allocating => t.then # "idle"
        /\ Reserving(w) => ia[w].reserved = NULL
        /\ Making(w) => t.key \in Keys /\ (t.it = NoRef <=> ~t.cleanup)
        /\ ~Making(w) => ~t.cleanup
        /\ t.it # NoRef => Making(w) \/ Reserving(w) \/ t.pc \in {"release", "copy"}
        /\ t.nit # NoRef => t.pc \in {"put", "release"}
        /\ t.pc = "put" => t.nit # NoRef
        /\ t.pc = "release" => t.nit # NoRef \/ t.it # NoRef
        /\ t.pc = "copy" => t.it # NoRef
        /\ t.pc = "abort" => t.cleanup

PcOfMaint ==
    /\ segLock = Maint <=> mt.pc = "pushed"
    /\ mt.pc # "start" => mt.w \in Workers
    /\ mt.pc = "scan" => ia[mt.w].cleaning # NULL

PcOK == PcOfMaint /\ \A w \in Workers : PcOf(w)

-----------------------------------------------------------------------------
(* Where a segment is: home says in which place, pos numbers the segments   *)
(* of each list from its first on.                                          *)

Unused == <<"unused", Nobody>>
Free == <<"free", Nobody>>
Chain(w) == <<"chain", w>>
Reserve(w) == <<"reserved", w>>
Hand(w) == <<"hand", w>>
Given == <<"given back", Maint>>
Places == {Unused, Free, Given}
          \cup UNION {{Chain(w), Reserve(w), Hand(w)} : w \in Workers}
GivenBack == IF mt.pc \in {"push", "pushed"} THEN mt.h ELSE NULL

Nexts == [s \in Segments |-> seg[s].next]

ListIn(home, pos, nxt, p, first) ==
    /\ first = NULL => \A s \in Segments : home[s] # p
    /\ first # NULL => home[first] = p
    /\ \A s \in Segments : home[s] = p =>
          /\ pos[first] <= pos[s]
          /\ nxt[s] # NULL => home[nxt[s]] = p /\ pos[s] < pos[nxt[s]]
          /\ \A t \in Segments : home[t] = p =>
                /\ pos[s] = pos[t] => s = t
                /\ pos[s] < pos[t] => nxt[s] # NULL /\ pos[nxt[s]] <= pos[t]

ListAt(home, pos, p, first) == ListIn(home, pos, Nexts, p, first)

Lists(home, pos) ==
    /\ ListAt(home, pos, Free, free_segments)
    /\ \A w \in Workers : ListAt(home, pos, Chain(w), ia[w].oldest)

Held(home) ==
    /\ \A s \in Segments : s > seg_alloced <=> home[s] = Unused
    /\ \A w \in Workers : home[ia[w].cur] = Chain(w) /\ seg[ia[w].cur].next = NULL
    /\ \A w \in Workers : \A s \in Segments : home[s] = Reserve(w) <=> s = ia[w].reserved
    /\ \A w \in Workers : \A s \in Segments : home[s] = Hand(w) <=> s = InHand(w)
    /\ \A s \in Segments : home[s] = Given <=> s = GivenBack

\* The maintenance thread's walk: the segment it has come to, the one before it.
Walked(home) ==
    LET h == IF GivenBack = NULL THEN mt.h ELSE mt.next
    IN  mt.pc \in {"walk", "weigh", "push", "pushed"} =>
        /\ h # NULL /\ home[h] = Chain(mt.w)
        /\ mt.prev = NULL => ia[mt.w].oldest = h
        /\ mt.prev # NULL => home[mt.prev] = Chain(mt.w) /\ seg[mt.prev].next = h
        /\ mt.pc = "weigh" => mt.next # NULL /\ seg[mt.h].next = mt.next
        /\ mt.pc \in {"push", "pushed"} => mt.h # NULL
        /\ mt.pc = "pushed" => seg[mt.h].next = free_segments

LiveIn(items, offset) == {x \in items : x.at < offset /\ x.refs > 0}

\* What is not in service holds nothing.
Vacant(home) == \A s \in Segments :
    /\ home[s] \in {Free, Unused} => seg[s].offset = 0
    /\ home[s] = Given => LiveIn(mem[s], seg[s].offset) = {}
    /\ mt.pc = "pushed" /\ home[s] = Given => seg[s].offset = 0
    /\ \A w \in Workers :
          /\ home[s] \in {Reserve(w), Hand(w)} => seg[s].offset = 0 /\ seg[s].freed = 0
          /\ home[s] = Chain(w) /\ seg[s].offset = 0 => seg[s].freed = 0

Laid(home, pos) == Lists(home, pos) /\ Held(home) /\ Walked(home) /\ Vacant(home)
LaidOut == \E home \in [Segments -> Places], pos \in [Segments -> Nat] : Laid(home, pos)

-----------------------------------------------------------------------------
(* What is in a segment, and who counts it. *)

Tidy(items, offset, freed) ==
    /\ \A x, y \in items : x.at = y.at => x = y
    /\ \A x \in items : x.at + x.size <= SegSize
    /\ \A x \in items : x.at >= offset => x.refs = 0
    /\ \A x \in LiveIn(items, offset) : x.at + x.size <= offset /\ x.key \in Keys
    /\ Apart(LiveIn(items, offset))
    /\ offset > 0 => freed + Cardinality(Covered(LiveIn(items, offset))) = offset

MemOK == \A s \in Segments : Tidy(mem[s], seg[s].offset, seg[s].freed)

\* The references an item has by its own count; none where there is no item.
ItemIn(m, r) == CHOOSE x \in m[r[1]] : x.at = r[2]
CountIn(m, r) == IF \E x \in m[r[1]] : x.at = r[2] THEN ItemIn(m, r).refs ELSE 0

CountsOK == \A r \in Refs \ {NoRef} : CountIn(mem, r) = Uses(r)

-----------------------------------------------------------------------------
(* What the table shows: of every key at most one item, and the newest.     *)

KeyIs(m, r, k) == ItemIn(m, r).key = k

\* A linked item is one of its bucket, with the newest value.
LinkOK(m, nw, b, r) ==
    LET k == ItemIn(m, r).key
    IN  k \in Keys /\ Bucket[k] = b /\ ItemIn(m, r).val = nw[k] /\ nw[k] # NoValue

InBucket(slot, over, m, nw, b) ==
    /\ \A i \in Slots : slot[i] # NoRef => LinkOK(m, nw, b, slot[i])
    /\ \A j \in 1 .. Len(over) : over[j] # NoRef /\ LinkOK(m, nw, b, over[j])
    /\ \A i, j \in Slots : slot[i] # NoRef /\ slot[j] # NoRef
          /\ ItemIn(m, slot[i]).key = ItemIn(m, slot[j]).key => i = j
    /\ \A i, j \in 1 .. Len(over) :
          ItemIn(m, over[i]).key = ItemIn(m, over[j]).key => i = j
    /\ \A i \in Slots : \A j \in 1 .. Len(over) :
          slot[i] # NoRef => ItemIn(m, over[j]).key # ItemIn(m, slot[i]).key
    /\ \A k \in Keys : Bucket[k] = b /\ nw[k] # NoValue =>
          \/ \E i \in Slots : slot[i] # NoRef /\ KeyIs(m, slot[i], k)
          \/ \E j \in 1 .. Len(over) : KeyIs(m, over[j], k)

BucketOK(T, m, nw, b) == InBucket(T[b].slots, T[b].over, m, nw, b)
TableOK(T, m, nw) == \A b \in Buckets : BucketOK(T, m, nw, b)

Placed(T, r) == \E b \in Buckets : \/ \E i \in Slots : T[b].slots[i] = r
                                   \/ \E j \in 1 .. Len(T[b].over) : T[b].over[j] = r

\* An item that is to be linked is not linked yet, nor is it another's.
NewOK == \A w \in Workers : th[w].pc = "put" =>
    ~Placed(table, th[w].nit) /\ \A v \in Workers \ {w} : th[v].nit # th[w].nit

\* A copy has the key and the value of its original.
CopyOf(w) ==
    LET t == th[w]
    IN  /\ Making(w) /\ t.cleanup =>
              ItemIn(mem, t.it).key = t.key /\ ItemIn(mem, t.it).val = t.val
        /\ Making(w) /\ ~t.cleanup => t.val # NoValue
        /\ t.pc = "put" => ItemIn(mem, t.nit).key = t.key /\ ItemIn(mem, t.nit).val = t.val
CopyOK == \A w \in Workers : CopyOf(w)

Newest == TableOK(table, mem, newest)
Items == CountsOK /\ NewOK /\ Newest /\ CopyOK
IInv == TypeOK /\ PcOK /\ LaidOut /\ MemOK /\ Items

-----------------------------------------------------------------------------
(* Sets and numbers. *)

LEMMA Sizes ==
    /\ SegSize \in Nat /\ HeaderSize \in Nat /\ 1 <= HeaderSize /\ HeaderSize <= SegSize
    /\ \A k \in Keys : Size[k] \in Nat /\ HeaderSize <= Size[k] /\ Size[k] <= SegSize
    /\ \A k \in Keys : Bucket[k] \in Buckets
    /\ SegMaxNum \in Nat /\ NumSlots \in Nat /\ 1 <= NumSlots
    /\ CleanMax \in Nat /\ CqSize \in Nat
    /\ IsFiniteSet(Workers) /\ IsFiniteSet(Buckets)
BY SizesAssumption, BoundsAssumption DEF Buckets

\* A set of numbers has a least one.
LEMMA LeastNumber ==
    ASSUME NEW S \in SUBSET Nat, S # {}
    PROVE  \E m \in S : \A j \in S : m <= j
<1> DEFINE R == StrictSubsetOrdering(Nat)
           T == {0 .. m : m \in S}
<1>1. IsWellFoundedOn(R, FiniteSubsetsOf(Nat))
  BY FS_StrictSubsetOrderingWellFounded
<1>2. T \subseteq FiniteSubsetsOf(Nat) /\ T # {}
  <2>1. \A m \in S : IsFiniteSet(0 .. m)
    BY FS_Interval
  <2>2. \A m \in S : 0 .. m \in SUBSET Nat
    OBVIOUS
  <2>3. \A m \in S : 0 .. m \in FiniteSubsetsOf(Nat)
    BY <2>1, <2>2 DEF FiniteSubsetsOf
  <2> QED BY <2>3
<1>3. PICK X \in T : \A Y \in T : ~ (<<Y, X>> \in R)
  BY <1>1, <1>2, WFMin
<1>4. PICK m \in S : X = 0 .. m
  BY <1>3
<1>5. ASSUME NEW j \in S, j < m PROVE FALSE
  <2>1. (0 .. j) \subseteq (0 .. m) /\ m \in 0 .. m /\ m \notin 0 .. j
    BY <1>5
  <2>2. <<0 .. j, X>> \in R
    BY <1>4, <2>1 DEF StrictSubsetOrdering
  <2> QED BY <1>3, <2>2
<1> QED BY <1>5

\* Sets that differ in one element at most.
LEMMA SameButOne ==
    ASSUME NEW A, NEW B, NEW x, IsFiniteSet(A), A \ {x} = B \ {x}
    PROVE  /\ IsFiniteSet(B) /\ Cardinality(A) \in Nat /\ Cardinality(B) \in Nat
           /\ Cardinality(B) + (IF x \in A THEN 1 ELSE 0)
                = Cardinality(A) + (IF x \in B THEN 1 ELSE 0)
<1> DEFINE C == A \ {x}
<1>1. IsFiniteSet(C)
  BY FS_RemoveElement
<1>2. A = IF x \in A THEN C \cup {x} ELSE C
  OBVIOUS
<1>3. B = IF x \in B THEN C \cup {x} ELSE C
  OBVIOUS
<1>4. x \notin C
  OBVIOUS
<1>5. /\ IsFiniteSet(C \cup {x}) /\ Cardinality(C \cup {x}) = Cardinality(C) + 1
      /\ Cardinality(C) \in Nat
  BY <1>1, <1>4, FS_AddElement, FS_CardinalityType
<1> HIDE DEF C
<1> QED BY <1>1, <1>2, <1>3, <1>5

-----------------------------------------------------------------------------
(* Lists. *)

LEMMA NoSegment == NULL \notin Segments /\ \A s \in Segments : s \in Nat
BY Sizes DEF NULL, Segments

LEMMA PlacesDiffer ==
    ASSUME NEW v \in Workers, NEW w \in Workers
    PROVE  /\ Unused # Free /\ Unused # Given /\ Free # Given
           /\ Chain(w) \notin {Unused, Free, Given}
           /\ Reserve(w) \notin {Unused, Free, Given}
           /\ Hand(w) \notin {Unused, Free, Given}
           /\ Chain(v) # Reserve(w) /\ Chain(v) # Hand(w) /\ Reserve(v) # Hand(w)
           /\ Chain(v) = Chain(w) => v = w
           /\ Reserve(v) = Reserve(w) => v = w
           /\ Hand(v) = Hand(w) => v = w
BY DEF Unused, Free, Given, Chain, Reserve, Hand

NextTyped == \A s \in Segments : seg[s].next \in Segments \cup {NULL}

\* The numbered segments are the ones that the list leads to.
LEMMA ListIsFrom ==
    ASSUME NextTyped, NEW home, NEW pos \in [Segments -> Nat], NEW p,
           NEW first \in Segments \cup {NULL}, ListAt(home, pos, p, first)
    PROVE  ListFrom(first) = {s \in Segments : home[s] = p}
<1> DEFINE L == {s \in Segments : home[s] = p}
           closed == {S \in SUBSET Segments :
                        first \in S /\ \A s \in S : seg[s].next \in S \cup {NULL}}
<1>1. CASE first = NULL
  BY <1>1, NoSegment DEF ListAt, ListIn, ListFrom
<1>2. CASE first # NULL
  <2>1. L \in closed
    BY <1>2 DEF ListAt, ListIn, NextTyped, Nexts
  <2>2. ASSUME NEW S \in closed, NEW s \in L, s \notin S PROVE FALSE
    <3> DEFINE D == {pos[t] - pos[u] : t \in L \ S, u \in L \cap S}
               P == D \cap Nat
    <3>1. pos[s] - pos[first] \in P
      <4>1. first \in L \cap S /\ pos[first] <= pos[s]
        BY <1>2 DEF ListAt, ListIn, Nexts
      <4>2. pos[first] \in Nat /\ pos[s] \in Nat
        BY <4>1
      <4>3. pos[s] - pos[first] \in Nat
        BY <4>1, <4>2
      <4>4. s \in L \ S /\ first \in L \cap S
        BY <2>2, <4>1
      <4>5. pos[s] - pos[first] \in D
        BY <4>4
      <4> QED BY <4>3, <4>5
    <3>2. P \in SUBSET Nat /\ P # {}
      BY <3>1
    <3>0. \A d : d \in P <=> d \in D /\ d \in Nat
      OBVIOUS
    <3> HIDE DEF P
    <3>3. PICK m \in P : \A j \in P : m <= j
      BY <3>2, LeastNumber
    <3>4. PICK t \in L \ S, u \in L \cap S : m = pos[t] - pos[u]
      BY <3>0, <3>3
    <3>5. pos[t] \in Nat /\ pos[u] \in Nat /\ pos[t] - pos[u] \in Nat
      BY <3>0, <3>3, <3>4
    <3>6. pos[u] # pos[t]
      BY <3>4 DEF ListAt, ListIn, Nexts
    <3>7. seg[u].next # NULL /\ pos[seg[u].next] <= pos[t] /\ pos[u] < pos[seg[u].next]
          /\ home[seg[u].next] = p
      BY <3>4, <3>5, <3>6 DEF ListAt, ListIn, Nexts
    <3>8. seg[u].next \in L \cap S /\ pos[seg[u].next] \in Nat
      BY <3>4, <3>7 DEF NextTyped
    <3>9. pos[t] - pos[seg[u].next] \in P /\ pos[t] - pos[seg[u].next] < m
      <4>1. pos[t] - pos[seg[u].next] \in D
        BY <3>4, <3>8
      <4>2. pos[t] - pos[seg[u].next] \in Nat /\ pos[t] - pos[seg[u].next] < m
        BY <3>4, <3>5, <3>7, <3>8
      <4> QED BY <3>0, <4>1, <4>2
    <3>10. pos[t] - pos[seg[u].next] \in Nat /\ m \in Nat
      BY <3>0, <3>9
    <3> QED BY <3>3, <3>9, <3>10
  <2>3. ListFrom(first) = {s \in Segments : \A S \in closed : s \in S}
    BY <1>2 DEF ListFrom
  <2> HIDE DEF closed
  <2> QED BY <2>1, <2>2, <2>3
<1> QED BY <1>1, <1>2

\* Moves in lists: nothing of list p changes,
LEMMA ListStays ==
    ASSUME NEW home, NEW home2, NEW pos, NEW pos2, NEW nxt, NEW nxt2, NEW p,
           NEW first \in Segments \cup {NULL}, ListIn(home, pos, nxt, p, first),
           \A s \in Segments : home[s] = p <=> home2[s] = p,
           \A s \in Segments : home[s] = p =>
               nxt[s] \in Segments \cup {NULL} /\ nxt2[s] = nxt[s] /\ pos2[s] = pos[s]
    PROVE  ListIn(home2, pos2, nxt2, p, first)
BY NoSegment DEF ListIn

\* the first segment leaves it,
LEMMA ListPop ==
    ASSUME NEW home, NEW pos \in [Segments -> Nat], NEW nxt, NEW nxt2, NEW p, NEW q,
           NEW first \in Segments, ListIn(home, pos, nxt, p, first), q # p,
           home \in [Segments -> Places],
           \A s \in Segments : nxt[s] \in Segments \cup {NULL},
           \A s \in Segments : home[s] = p /\ s # first => nxt2[s] = nxt[s]
    PROVE  ListIn([home EXCEPT ![first] = q], pos, nxt2, p, nxt[first])
<1> DEFINE home2 == [home EXCEPT ![first] = q]
<1>1. home[first] = p /\ first # NULL
  BY NoSegment DEF ListIn
<1>2. \A s \in Segments : home2[s] = IF s = first THEN q ELSE home[s]
  OBVIOUS
<1>3. \A s \in Segments : home2[s] = p <=> home[s] = p /\ s # first
  BY <1>2
<1>4. \A s \in Segments : home[s] = p /\ s # first =>
          pos[first] < pos[s] /\ nxt[first] # NULL /\ pos[nxt[first]] <= pos[s]
  BY <1>1 DEF ListIn
<1>5. \A s \in Segments : home[s] = p /\ nxt[s] # NULL =>
          nxt[s] \in Segments /\ home[nxt[s]] = p /\ nxt[s] # first
  BY <1>1 DEF ListIn
<1> HIDE DEF home2
<1>6. nxt[first] = NULL => \A s \in Segments : home2[s] # p
  BY <1>3, <1>4
<1>7. nxt[first] # NULL => home2[nxt[first]] = p
  BY <1>1, <1>3, <1>5
<1>8. ASSUME NEW s \in Segments, home2[s] = p
      PROVE  /\ pos[nxt[first]] <= pos[s]
             /\ nxt2[s] # NULL => home2[nxt2[s]] = p /\ pos[s] < pos[nxt2[s]]
             /\ \A t \in Segments : home2[t] = p =>
                   /\ pos[s] = pos[t] => s = t
                   /\ pos[s] < pos[t] => nxt2[s] # NULL /\ pos[nxt2[s]] <= pos[t]
  <2>1. home[s] = p /\ s # first /\ nxt2[s] = nxt[s]
    BY <1>3, <1>8
  <2>2. pos[nxt[first]] <= pos[s]
    BY <1>4, <2>1
  <2>3. nxt[s] # NULL => home2[nxt[s]] = p /\ pos[s] < pos[nxt[s]]
    BY <1>3, <1>5, <2>1 DEF ListIn
  <2>4. \A t \in Segments : home2[t] = p =>
            /\ pos[s] = pos[t] => s = t
            /\ pos[s] < pos[t] => nxt[s] # NULL /\ pos[nxt[s]] <= pos[t]
    BY <1>3, <2>1 DEF ListIn
  <2> QED BY <2>1, <2>2, <2>3, <2>4
<1>9. ListIn(home2, pos, nxt2, p, nxt[first])
  BY <1>6, <1>7, <1>8 DEF ListIn
<1> QED BY <1>9 DEF home2

\* a segment h after prev leaves it,
Moved(home, h, p) == [home EXCEPT ![h] = p]
SkipsIn(home, nxt, nxt2, p, prev, h) ==
    /\ home[prev] = p /\ nxt[prev] = h /\ nxt2[prev] = nxt[h]
    /\ \A s \in Segments \ {prev} : home[s] = p /\ s # h => nxt2[s] = nxt[s]

LEMMA ListRemove ==
    ASSUME NEW home \in [Segments -> Places], NEW pos \in [Segments -> Nat], NEW nxt, NEW nxt2,
           NEW p, NEW q, q # p,
           NEW first \in Segments \cup {NULL}, ListIn(home, pos, nxt, p, first),
           \A s \in Segments : nxt[s] \in Segments \cup {NULL},
           NEW prev \in Segments, NEW h \in Segments, SkipsIn(home, nxt, nxt2, p, prev, h),
           NEW home2, home2 = Moved(home, h, q)
    PROVE  ListIn(home2, pos, nxt2, p, first)
<1>0. /\ home[prev] = p /\ nxt[prev] = h /\ nxt2[prev] = nxt[h]
      /\ \A s \in Segments \ {prev} : home[s] = p /\ s # h => nxt2[s] = nxt[s]
      /\ home2 = [home EXCEPT ![h] = q]
  BY DEF SkipsIn, Moved
<1>1. home[h] = p /\ h # NULL /\ prev # NULL /\ pos[prev] < pos[h]
  BY <1>0, NoSegment DEF ListIn
<1>2. first # NULL /\ home[first] = p /\ first # h
  BY <1>0, <1>1 DEF ListIn
<1>3. \A s \in Segments : home2[s] = p <=> home[s] = p /\ s # h
  BY <1>0, <1>1
<1>4. \A s \in Segments : home[s] = p /\ nxt[s] = h => s = prev
  <2> SUFFICES ASSUME NEW s \in Segments, home[s] = p, nxt[s] = h, s # prev PROVE FALSE
    BY <1>0
  <2>1. pos[s] \in Nat /\ pos[prev] \in Nat /\ pos[h] \in Nat
    BY <1>0
  <2>2. pos[s] < pos[h] /\ pos[s] # pos[prev]
    BY <1>0, <1>1 DEF ListIn
  <2>3. pos[s] < pos[prev] => pos[h] <= pos[prev]
    BY <1>0, <1>1 DEF ListIn
  <2>4. pos[prev] < pos[s] => pos[h] <= pos[s]
    BY <1>0, <1>1 DEF ListIn
  <2> QED BY <1>0, <1>1, <2>1, <2>2, <2>3, <2>4
<1>5. ASSUME NEW s \in Segments, home2[s] = p
      PROVE  /\ pos[first] <= pos[s]
             /\ nxt2[s] # NULL => home2[nxt2[s]] = p /\ pos[s] < pos[nxt2[s]]
             /\ \A t \in Segments : home2[t] = p =>
                   /\ pos[s] = pos[t] => s = t
                   /\ pos[s] < pos[t] => nxt2[s] # NULL /\ pos[nxt2[s]] <= pos[t]
  <2>1. home[s] = p /\ s # h
    BY <1>0, <1>3, <1>5
  <2>2. pos[first] <= pos[s]
    BY <1>0, <2>1 DEF ListIn
  <2>3. \A t \in Segments : home2[t] = p => home[t] = p /\ t # h /\ (pos[s] = pos[t] => s = t)
    BY <1>0, <1>3, <2>1 DEF ListIn
  <2>4. CASE s = prev
    <3>1. nxt[h] # NULL => home[nxt[h]] = p /\ pos[h] < pos[nxt[h]] /\ nxt[h] \in Segments
      BY <1>0, <1>1 DEF ListIn
    <3>2. nxt[h] # NULL => home2[nxt[h]] = p /\ pos[s] < pos[nxt[h]]
      <4>1. pos[s] \in Nat /\ pos[h] \in Nat
        BY <1>0
      <4>2. ASSUME nxt[h] # NULL PROVE pos[nxt[h]] \in Nat /\ nxt[h] # h
        BY <1>0, <3>1, <4>2
      <4> QED BY <1>0, <1>1, <1>3, <2>4, <3>1, <4>1, <4>2
    <3>3. ASSUME NEW t \in Segments, home2[t] = p, pos[s] < pos[t]
          PROVE  nxt[h] # NULL /\ pos[nxt[h]] <= pos[t]
      <4>1. home[t] = p /\ t # h
        BY <1>0, <1>3, <3>3
      <4>2. pos[h] <= pos[t]
        BY <1>0, <2>4, <3>3, <4>1, <1>1 DEF ListIn
      <4>3. pos[h] # pos[t]
        BY <1>0, <4>1, <1>1 DEF ListIn
      <4>4. pos[h] < pos[t]
        BY <1>0, <4>2, <4>3
      <4> QED BY <1>0, <4>1, <4>4, <1>1 DEF ListIn
    <3> QED BY <1>0, <2>2, <2>3, <2>4, <3>2, <3>3
  <2>5. CASE s # prev
    <3>1. nxt2[s] = nxt[s] /\ nxt[s] # h
      BY <1>0, <1>4, <2>1, <2>5
    <3>2. nxt[s] # NULL => home2[nxt[s]] = p /\ pos[s] < pos[nxt[s]]
      <4>1. nxt[s] # NULL => nxt[s] \in Segments /\ home[nxt[s]] = p /\ pos[s] < pos[nxt[s]]
        BY <1>0, <2>1 DEF ListIn
      <4> QED BY <1>0, <1>3, <3>1, <4>1
    <3>3. \A t \in Segments : home2[t] = p /\ pos[s] < pos[t] => nxt[s] # NULL /\ pos[nxt[s]] <= pos[t]
      BY <1>0, <2>1, <2>3 DEF ListIn
    <3> QED BY <1>0, <2>2, <2>3, <3>1, <3>2, <3>3
  <2> QED BY <1>0, <2>4, <2>5
<1>6. home2[first] = p
  BY <1>0, <1>2, <1>3
<1>7. ListIn(home2, pos, nxt2, p, first)
  BY <1>0, <1>2, <1>5, <1>6 DEF ListIn
<1> QED BY <1>7

\* a segment comes to its front,
PushesIn(home, pos, pos2, nxt, nxt2, p, first, h) ==
    /\ home[h] # p /\ nxt2[h] = first /\ pos2[h] = 0
    /\ \A s \in Segments : home[s] = p => nxt2[s] = nxt[s] /\ pos2[s] = pos[s] + 1

LEMMA ListPush ==
    ASSUME NEW home \in [Segments -> Places], NEW pos \in [Segments -> Nat],
           NEW pos2 \in [Segments -> Nat], NEW nxt, NEW nxt2, NEW p,
           NEW first \in Segments \cup {NULL}, ListIn(home, pos, nxt, p, first),
           \A s \in Segments : nxt[s] \in Segments \cup {NULL},
           NEW h \in Segments, PushesIn(home, pos, pos2, nxt, nxt2, p, first, h),
           NEW home2, home2 = Moved(home, h, p)
    PROVE  ListIn(home2, pos2, nxt2, p, h)
<1>0. /\ home[h] # p /\ nxt2[h] = first /\ pos2[h] = 0
      /\ \A s \in Segments : home[s] = p => nxt2[s] = nxt[s] /\ pos2[s] = pos[s] + 1
      /\ home2 = [home EXCEPT ![h] = p]
  BY DEF PushesIn, Moved
<1>1. h # NULL /\ home2[h] = p
  BY <1>0, NoSegment
<1>2. \A s \in Segments : home2[s] = p <=> home[s] = p \/ s = h
  BY <1>0
<1>3. \A s \in Segments : pos[s] \in Nat /\ pos2[s] \in Nat
  BY <1>0
<1>4. \A s \in Segments : home[s] = p => pos2[s] = pos[s] + 1 /\ pos2[s] > 0 /\ s # h
  BY <1>0, <1>3
<1>5. ASSUME NEW s \in Segments, home2[s] = p
      PROVE  /\ pos2[h] <= pos2[s]
             /\ nxt2[s] # NULL => home2[nxt2[s]] = p /\ pos2[s] < pos2[nxt2[s]]
             /\ \A t \in Segments : home2[t] = p =>
                   /\ pos2[s] = pos2[t] => s = t
                   /\ pos2[s] < pos2[t] => nxt2[s] # NULL /\ pos2[nxt2[s]] <= pos2[t]
  <2>1. pos2[h] <= pos2[s]
    BY <1>0, <1>3
  <2>2. CASE s = h
    <3>1. first # NULL => first \in Segments /\ home[first] = p /\ home2[first] = p /\ pos2[h] < pos2[first]
      BY <1>0, <1>2, <1>4 DEF ListIn
    <3>2. ASSUME NEW t \in Segments, home2[t] = p, pos2[h] < pos2[t]
          PROVE  first # NULL /\ pos2[first] <= pos2[t]
      <4>1. home[t] = p /\ t # h
        BY <1>0, <1>2, <1>3, <3>2
      <4>2. first # NULL /\ pos[first] <= pos[t]
        BY <1>0, <4>1 DEF ListIn
      <4> QED BY <1>0, <1>3, <1>4, <3>1, <4>1, <4>2
    <3>3. \A t \in Segments : home2[t] = p /\ pos2[h] = pos2[t] => t = h
      BY <1>0, <1>2, <1>3, <1>4
    <3> QED BY <1>0, <2>1, <2>2, <3>1, <3>2, <3>3
  <2>3. CASE s # h
    <3>1. home[s] = p /\ nxt2[s] = nxt[s]
      BY <1>0, <1>2, <1>5, <2>3
    <3>2. nxt[s] # NULL => home2[nxt[s]] = p /\ pos2[s] < pos2[nxt[s]]
      <4>1. nxt[s] # NULL => nxt[s] \in Segments /\ home[nxt[s]] = p /\ pos[s] < pos[nxt[s]]
        BY <1>0, <3>1 DEF ListIn
      <4> QED BY <1>0, <1>2, <1>3, <1>4, <3>1, <4>1
    <3>3. ASSUME NEW t \in Segments, home2[t] = p
          PROVE  /\ pos2[s] = pos2[t] => s = t
                 /\ pos2[s] < pos2[t] => nxt[s] # NULL /\ pos2[nxt[s]] <= pos2[t]
      <4>1. CASE t = h
        BY <1>0, <1>3, <1>4, <2>1, <3>1, <4>1
      <4>2. CASE t # h
        <5>1. home[t] = p
          BY <1>0, <1>2, <3>3, <4>2
        <5>2. /\ pos[s] = pos[t] => s = t
              /\ pos[s] < pos[t] => nxt[s] # NULL /\ pos[nxt[s]] <= pos[t]
          BY <1>0, <3>1, <5>1 DEF ListIn
        <5>3. nxt[s] # NULL => nxt[s] \in Segments /\ home[nxt[s]] = p
          BY <1>0, <3>1 DEF ListIn
        <5> QED BY <1>0, <1>3, <1>4, <3>1, <5>1, <5>2, <5>3
      <4> QED BY <1>0, <4>1, <4>2
    <3> QED BY <1>0, <2>1, <3>1, <3>2, <3>3
  <2> QED BY <1>0, <2>2, <2>3
<1>6. ListIn(home2, pos2, nxt2, p, h)
  BY <1>0, <1>1, <1>5 DEF ListIn
<1> QED BY <1>0, <1>6

\* a segment h follows its last one.
LEMMA ListAppend ==
    ASSUME NEW home, NEW pos \in [Segments -> Nat], NEW nxt, NEW nxt2, NEW p,
           NEW first \in Segments \cup {NULL}, ListIn(home, pos, nxt, p, first),
           home \in [Segments -> Places],
           \A s \in Segments : nxt[s] \in Segments \cup {NULL},
           NEW old \in Segments, NEW h \in Segments,
           home[old] = p, nxt[old] = NULL, home[h] # p, nxt2[old] = h, nxt2[h] = NULL,
           \A s \in Segments \ {old} : home[s] = p => nxt2[s] = nxt[s],
           NEW home2 \in [Segments -> Places], NEW pos2 \in [Segments -> Nat],
           home2[h] = p, \A s \in Segments \ {h} : home2[s] = home[s],
           pos2[h] = pos[old] + 1, \A s \in Segments \ {h} : pos2[s] = pos[s]
    PROVE  ListIn(home2, pos2, nxt2, p, first)
<1>1. h # NULL /\ old # NULL /\ home2[h] = p /\ h # old
  BY NoSegment
<1>2. \A s \in Segments : home2[s] = p <=> home[s] = p \/ s = h
  OBVIOUS
<1>3. \A s \in Segments : pos[s] \in Nat /\ pos2[s] \in Nat
  OBVIOUS
<1>4. pos2[h] = pos[old] + 1 /\ \A s \in Segments : home[s] = p => pos2[s] = pos[s] /\ s # h
  OBVIOUS
<1>5. \A s \in Segments : home[s] = p => pos[s] <= pos[old]
  BY <1>3 DEF ListIn
<1>6. \A s \in Segments : home[s] = p => pos2[s] < pos2[h]
  BY <1>3, <1>4, <1>5
<1>7. ASSUME NEW s \in Segments, home[s] = p, s # old
      PROVE  nxt[s] # NULL /\ pos[s] < pos[old]
  <2>1. pos[s] # pos[old]
    BY <1>7 DEF ListIn
  <2>2. pos[s] < pos[old]
    BY <1>3, <1>5, <1>7, <2>1
  <2> QED BY <1>7, <2>2 DEF ListIn
<1>8. first # NULL /\ home[first] = p
  BY DEF ListIn
<1>9. ASSUME NEW s \in Segments, home2[s] = p
      PROVE  /\ pos2[first] <= pos2[s]
             /\ nxt2[s] # NULL => home2[nxt2[s]] = p /\ pos2[s] < pos2[nxt2[s]]
             /\ \A t \in Segments : home2[t] = p =>
                   /\ pos2[s] = pos2[t] => s = t
                   /\ pos2[s] < pos2[t] => nxt2[s] # NULL /\ pos2[nxt2[s]] <= pos2[t]
  <2>1. pos2[first] <= pos2[s]
    <3>1. CASE s = h
      BY <1>3, <1>6, <1>8, <3>1
    <3>2. CASE s # h
      BY <1>2, <1>4, <1>8, <1>9, <3>2 DEF ListIn
    <3> QED BY <3>1, <3>2
  <2>2. CASE s = h
    <3>1. \A t \in Segments : home2[t] = p => t = h \/ pos2[t] < pos2[h]
      BY <1>2, <1>6
    <3> QED BY <1>1, <1>3, <2>1, <2>2, <3>1
  <2>3. CASE s # h
    <3>1. home[s] = p
      BY <1>2, <1>9, <2>3
    <3>2. CASE s = old
      <4>1. nxt2[s] = h /\ home2[h] = p /\ pos2[s] < pos2[h]
        BY <1>1, <1>6, <3>1, <3>2
      <4>2. ASSUME NEW t \in Segments, home2[t] = p
            PROVE  /\ pos2[s] = pos2[t] => s = t
                   /\ pos2[s] < pos2[t] => pos2[h] <= pos2[t]
        <5>1. CASE t = h
          BY <1>3, <4>1, <5>1
        <5>2. CASE t # h
          <6>1. home[t] = p
            BY <1>2, <4>2, <5>2
          <6>2. pos2[t] <= pos2[s]
            BY <1>4, <1>5, <3>1, <3>2, <6>1
          <6>3. pos2[s] = pos2[t] => s = t
            BY <1>4, <3>1, <6>1 DEF ListIn
          <6> QED BY <1>3, <6>2, <6>3
        <5> QED BY <5>1, <5>2
      <4> QED BY <1>1, <2>1, <4>1, <4>2
    <3>3. CASE s # old
      <4>1. nxt2[s] = nxt[s] /\ nxt[s] # NULL /\ nxt[s] \in Segments
        BY <1>7, <3>1, <3>3
      <4>2. home[nxt[s]] = p /\ pos[s] < pos[nxt[s]]
        BY <3>1, <4>1 DEF ListIn
      <4>3. home2[nxt[s]] = p /\ pos2[s] < pos2[nxt[s]]
        BY <1>2, <1>4, <3>1, <4>1, <4>2
      <4>4. ASSUME NEW t \in Segments, home2[t] = p
            PROVE  /\ pos2[s] = pos2[t] => s = t
                   /\ pos2[s] < pos2[t] => pos2[nxt[s]] <= pos2[t]
        <5>1. CASE t = h
          BY <1>3, <1>6, <3>1, <4>1, <4>2, <5>1
        <5>2. CASE t # h
          <6>1. home[t] = p
            BY <1>2, <4>4, <5>2
          <6>2. /\ pos[s] = pos[t] => s = t
                /\ pos[s] < pos[t] => pos[nxt[s]] <= pos[t]
            BY <3>1, <6>1 DEF ListIn
          <6> QED BY <1>4, <3>1, <4>1, <4>2, <6>1, <6>2
        <5> QED BY <5>1, <5>2
      <4> QED BY <2>1, <4>1, <4>3, <4>4
    <3> QED BY <3>2, <3>3
  <2> QED BY <2>2, <2>3
<1>10. home2[first] = p
  BY <1>2, <1>8
<1>11. ListIn(home2, pos2, nxt2, p, first)
  BY <1>8, <1>9, <1>10 DEF ListIn
<1> QED BY <1>11

-----------------------------------------------------------------------------
(* The items of one segment. *)

\* Covered looks at no more than where an item is and how long it is.
LEMMA CoveredFinite ==
    ASSUME NEW items
    PROVE  /\ IsFiniteSet(Covered(items)) /\ Cardinality(Covered(items)) \in Nat
           /\ Cardinality(Covered(items)) <= SegSize
<1>1. IsFiniteSet(0 .. SegSize - 1) /\ Cardinality(0 .. SegSize - 1) = SegSize
  BY Sizes, FS_Interval
<1>2. Covered(items) \in SUBSET (0 .. SegSize - 1)
  BY DEF Covered
<1>3. IsFiniteSet(Covered(items)) /\ Cardinality(Covered(items)) <= SegSize
  BY <1>1, <1>2, FS_Subset
<1> QED BY <1>3, FS_CardinalityType

\* An item apart from the others adds what it takes up.
LEMMA CoveredWith ==
    ASSUME NEW rest, NEW x \in Header, x.at + x.size <= SegSize,
           \A y \in rest : y.at \in Nat /\ y.size \in Nat,
           \A y \in rest : y.at + y.size <= x.at \/ x.at + x.size <= y.at
    PROVE  Cardinality(Covered(rest \cup {x})) = Cardinality(Covered(rest)) + x.size
<1> DEFINE own == x.at .. (x.at + x.size - 1)
<1>1. x.at \in Nat /\ x.size \in Nat /\ x.size >= 1
  BY Sizes DEF Header
<1>2. Covered(rest \cup {x}) = Covered(rest) \cup own
  BY <1>1, Sizes DEF Covered
<1>3. Covered(rest) \cap own = {}
  BY <1>1, Sizes DEF Covered
<1>4. IsFiniteSet(own) /\ Cardinality(own) = x.size
  <2>1. x.at \in Int /\ x.at + x.size - 1 \in Int /\ ~(x.at > x.at + x.size - 1)
        /\ (x.at + x.size - 1) - x.at + 1 = x.size
    BY <1>1
  <2> QED BY <2>1, FS_Interval
<1>5. Cardinality(Covered(rest) \cap own) = 0
  BY <1>3, FS_EmptySet
<1> HIDE DEF own
<1>6. Cardinality(Covered(rest) \cup own)
        = Cardinality(Covered(rest)) + Cardinality(own) - Cardinality(Covered(rest) \cap own)
  BY <1>4, CoveredFinite, FS_Union
<1>7. PICK c \in Nat : c = Cardinality(Covered(rest))
  BY CoveredFinite
<1>8. Cardinality(Covered(rest) \cup own) = c + x.size - 0
  BY <1>4, <1>5, <1>6, <1>7, Zenon
<1>9. c + x.size - 0 = c + x.size
  BY <1>1
<1> QED BY <1>2, <1>7, <1>8, <1>9, Zenon

\* Items of the same places and lengths.
LEMMA CoveredSame ==
    ASSUME NEW items, NEW items2,
           \A x \in items : \E y \in items2 : y.at = x.at /\ y.size = x.size,
           \A y \in items2 : \E x \in items : y.at = x.at /\ y.size = x.size
    PROVE  Covered(items) = Covered(items2)
BY DEF Covered

\* Nothing covered, nothing there.
LEMMA CoveredNone ==
    ASSUME NEW items \in SUBSET Header, Cardinality(Covered(items)) = 0
    PROVE  items = {}
<1>1. Covered(items) = {}
  BY CoveredFinite, FS_EmptySet
<1>2. ASSUME NEW x \in items PROVE x.at \in Covered(items)
  BY Sizes DEF Header, Covered
<1> QED BY <1>1, <1>2

\* What Recount makes of an item.
LEMMA RecountedIs ==
    ASSUME NEW x \in Header, NEW r, NEW up, NEW down, up # down,
           r \in {up, down} => x.refs > 0
    PROVE  LET y == Recounted(r, x, up, down)
           IN  /\ y \in Header /\ y.at = x.at /\ y.size = x.size
               /\ y.refs = IF r = up THEN x.refs + 1 ELSE IF r = down THEN x.refs - 1 ELSE x.refs
               /\ y.refs > 0 => x.refs > 0 /\ y.key = x.key /\ y.val = x.val
<1>1. x.refs \in Nat /\ NoValue \in Values
  BY DEF Header, Values
<1>2. ASSUME NEW n \in Nat
      PROVE  /\ Counted(x, n) \in Header /\ Counted(x, n).at = x.at
             /\ Counted(x, n).size = x.size /\ Counted(x, n).refs = n
             /\ n > 0 => Counted(x, n).key = x.key /\ Counted(x, n).val = x.val
  <2>1. CASE n = 0
    <3> DEFINE y == [x EXCEPT !.refs = 0, !.key = NoKey, !.val = NoValue]
    <3>1. y.at = x.at /\ y.size = x.size /\ y.refs = 0
      BY DEF Header
    <3>2. y \in Header
      BY <1>1 DEF Header
    <3>3. Counted(x, n) = y
      BY <2>1 DEF Counted
    <3> HIDE DEF y
    <3> QED BY <2>1, <3>1, <3>2, <3>3
  <2>2. CASE n # 0
    <3> DEFINE y == [x EXCEPT !.refs = n]
    <3>1. y \in Header /\ y.at = x.at /\ y.size = x.size /\ y.refs = n
          /\ y.key = x.key /\ y.val = x.val
      BY DEF Header
    <3>2. Counted(x, n) = y
      BY <2>2 DEF Counted
    <3> QED BY <3>1, <3>2
  <2> QED BY <2>1, <2>2
<1>3. CASE r = up
  <2>1. Recounted(r, x, up, down) = Counted(x, x.refs + 1)
    BY <1>3 DEF Recounted
  <2>2. x.refs > 0 /\ x.refs + 1 \in Nat
    BY <1>1, <1>3
  <2> QED BY <1>2, <1>3, <2>1, <2>2
<1>4. CASE r # up /\ r = down
  BY <1>1, <1>2, <1>4 DEF Recounted
<1>5. CASE r # up /\ r # down
  BY <1>5 DEF Recounted
<1> QED BY <1>3, <1>4, <1>5

Recounts(items, s, up, down) == {Recounted(<<s, x.at>>, x, up, down) : x \in items}
Counting(items, s, up, down) == \A x \in items : <<s, x.at>> \in {up, down} => x.refs > 0
FreedTo(items, s, down, freed, freed2) ==
    /\ \A x \in items : <<s, x.at>> = down /\ x.refs = 1 => freed2 = freed + x.size
    /\ (\A x \in items : ~(<<s, x.at>> = down /\ x.refs = 1)) => freed2 = freed

LEMMA TidyRecount ==
    ASSUME NEW items \in SUBSET Header, NEW offset \in 0 .. SegSize, NEW freed \in 0 .. SegSize,
           Tidy(items, offset, freed), NEW s, NEW up, NEW down, up # down,
           Counting(items, s, up, down), NEW freed2, FreedTo(items, s, down, freed, freed2),
           NEW items2, items2 = Recounts(items, s, up, down)
    PROVE  /\ items2 \in SUBSET Header /\ Tidy(items2, offset, freed2)
           /\ LiveIn(items, offset) = {} => LiveIn(items2, offset) = {}
           /\ freed2 # freed => offset > 0
           /\ freed2 \in 0 .. SegSize
<1> DEFINE T(x) == Recounted(<<s, x.at>>, x, up, down)
           live == LiveIn(items, offset)
           live2 == LiveIn(items2, offset)
<1>1. \A x \in items :
        /\ T(x) \in Header /\ T(x).at = x.at /\ T(x).size = x.size
        /\ T(x).refs > 0 => x.refs > 0 /\ T(x).key = x.key
        /\ T(x).refs = 0 /\ x.refs > 0 => <<s, x.at>> = down /\ x.refs = 1
        /\ x.refs = 1 /\ <<s, x.at>> = down => T(x).refs = 0
  <2> TAKE x \in items
  <2>1. x \in Header /\ x.refs \in Nat /\ (<<s, x.at>> \in {up, down} => x.refs > 0)
    BY DEF Header, Counting
  <2>2. /\ T(x) \in Header /\ T(x).at = x.at /\ T(x).size = x.size
        /\ T(x).refs = IF <<s, x.at>> = up THEN x.refs + 1 ELSE IF <<s, x.at>> = down THEN x.refs - 1 ELSE x.refs
        /\ T(x).refs > 0 => x.refs > 0 /\ T(x).key = x.key
    BY <2>1, RecountedIs
  <2> QED BY <2>1, <2>2
<1>0. items2 = {T(x) : x \in items}
  BY DEF Recounts
<1> HIDE DEF T
<1>2. \A y \in live2 : \E x \in live : y = T(x)
  BY <1>0, <1>1 DEF LiveIn
<1>3. \A x, y \in items : x.at = y.at => x = y
  BY DEF Tidy
<1>4. items2 \in SUBSET Header
  BY <1>0, <1>1
<1>5. \A x, y \in items2 : x.at = y.at => x = y
  BY <1>0, <1>1, <1>3
<1>6. \A y \in items2 : y.at + y.size <= SegSize
  BY <1>0, <1>1 DEF Tidy
<1>7. \A y \in items2 : y.at >= offset => y.refs = 0
  BY <1>0, <1>1 DEF Tidy, Header
<1>8. \A y \in live2 : y.at + y.size <= offset /\ y.key \in Keys
  BY <1>1, <1>2 DEF Tidy, LiveIn
<1>9. Apart(live2)
  BY <1>1, <1>2 DEF Tidy, LiveIn, Apart
<1>10. live = {} => live2 = {}
  BY <1>2
<1>11. /\ offset > 0 => freed2 + Cardinality(Covered(live2)) = offset
       /\ freed2 # freed => offset > 0
       /\ freed2 \in 0 .. SegSize
  <2>1. CASE \A x \in items : ~(<<s, x.at>> = down /\ x.refs = 1)
    <3>1. \A x \in live : T(x) \in live2
      BY <1>0, <1>1, <2>1 DEF LiveIn, Header
    <3>2. Covered(live) = Covered(live2)
      <4>1. live \subseteq items
        BY DEF LiveIn
      <4>2. \A x \in live : T(x).at = x.at /\ T(x).size = x.size
        BY <1>1, <4>1
      <4> HIDE DEF live, live2
      <4> QED BY <1>2, <3>1, <4>2, CoveredSame
    <3>3. freed2 = freed
      BY <2>1 DEF FreedTo
    <3> QED BY <3>2, <3>3 DEF Tidy
  <2>2. ASSUME NEW x \in items, <<s, x.at>> = down, x.refs = 1
        PROVE  /\ offset > 0 => freed2 + Cardinality(Covered(live2)) = offset
               /\ freed2 # freed => offset > 0
               /\ freed2 \in 0 .. SegSize
    <3>1. x \in Header /\ x \in live /\ offset > 0 /\ x.size \in Nat /\ x.at \in Nat
      BY <2>2, Sizes DEF LiveIn, Tidy, Header
    <3>2. freed2 = freed + x.size
      BY <2>2 DEF FreedTo
    <3>3. \A y \in live2 : \E z \in live : y = T(z) /\ z # x
      BY <1>1, <1>2, <2>2 DEF LiveIn, Header
    <3>4. \A y \in live2 : y.at \in Nat /\ y.size \in Nat /\ y.at # x.at
      <4>1. \A z \in items : T(z).at \in Nat /\ T(z).size \in Nat /\ T(z).at = z.at
        BY <1>1 DEF Header
      <4>2. live \subseteq items
        BY DEF LiveIn
      <4> QED BY <1>3, <3>3, <4>1, <4>2
    <3>5. \A y \in live2 : y.at + y.size <= x.at \/ x.at + x.size <= y.at
      <4>1. \A z \in live : z # x => z.at + z.size <= x.at \/ x.at + x.size <= z.at
        <5>1. \A z \in live : z.at \in Nat /\ (z # x => z.at # x.at)
          BY <1>3, Sizes DEF LiveIn, Header
        <5> QED BY <3>1, <5>1 DEF Tidy, Apart
      <4>2. \A z \in live : T(z).at = z.at /\ T(z).size = z.size
        BY <1>1 DEF LiveIn
      <4> QED BY <3>3, <4>1, <4>2
    <3>6. x.at + x.size <= SegSize
      BY DEF Tidy
    <3>7. Cardinality(Covered(live2 \cup {x})) = Cardinality(Covered(live2)) + x.size
      <4> HIDE DEF live2
      <4> QED BY <3>1, <3>4, <3>5, <3>6, CoveredWith
    <3>8. Covered(live) = Covered(live2 \cup {x})
      <4>1. \A z \in live : z = x \/ T(z) \in live2
        BY <1>0, <1>1, <1>3, <2>2 DEF LiveIn, Header
      <4>2. \A z \in live : T(z).at = z.at /\ T(z).size = z.size
        BY <1>1 DEF LiveIn
      <4> HIDE DEF live, live2
      <4>3. \A z \in live : \E y \in live2 \cup {x} : y.at = z.at /\ y.size = z.size
        BY <4>1, <4>2
      <4>4. \A y \in live2 \cup {x} : \E z \in live : y.at = z.at /\ y.size = z.size
        BY <3>1, <3>3, <4>2
      <4> QED BY <4>3, <4>4, CoveredSame
    <3>9. freed + Cardinality(Covered(live)) = offset
      BY <3>1 DEF Tidy
    <3>10. Cardinality(Covered(live2)) \in Nat
      BY CoveredFinite
    <3>11. freed2 + Cardinality(Covered(live2)) = offset
      <4> HIDE DEF live, live2
      <4> QED BY <3>1, <3>2, <3>7, <3>8, <3>9, <3>10
    <3> HIDE DEF live2
    <3>12. freed2 <= offset /\ freed2 \in Nat
      BY <3>1, <3>2, <3>10, <3>11
    <3> QED BY <3>1, <3>11, <3>12, Sizes
  <2> HIDE DEF live2
  <2> QED BY <2>1, <2>2
<1>12. Tidy(items2, offset, freed2)
  BY <1>5, <1>6, <1>7, <1>8, <1>9, <1>11 DEF Tidy
<1> QED BY <1>4, <1>10, <1>11, <1>12

\* What Written makes of a segment: n units more are taken, dead ones that
\* count as freed or those of a new item.
\* The item new fits in a segment.
Fits(offset, freed, n, new) ==
    /\ offset + n <= SegSize /\ (offset = 0 => freed = 0)
    /\ new.at = offset /\ new.size = n /\ (new.refs = 1 => new.key \in Keys)
FreedAfter(freed, n, refs) == IF refs = 0 THEN freed + n ELSE freed
DeadFrom(items, o) == \A x \in items : x.at >= o => x.refs = 0
Over(items, o, n, new) == {x \in items : ~(o <= x.at /\ x.at < o + n)} \cup {new}

LEMMA TidyWrite ==
    ASSUME NEW items \in SUBSET Header, NEW offset \in 0 .. SegSize, NEW freed \in 0 .. SegSize,
           Tidy(items, offset, freed), NEW n \in 1 .. SegSize,
           NEW new \in Header, new.refs \in {0, 1}, Fits(offset, freed, n, new),
           NEW items2, items2 = Over(items, offset, n, new),
           NEW freed2, freed2 = FreedAfter(freed, n, new.refs), NEW end, end = offset + n
    PROVE  /\ items2 \in SUBSET Header
           /\ freed2 \in 0 .. SegSize
           /\ Tidy(items2, end, freed2)
<1> DEFINE refs == new.refs
           kept == {x \in items : ~(offset <= x.at /\ x.at < offset + n)}
           live == LiveIn(items, offset)
           live2 == LiveIn(items2, offset + n)
<1>0. /\ SegSize \in Nat /\ offset \in Nat /\ freed \in Nat /\ n \in Nat /\ n >= 1
      /\ offset <= SegSize - 1 /\ offset \in 0 .. SegSize - 1 /\ offset + n <= SegSize
  BY Sizes DEF Fits
<1>20. /\ new.at = offset /\ new.size = n /\ new.refs = refs /\ (refs = 1 => new.key \in Keys)
  BY DEF Fits
<1>21. refs \in {0, 1} /\ freed2 = FreedAfter(freed, n, refs)
  OBVIOUS
<1> HIDE DEF refs
<1>1. items2 = kept \cup {new}
  BY DEF Over
<1>2. \A x \in items : x.at \in Nat /\ x.size \in Nat /\ x.refs \in Nat
  BY DEF Header
<1>3. live2 = IF refs = 1 THEN live \cup {new} ELSE live
  <2>1. \A x \in items : x.at >= offset => x.refs = 0
    BY DEF Tidy
  <2>2. \A x \in kept : x.at < offset + n /\ x.refs > 0 <=> x.at < offset /\ x.refs > 0
    BY <1>0, <1>2, <2>1
  <2>3. \A x \in items : x.at < offset => x \in kept
    BY <1>0, <1>2
  <2>4. new.at < offset + n /\ (new.refs > 0 <=> refs = 1)
    BY <1>0, <1>20, <1>21, <1>1
  <2>5. \A x : x \in live2 <=> (x \in kept /\ x.at < offset /\ x.refs > 0) \/ (x = new /\ refs = 1)
    <3>1. \A x \in items2 : x \in kept \/ x = new
      BY <1>1
    <3>2. new \in items2 /\ \A x \in kept : x \in items2
      BY <1>1
    <3> HIDE DEF kept
    <3> QED BY <2>2, <2>4, <3>1, <3>2 DEF LiveIn
  <2>6. \A x : x \in live <=> x \in kept /\ x.at < offset /\ x.refs > 0
    BY <2>3 DEF LiveIn
  <2> HIDE DEF live, live2
  <2> QED BY <2>5, <2>6
<1>4. items2 \in SUBSET Header
  BY <1>1
<1>5. \A x, y \in items2 : x.at = y.at => x = y
  BY <1>0, <1>20, <1>21, <1>1, <1>2 DEF Tidy
<1>6. \A x \in items2 : x.at + x.size <= SegSize
  BY <1>0, <1>20, <1>21, <1>1 DEF Tidy
<1>7. \A x \in items2 : x.at >= offset + n => x.refs = 0
  BY <1>0, <1>20, <1>21, <1>1, <1>2 DEF Tidy
<1>8. \A x \in live : x \in items /\ x.at + x.size <= offset /\ x.key \in Keys
  BY DEF Tidy, LiveIn
<1>9. \A x \in live2 : x.at + x.size <= offset + n /\ x.key \in Keys
  <2> HIDE DEF live, live2
  <2> QED BY <1>0, <1>20, <1>21, <1>1, <1>2, <1>3, <1>8
<1>10. Apart(live2)
  <2>1. Apart(live)
    BY DEF Tidy
  <2> HIDE DEF live, live2
  <2>2. \A x, y \in live2 : x.at < y.at => x.at + x.size <= y.at
    BY <1>0, <1>20, <1>21, <1>1, <1>2, <1>3, <1>8, <2>1 DEF Apart
  <2> QED BY <2>2 DEF Apart
<1>11. freed + Cardinality(Covered(live)) = offset
  <2>1. CASE offset > 0
    BY <2>1 DEF Tidy
  <2>2. CASE offset = 0
    <3>0. freed = 0
      BY <2>2 DEF Fits
    <3>1. live = {}
      BY <1>2, <2>2 DEF LiveIn
    <3>2. Covered({}) = {}
      BY DEF Covered
    <3> HIDE DEF live
    <3> QED BY <2>2, <3>0, <3>1, <3>2, FS_EmptySet
  <2> QED BY <1>0, <2>1, <2>2
<1>12. PICK c \in Nat : c = Cardinality(Covered(live))
  BY CoveredFinite
<1>13. freed + c = offset
  BY <1>11, <1>12
<1>14. freed2 + Cardinality(Covered(live2)) = offset + n /\ freed2 \in 0 .. SegSize
  <2>1. CASE refs = 0
    <3>1. Cardinality(Covered(live2)) = c
      BY <1>0, <1>21, <1>3, <1>12, <2>1
    <3>2. freed2 = freed + n /\ freed + n + c = offset + n /\ freed + n \in 0 .. SegSize
      BY <1>0, <1>20, <1>21, <1>13, <2>1 DEF FreedAfter
    <3> QED BY <3>1, <3>2
  <2>2. CASE refs = 1
    <3>1. Cardinality(Covered(live \cup {new})) = c + n
      <4>1. \A y \in live : y.at \in Nat /\ y.size \in Nat /\ y.at + y.size <= offset
        BY <1>2, <1>8
      <4> HIDE DEF live
      <4> QED BY <1>0, <1>20, <1>21, <1>1, <1>12, <4>1, CoveredWith
    <3>2. Cardinality(Covered(live2)) = c + n
      BY <1>0, <1>21, <1>3, <2>2, <3>1
    <3>3. freed2 = freed /\ freed + (c + n) = offset + n
      BY <1>0, <1>20, <1>21, <1>13, <2>2 DEF FreedAfter
    <3> QED BY <3>2, <3>3
  <2> QED BY <1>21, <2>1, <2>2
<1>15. Tidy(items2, offset + n, freed2)
  BY <1>5, <1>6, <1>7, <1>9, <1>10, <1>14 DEF Tidy
<1> QED BY <1>4, <1>14, <1>15

\* The end of a segment that is too short for a header is freed.
LEMMA TidyClose ==
    ASSUME NEW items \in SUBSET Header, NEW offset \in 1 .. SegSize, NEW freed \in 0 .. SegSize,
           Tidy(items, offset, freed)
    PROVE  Tidy(items, SegSize, freed + (SegSize - offset))
           /\ freed + (SegSize - offset) \in 0 .. SegSize
<1>0. SegSize \in Nat /\ offset \in Nat /\ freed \in Nat /\ offset > 0
  BY Sizes
<1>1. \A x \in items : x.at < SegSize /\ x.at \in Nat /\ x.refs \in Nat
  BY Sizes DEF Header
<1>2. LiveIn(items, SegSize) = LiveIn(items, offset)
  BY <1>0, <1>1 DEF LiveIn, Tidy
<1>3. PICK c \in Nat : c = Cardinality(Covered(LiveIn(items, offset)))
  BY CoveredFinite
<1>4. freed + c = offset
  BY <1>0, <1>3 DEF Tidy
<1>5. freed + (SegSize - offset) + c = SegSize /\ freed + (SegSize - offset) \in 0 .. SegSize
  BY <1>0, <1>4
<1>6. \A x \in LiveIn(items, SegSize) : x.at + x.size <= SegSize /\ x.key \in Keys
  BY <1>2 DEF Tidy, LiveIn
<1>7. \A x \in items : x.at >= SegSize => x.refs = 0
  BY <1>0, <1>1
<1>8. Apart(LiveIn(items, SegSize))
  BY <1>2 DEF Tidy
<1>9. freed + (SegSize - offset) + Cardinality(Covered(LiveIn(items, SegSize))) = SegSize
  BY <1>2, <1>3, <1>5
<1> QED BY <1>5, <1>6, <1>7, <1>8, <1>9 DEF Tidy

\* A segment without a live item can start again.
LEMMA TidyReset ==
    ASSUME NEW items \in SUBSET Header, NEW offset \in 0 .. SegSize, NEW freed, NEW freed2,
           Tidy(items, offset, freed), LiveIn(items, offset) = {}
    PROVE  Tidy(items, 0, freed2) /\ LiveIn(items, 0) = {}
<1>1. \A x \in items : x.at \in Nat /\ x.refs \in Nat /\ x.refs = 0
  BY DEF Tidy, LiveIn, Header
<1>2. LiveIn(items, 0) = {}
  BY <1>1 DEF LiveIn
<1> QED BY <1>1, <1>2 DEF Tidy, Apart

-----------------------------------------------------------------------------
(* Items by reference. *)

Distinct(m) == \A s \in Segments : m[s] \in SUBSET Header
                   /\ \A x, y \in m[s] : x.at = y.at => x = y

LEMMA ItemIs ==
    ASSUME NEW m, Distinct(m), NEW s \in Segments, NEW x \in m[s]
    PROVE  ItemIn(m, <<s, x.at>>) = x /\ CountIn(m, <<s, x.at>>) = x.refs
<1>1. x.at \in Nat /\ \A y \in m[s] : y.at = x.at <=> y = x
  BY DEF Distinct, Header
<1>2. ItemIn(m, <<s, x.at>>) = x
  BY <1>1 DEF ItemIn
<1>3. \E y \in m[<<s, x.at>>[1]] : y.at = <<s, x.at>>[2]
  BY <1>1
<1> QED BY <1>2, <1>3 DEF CountIn

LEMMA CountedIs ==
    ASSUME NEW m, Distinct(m), NEW r \in Refs \ {NoRef}
    PROVE  /\ r = <<r[1], r[2]>> /\ r[1] \in Segments /\ r[2] \in 0 .. SegSize - 1
           /\ CountIn(m, r) \in Nat
           /\ CountIn(m, r) > 0 =>
                \E x \in m[r[1]] : x.at = r[2] /\ x.refs = CountIn(m, r) /\ x = ItemIn(m, r)
           /\ (\A x \in m[r[1]] : x.at # r[2]) => CountIn(m, r) = 0
<1>1. r = <<r[1], r[2]>> /\ r[1] \in Segments /\ r[2] \in 0 .. SegSize - 1
  BY DEF Refs
<1>2. ASSUME NEW x \in m[r[1]], x.at = r[2]
      PROVE  x = ItemIn(m, r) /\ CountIn(m, r) = x.refs
  BY <1>1, <1>2, ItemIs
<1>3. ASSUME \A x \in m[r[1]] : x.at # r[2] PROVE CountIn(m, r) = 0
  BY <1>3 DEF CountIn
<1>4. \A x \in m[r[1]] : x.refs \in Nat
  BY <1>1 DEF Distinct, Header
<1> QED BY <1>1, <1>2, <1>3, <1>4

\* Recount counts up one item and down another.
RecountsIn(m, up, down) == [s \in Segments |-> Recounts(m[s], s, up, down)]

LEMMA CountRecount ==
    ASSUME NEW m, NEW m2, Distinct(m), NEW up \in Refs, NEW down \in Refs, up # down,
           up # NoRef => CountIn(m, up) > 0, down # NoRef => CountIn(m, down) > 0,
           m2 = RecountsIn(m, up, down)
    PROVE  /\ Distinct(m2)
           /\ \A r \in Refs \ {NoRef} :
                 /\ CountIn(m2, r) = IF r = up THEN CountIn(m, r) + 1
                                     ELSE IF r = down THEN CountIn(m, r) - 1 ELSE CountIn(m, r)
                 /\ CountIn(m2, r) > 0 =>
                      CountIn(m, r) > 0 /\ ItemIn(m2, r).key = ItemIn(m, r).key
                      /\ ItemIn(m2, r).val = ItemIn(m, r).val
<1> DEFINE T(s, x) == Recounted(<<s, x.at>>, x, up, down)
<1>1. ASSUME NEW s \in Segments, NEW x \in m[s]
      PROVE  /\ T(s, x) \in Header /\ T(s, x).at = x.at
             /\ T(s, x).refs = IF <<s, x.at>> = up THEN x.refs + 1
                               ELSE IF <<s, x.at>> = down THEN x.refs - 1 ELSE x.refs
             /\ T(s, x).refs > 0 => x.refs > 0 /\ T(s, x).key = x.key /\ T(s, x).val = x.val
  <2>1. x \in Header
    BY DEF Distinct
  <2>2. <<s, x.at>> # NoRef /\ <<s, x.at>> \in Refs
    BY <2>1, NoSegment DEF NoRef, Refs, Header
  <2>3. CountIn(m, <<s, x.at>>) = x.refs
    BY ItemIs
  <2>4. <<s, x.at>> \in {up, down} => x.refs > 0
    BY <2>2, <2>3
  <2> QED BY <2>1, <2>4, RecountedIs
<1> HIDE DEF T
<1>2. \A s \in Segments : m2[s] = {T(s, x) : x \in m[s]}
  BY DEF T, RecountsIn, Recounts
<1>3. Distinct(m2)
  BY <1>1, <1>2 DEF Distinct
<1>4. ASSUME NEW r \in Refs \ {NoRef}
      PROVE  /\ CountIn(m2, r) = IF r = up THEN CountIn(m, r) + 1
                                 ELSE IF r = down THEN CountIn(m, r) - 1 ELSE CountIn(m, r)
             /\ CountIn(m2, r) > 0 =>
                  CountIn(m, r) > 0 /\ ItemIn(m2, r).key = ItemIn(m, r).key
                  /\ ItemIn(m2, r).val = ItemIn(m, r).val
  <2>1. r = <<r[1], r[2]>> /\ r[1] \in Segments
    BY CountedIs
  <2>2. CASE \E x \in m[r[1]] : x.at = r[2]
    <3>1. PICK x \in m[r[1]] : x.at = r[2]
      BY <2>2
    <3>2. ItemIn(m, r) = x /\ CountIn(m, r) = x.refs
      BY <2>1, <3>1, ItemIs
    <3>3. T(r[1], x) \in m2[r[1]] /\ T(r[1], x).at = r[2]
      BY <1>1, <1>2, <2>1, <3>1
    <3>4. ItemIn(m2, r) = T(r[1], x) /\ CountIn(m2, r) = T(r[1], x).refs
      BY <1>3, <2>1, <3>3, ItemIs
    <3> QED BY <1>1, <2>1, <3>1, <3>2, <3>4
  <2>3. CASE \A x \in m[r[1]] : x.at # r[2]
    <3>1. CountIn(m, r) = 0
      BY <2>3, CountedIs
    <3>2. \A y \in m2[r[1]] : y.at # r[2]
      BY <1>1, <1>2, <2>1, <2>3
    <3>3. CountIn(m2, r) = 0
      BY <1>3, <3>2, CountedIs
    <3> QED BY <3>1, <3>3
  <2> QED BY <2>2, <2>3
<1> QED BY <1>3, <1>4

\* A new item where nothing was counted.
OverIn(m, s, o, n, new) == [m EXCEPT ![s] = Over(m[s], o, n, new)]

LEMMA CountWrite ==
    ASSUME NEW m, NEW m2, Distinct(m), NEW s \in Segments, NEW offset \in 0 .. SegSize - 1,
           DeadFrom(m[s], offset),
           NEW n \in 1 .. SegSize, NEW new \in Header, new.at = offset,
           m2 = OverIn(m, s, offset, n, new),
           m \in [Segments -> SUBSET Header]
    PROVE  /\ Distinct(m2) /\ <<s, offset>> \in Refs \ {NoRef}
           /\ CountIn(m, <<s, offset>>) = 0
           /\ CountIn(m2, <<s, offset>>) = new.refs /\ ItemIn(m2, <<s, offset>>) = new
           /\ \A r \in Refs \ {NoRef, <<s, offset>>} :
                 /\ CountIn(m2, r) = CountIn(m, r)
                 /\ CountIn(m, r) > 0 => ItemIn(m2, r) = ItemIn(m, r)
<1>0. SegSize \in Nat /\ offset \in Nat /\ n \in Nat /\ n >= 1
  BY Sizes
<1>1. <<s, offset>> \in Refs \ {NoRef}
  BY NoSegment DEF Refs, NoRef
<1>2. /\ m2[s] = {x \in m[s] : ~(offset <= x.at /\ x.at < offset + n)} \cup {new}
      /\ \A t \in Segments \ {s} : m2[t] = m[t]
  BY DEF Over, OverIn
<1>3. \A x \in m[s] : x.at \in Nat /\ x.refs \in Nat
  BY DEF Distinct, Header
<1>4. Distinct(m2)
  BY <1>0, <1>2, <1>3 DEF Distinct
<1>5. CountIn(m, <<s, offset>>) = 0
  <2>1. ASSUME CountIn(m, <<s, offset>>) > 0 PROVE FALSE
    BY <1>0, <1>1, <2>1, CountedIs DEF DeadFrom
  <2> QED BY <1>1, <2>1, CountedIs
<1>6. CountIn(m2, <<s, offset>>) = new.refs /\ ItemIn(m2, <<s, offset>>) = new
  <2>1. new \in m2[s]
    BY <1>2
  <2>2. ItemIn(m2, <<s, new.at>>) = new /\ CountIn(m2, <<s, new.at>>) = new.refs
    BY <1>4, <2>1, ItemIs
  <2> QED BY <2>2
<1>7. ASSUME NEW r \in Refs \ {NoRef, <<s, offset>>}
      PROVE  /\ CountIn(m2, r) = CountIn(m, r)
             /\ CountIn(m, r) > 0 => ItemIn(m2, r) = ItemIn(m, r)
  <2>1. r = <<r[1], r[2]>> /\ r[1] \in Segments /\ r[2] \in Nat /\ CountIn(m, r) \in Nat
        /\ CountIn(m2, r) \in Nat
    BY <1>4, CountedIs, Sizes
  <2>2. CASE r[1] # s
    BY <1>2, <2>1, <2>2 DEF CountIn, ItemIn
  <2>3. CASE r[1] = s /\ CountIn(m, r) > 0
    <3>1. PICK x \in m[s] : x.at = r[2] /\ x.refs = CountIn(m, r) /\ x = ItemIn(m, r)
      BY <2>3, CountedIs
    <3>2. x.refs # 0 /\ ~(offset <= x.at)
      BY <1>0, <1>3, <2>3, <3>1 DEF DeadFrom
    <3>3. x \in m2[s]
      BY <1>2, <3>1, <3>2
    <3>4. ItemIn(m2, <<s, x.at>>) = x /\ CountIn(m2, <<s, x.at>>) = x.refs
      BY <1>4, <3>3, ItemIs
    <3>5. r = <<s, x.at>>
      BY <2>1, <2>3, <3>1
    <3> QED BY <3>1, <3>4, <3>5
  <2>4. CASE r[1] = s /\ CountIn(m, r) = 0
    <3>1. ASSUME CountIn(m2, r) > 0 PROVE FALSE
      <4>0. \E x \in m2[r[1]] : x.at = r[2] /\ x.refs = CountIn(m2, r)
        <5>1. r \in Refs \ {NoRef}
          OBVIOUS
        <5>2. CountIn(m2, r) > 0 =>
                \E x \in m2[r[1]] : x.at = r[2] /\ x.refs = CountIn(m2, r) /\ x = ItemIn(m2, r)
          BY <1>4, <5>1, CountedIs, Zenon
        <5> QED BY <3>1, <5>2, Zenon
      <4>1. PICK x \in m2[s] : x.at = r[2] /\ x.refs = CountIn(m2, r)
        BY <2>4, <4>0
      <4>2. x # new
        BY <1>7, <2>1, <2>4, <4>1
      <4>3. x \in m[s]
        BY <1>2, <4>1, <4>2
      <4>4. CountIn(m, r) = x.refs
        BY <2>1, <2>4, <4>1, <4>3, ItemIs
      <4> QED BY <2>4, <3>1, <4>1, <4>4
    <3> QED BY <2>1, <2>4, <3>1
  <2> QED BY <2>1, <2>2, <2>3, <2>4
<1> QED BY <1>1, <1>4, <1>5, <1>6, <1>7

-----------------------------------------------------------------------------
(* How many refer to an item.  The table, the queues and the workers are    *)
(* parameters, so that a fact holds before a step and after it.             *)

One(a, r) == IF a = r THEN 1 ELSE 0
Here(f, i, j, r) == IF j \in 1 .. Len(f[i]) /\ f[i][j] = r THEN 1 ELSE 0

Listed(S, f, r) ==
    {x \in UNION {{<<a, j>> : j \in 1 .. Len(f[a])} : a \in S} : f[x[1]][x[2]] = r}

\* f and g agree but for list i, where g has one position less at the front,
Shifted(S, f, g, i) ==
    /\ \A a \in S \ {i} : f[a] = g[a]
    /\ Len(f[i]) \in Nat \ {0} /\ Len(g[i]) = Len(f[i]) - 1
    /\ \A j \in 1 .. Len(g[i]) : g[i][j] = f[i][j + 1]
\* or which may differ at its position j.
DifferAt(S, f, g, i, j) ==
    /\ \A a \in S \ {i} : f[a] = g[a]
    /\ \A l \in 1 .. Len(f[i]) : l # j => l \in 1 .. Len(g[i]) /\ g[i][l] = f[i][l]
    /\ \A l \in 1 .. Len(g[i]) : l # j => l \in 1 .. Len(f[i])

SetSlot(T, b, i, n) == [T EXCEPT ![b].slots[i] = n]
SetOver(T, b, j, n) == [T EXCEPT ![b].over[j] = n]
Insert(T, b, i, n) ==
    [T EXCEPT ![b].slots[i] = n,
              ![b].over = IF T[b].slots[i] = NoRef THEN T[b].over
                          ELSE <<T[b].slots[i]>> \o T[b].over]

InSlots(T, r) == {x \in Buckets \X Slots : T[x[1]].slots[x[2]] = r}
InOver(T, r) == Listed(Buckets, [b \in Buckets |-> T[b].over], r)
InQueues(q, r) == Listed(Workers, q, r)
AsIt(t, r) == {w \in Workers : t[w].it = r}
AsNit(t, r) == {w \in Workers : t[w].nit = r}

TableCount(T, r) == Cardinality(InSlots(T, r)) + Cardinality(InOver(T, r))
ThreadCount(t, r) == Cardinality(AsIt(t, r)) + Cardinality(AsNit(t, r))
UsesIn(T, q, t, r) ==
    Cardinality(InSlots(T, r)) + Cardinality(InOver(T, r)) + Cardinality(InQueues(q, r))
    + Cardinality(AsIt(t, r)) + Cardinality(AsNit(t, r))

Tables == [Buckets -> [slots : [Slots -> Refs], over : Seq(Refs)]]
Queues == [Workers -> Seq(Refs)]

LEMMA NonEmptyCount ==
    ASSUME NEW A, IsFiniteSet(A)
    PROVE  Cardinality(A) \in Nat /\ (Cardinality(A) > 0 <=> A # {})
BY FS_EmptySet, FS_CardinalityType

LEMMA ListedFinite ==
    ASSUME NEW S, IsFiniteSet(S), NEW V, NEW f \in [S -> Seq(V)], NEW r
    PROVE  IsFiniteSet(Listed(S, f, r))
<1> DEFINE P(a) == {<<a, j>> : j \in 1 .. Len(f[a])}
           Ps == {P(a) : a \in S}
<1>1. \A a \in S : IsFiniteSet(P(a))
  <2> TAKE a \in S
  <2> DEFINE g == [j \in 1 .. Len(f[a]) |-> <<a, j>>]
  <2>1. Len(f[a]) \in Nat
    OBVIOUS
  <2>2. IsFiniteSet(1 .. Len(f[a]))
    BY <2>1, FS_Interval
  <2>3. g \in Surjection(1 .. Len(f[a]), P(a))
    BY Fun_IsSurj
  <2> HIDE DEF g, P
  <2> QED BY <2>2, <2>3, FS_Surjection
<1> HIDE DEF P
<1>2. IsFiniteSet(Ps)
  <2> DEFINE g == [a \in S |-> P(a)]
  <2>1. g \in Surjection(S, Ps)
    BY Fun_IsSurj
  <2> HIDE DEF g, Ps
  <2> QED BY <2>1, FS_Surjection
<1>3. IsFiniteSet(UNION Ps)
  BY <1>1, <1>2, FS_UNION
<1>4. Listed(S, f, r) \in SUBSET (UNION Ps)
  BY DEF Listed, P
<1> HIDE DEF Ps
<1> QED BY <1>3, <1>4, FS_Subset

LEMMA ListedIs ==
    ASSUME NEW S, NEW f, NEW r
    PROVE  \A x : x \in Listed(S, f, r) <=>
               \E a \in S : \E j \in 1 .. Len(f[a]) : x = <<a, j>> /\ f[a][j] = r
BY DEF Listed

\* One position of one list taken away at the front, and the others moved up.
LEMMA CountTail ==
    ASSUME NEW S, NEW f, NEW g, NEW i \in S, NEW r,
           Shifted(S, f, g, i), IsFiniteSet(Listed(S, f, r))
    PROVE  /\ IsFiniteSet(Listed(S, g, r))
           /\ Cardinality(Listed(S, f, r)) \in Nat /\ Cardinality(Listed(S, g, r)) \in Nat
           /\ Cardinality(Listed(S, f, r)) = Cardinality(Listed(S, g, r)) + One(f[i][1], r)
<1> DEFINE A == Listed(S, f, r)
           B == Listed(S, g, r)
           C == A \ {<<i, 1>>}
           up == [x \in B |-> IF x[1] = i THEN <<i, x[2] + 1>> ELSE x]
<1>0. IsFiniteSet(A)
  OBVIOUS
<1>9. /\ \A a \in S \ {i} : f[a] = g[a]
      /\ Len(f[i]) \in Nat \ {0} /\ Len(g[i]) = Len(f[i]) - 1
      /\ \A j \in 1 .. Len(g[i]) : g[i][j] = f[i][j + 1]
  BY DEF Shifted
<1>1. \A x : x \in A <=> \E a \in S : \E j \in 1 .. Len(f[a]) : x = <<a, j>> /\ f[a][j] = r
  BY DEF Listed
<1>2. \A x : x \in B <=> \E a \in S : \E j \in 1 .. Len(g[a]) : x = <<a, j>> /\ g[a][j] = r
  BY DEF Listed
<1> HIDE DEF A, B
<1>3. up \in Bijection(B, C)
  <2>1. ASSUME NEW x \in B PROVE up[x] \in C
    <3>1. PICK a \in S : \E j \in 1 .. Len(g[a]) : x = <<a, j>> /\ g[a][j] = r
      BY <1>9, <1>2
    <3>9. PICK j \in 1 .. Len(g[a]) : x = <<a, j>> /\ g[a][j] = r
      BY <1>9, <3>1
    <3>2. CASE a = i
      <4>1. up[x] = <<i, j + 1>> /\ j + 1 \in 1 .. Len(f[i]) /\ f[i][j + 1] = r /\ j + 1 # 1
        BY <1>9, <3>9, <3>2
      <4> QED BY <1>9, <1>1, <4>1
    <3>3. CASE a # i
      <4>1. up[x] = <<a, j>> /\ f[a] = g[a]
        BY <1>9, <3>9, <3>3
      <4>2. <<a, j>> \in A /\ <<a, j>> # <<i, 1>>
        BY <1>9, <1>1, <3>9, <3>3, <4>1
      <4> QED BY <1>9, <4>1, <4>2
    <3> QED BY <1>9, <3>2, <3>3
  <2>2. ASSUME NEW x \in B, NEW y \in B, up[x] = up[y] PROVE x = y
    <3>1. PICK a \in S : \E j \in 1 .. Len(g[a]) : x = <<a, j>>
      BY <1>9, <1>2
    <3>2. PICK b \in S : \E k \in 1 .. Len(g[b]) : y = <<b, k>>
      BY <1>9, <1>2
    <3>7. PICK j \in 1 .. Len(g[a]) : x = <<a, j>>
      BY <1>9, <3>1
    <3>8. PICK k \in 1 .. Len(g[b]) : y = <<b, k>>
      BY <1>9, <3>2
    <3>3. up[x] = (IF a = i THEN <<i, j + 1>> ELSE <<a, j>>)
      BY <1>9, <3>7
    <3>4. up[y] = (IF b = i THEN <<i, k + 1>> ELSE <<b, k>>)
      BY <1>9, <3>8
    <3>5. j \in Int /\ k \in Int
      OBVIOUS
    <3>6. a = b /\ j = k
      BY <1>9, <2>2, <3>3, <3>4, <3>5
    <3> QED BY <1>9, <3>7, <3>8, <3>6
  <2>3. ASSUME NEW y \in C PROVE \E x \in B : up[x] = y
    <3>1. PICK a \in S : \E j \in 1 .. Len(f[a]) : y = <<a, j>> /\ f[a][j] = r
      BY <1>9, <1>1
    <3>9. PICK j \in 1 .. Len(f[a]) : y = <<a, j>> /\ f[a][j] = r
      BY <1>9, <3>1
    <3>2. CASE a = i
      <4>1. j # 1
        BY <1>9, <3>9, <3>2
      <4>2. j - 1 \in 1 .. Len(g[i]) /\ (j - 1) + 1 = j
        BY <1>9, <3>2, <4>1
      <4>3. g[i][j - 1] = r
        BY <1>9, <3>9, <3>2, <4>2
      <4>4. <<i, j - 1>> \in B
        BY <1>9, <1>2, <4>2, <4>3
      <4>5. up[<<i, j - 1>>] = y
        BY <1>9, <3>9, <3>2, <4>2, <4>4
      <4> QED BY <1>9, <4>4, <4>5
    <3>3. CASE a # i
      <4>1. <<a, j>> \in B
        BY <1>9, <1>2, <3>9, <3>3
      <4>2. up[<<a, j>>] = y
        BY <1>9, <3>9, <3>3, <4>1
      <4> QED BY <1>9, <4>1, <4>2
    <3> QED BY <1>9, <3>2, <3>3
  <2> HIDE DEF up
  <2>4. DOMAIN up = B /\ up = [x \in B |-> up[x]]
    BY DEF up
  <2>5. up \in [B -> C]
    BY <2>1, <2>4
  <2> QED BY <2>2, <2>3, <2>5, Fun_IsBij
<1>4. <<i, 1>> \in A <=> f[i][1] = r
  <2>1. 1 \in 1 .. Len(f[i])
    BY <1>9
  <2> QED BY <1>1, <2>1
<1>5. IsFiniteSet(C) /\ Cardinality(C) = (IF <<i, 1>> \in A THEN Cardinality(A) - 1 ELSE Cardinality(A))
  BY <1>0, FS_RemoveElement
<1>6. ExistsBijection(C, B)
  <2>1. ExistsBijection(B, C)
    BY <1>3 DEF ExistsBijection
  <2> QED BY <2>1, Fun_ExistsBijSymmetric
<1>7. IsFiniteSet(B) /\ Cardinality(B) = Cardinality(C)
  BY <1>5, <1>6, FS_Bijection
<1>8. Cardinality(A) \in Nat /\ Cardinality(B) \in Nat
  BY <1>0, <1>5, <1>7, FS_CardinalityType
<1> QED BY <1>4, <1>5, <1>7, <1>8 DEF A, B, One

\* One position of one list has another reference, or is new.
LEMMA CountListed ==
    ASSUME NEW S, NEW f, NEW g, NEW i \in S, NEW j \in Nat, NEW r,
           IsFiniteSet(Listed(S, f, r)),
           DifferAt(S, f, g, i, j)
    PROVE  /\ IsFiniteSet(Listed(S, g, r))
           /\ Cardinality(Listed(S, f, r)) \in Nat /\ Cardinality(Listed(S, g, r)) \in Nat
           /\ Cardinality(Listed(S, g, r)) + Here(f, i, j, r)
                = Cardinality(Listed(S, f, r)) + Here(g, i, j, r)
<1> DEFINE A == Listed(S, f, r)
           B == Listed(S, g, r)
<1>1. \A x : x \in A <=> \E a \in S : \E l \in 1 .. Len(f[a]) : x = <<a, l>> /\ f[a][l] = r
  BY ListedIs
<1>2. \A x : x \in B <=> \E a \in S : \E l \in 1 .. Len(g[a]) : x = <<a, l>> /\ g[a][l] = r
  BY ListedIs
<1>9. /\ \A a \in S \ {i} : f[a] = g[a]
      /\ \A l \in 1 .. Len(f[i]) : l # j => l \in 1 .. Len(g[i]) /\ g[i][l] = f[i][l]
      /\ \A l \in 1 .. Len(g[i]) : l # j => l \in 1 .. Len(f[i])
  BY DEF DifferAt
<1> HIDE DEF A, B
<1>3. A \ {<<i, j>>} \subseteq B \ {<<i, j>>}
  BY <1>1, <1>2, <1>9
<1>4. B \ {<<i, j>>} \subseteq A \ {<<i, j>>}
  <2> SUFFICES ASSUME NEW x \in B, x # <<i, j>> PROVE x \in A
    OBVIOUS
  <2>1. PICK a \in S : \E l \in 1 .. Len(g[a]) : x = <<a, l>> /\ g[a][l] = r
    BY <1>2
  <2>2. PICK l \in 1 .. Len(g[a]) : x = <<a, l>> /\ g[a][l] = r
    BY <2>1
  <2>3. CASE a = i
    <3>1. l # j /\ l \in 1 .. Len(f[i]) /\ g[i][l] = f[i][l]
      BY <1>9, <2>2, <2>3
    <3> QED BY <1>1, <2>2, <2>3, <3>1
  <2>4. CASE a # i
    BY <1>1, <1>9, <2>2, <2>4
  <2> QED BY <2>3, <2>4
<1>5. A \ {<<i, j>>} = B \ {<<i, j>>}
  BY <1>3, <1>4
<1>6. /\ IsFiniteSet(B) /\ Cardinality(A) \in Nat /\ Cardinality(B) \in Nat
      /\ Cardinality(B) + (IF <<i, j>> \in A THEN 1 ELSE 0)
           = Cardinality(A) + (IF <<i, j>> \in B THEN 1 ELSE 0)
  BY <1>5, SameButOne DEF A
<1>7. <<i, j>> \in A <=> j \in 1 .. Len(f[i]) /\ f[i][j] = r
  BY <1>1
<1>8. <<i, j>> \in B <=> j \in 1 .. Len(g[i]) /\ g[i][j] = r
  BY <1>2
<1> QED BY <1>6, <1>7, <1>8 DEF A, B, Here

LEMMA PartsFinite ==
    ASSUME NEW T \in Tables, NEW q \in Queues, NEW t, NEW r
    PROVE  /\ IsFiniteSet(InSlots(T, r)) /\ IsFiniteSet(InOver(T, r))
           /\ IsFiniteSet(InQueues(q, r)) /\ IsFiniteSet(AsIt(t, r)) /\ IsFiniteSet(AsNit(t, r))
<1>1. IsFiniteSet(Slots)
  BY Sizes, FS_Interval DEF Slots
<1>2. IsFiniteSet(Buckets \X Slots)
  BY <1>1, Sizes, FS_Product
<1>3. IsFiniteSet(InSlots(T, r))
  <2>1. InSlots(T, r) \in SUBSET (Buckets \X Slots)
    BY DEF InSlots
  <2> QED BY <1>2, <2>1, FS_Subset
<1>4. IsFiniteSet(InOver(T, r))
  <2> DEFINE f == [b \in Buckets |-> T[b].over]
  <2>1. f \in [Buckets -> Seq(Refs)]
    BY DEF Tables
  <2> HIDE DEF f
  <2>2. IsFiniteSet(Listed(Buckets, f, r))
    BY <2>1, Sizes, ListedFinite
  <2> QED BY <2>2 DEF InOver, f
<1>5. IsFiniteSet(InQueues(q, r))
  BY Sizes, ListedFinite DEF InQueues, Queues
<1>6. AsIt(t, r) \in SUBSET Workers /\ AsNit(t, r) \in SUBSET Workers
  BY DEF AsIt, AsNit
<1>7. IsFiniteSet(AsIt(t, r)) /\ IsFiniteSet(AsNit(t, r))
  BY <1>6, Sizes, FS_Subset
<1> QED BY <1>3, <1>4, <1>5, <1>7

LEMMA UsesTyped ==
    ASSUME NEW T \in Tables, NEW q \in Queues, NEW t, NEW r
    PROVE  /\ TableCount(T, r) \in Nat /\ Cardinality(InQueues(q, r)) \in Nat
           /\ ThreadCount(t, r) \in Nat /\ UsesIn(T, q, t, r) \in Nat
<1>1. /\ Cardinality(InSlots(T, r)) \in Nat /\ Cardinality(InOver(T, r)) \in Nat
      /\ Cardinality(InQueues(q, r)) \in Nat /\ Cardinality(AsIt(t, r)) \in Nat
      /\ Cardinality(AsNit(t, r)) \in Nat
  BY PartsFinite, FS_CardinalityType
<1> QED BY <1>1 DEF TableCount, ThreadCount, UsesIn

LEMMA OverIs ==
    ASSUME NEW T, NEW r
    PROVE  {x \in UNION {{<<b, j>> : j \in 1 .. Len(T[b].over)} : b \in Buckets} :
               T[x[1]].over[x[2]] = r} = InOver(T, r)
<1> DEFINE f == [b \in Buckets |-> T[b].over]
           P == UNION {{<<b, j>> : j \in 1 .. Len(T[b].over)} : b \in Buckets}
<1>1. P = UNION {{<<b, j>> : j \in 1 .. Len(f[b])} : b \in Buckets}
  OBVIOUS
<1>2. \A x \in P : T[x[1]].over = f[x[1]]
  OBVIOUS
<1> QED BY <1>1, <1>2 DEF InOver, Listed

LEMMA UsesAre == \A r : Uses(r) = UsesIn(table, cq, th, r)
BY OverIs, Zenon DEF Uses, Overflow, Queue, UsesIn, InSlots, InQueues, Listed, AsIt, AsNit

LEMMA UsesAreNext == \A r : Uses(r)' = UsesIn(table', cq', th', r)
BY OverIs, Zenon DEF Uses, Overflow, Queue, UsesIn, InSlots, InQueues, Listed, AsIt, AsNit

\* The parts of it that change on their own.
LEMMA UsesSum ==
    ASSUME NEW T \in Tables, NEW q \in Queues, NEW t, NEW r
    PROVE  UsesIn(T, q, t, r) = TableCount(T, r) + Cardinality(InQueues(q, r)) + ThreadCount(t, r)
<1>1. /\ Cardinality(InSlots(T, r)) \in Nat /\ Cardinality(InOver(T, r)) \in Nat
      /\ Cardinality(InQueues(q, r)) \in Nat /\ Cardinality(AsIt(t, r)) \in Nat
      /\ Cardinality(AsNit(t, r)) \in Nat
  BY PartsFinite, FS_CardinalityType
<1> QED BY <1>1 DEF TableCount, ThreadCount, UsesIn

\* An item is counted when somebody refers to it, and only then.
UsedIn(T, q, t, r) ==
    \/ \E b \in Buckets : \E i \in Slots : T[b].slots[i] = r
    \/ \E b \in Buckets : \E j \in 1 .. Len(T[b].over) : T[b].over[j] = r
    \/ \E w \in Workers : \E j \in 1 .. Len(q[w]) : q[w][j] = r
    \/ \E w \in Workers : t[w].it = r \/ t[w].nit = r

LEMMA UsedCounts ==
    ASSUME NEW T \in Tables, NEW q \in Queues, NEW t, NEW r
    PROVE  UsesIn(T, q, t, r) > 0 <=> UsedIn(T, q, t, r)
<1>1. InSlots(T, r) # {} <=> \E b \in Buckets : \E i \in Slots : T[b].slots[i] = r
  <2>1. \A b \in Buckets : \A i \in Slots : <<b, i>> \in InSlots(T, r) <=> T[b].slots[i] = r
    BY DEF InSlots
  <2>2. \A x \in InSlots(T, r) : x \in Buckets \X Slots /\ T[x[1]].slots[x[2]] = r
    BY DEF InSlots
  <2>3. ASSUME InSlots(T, r) # {} PROVE \E b \in Buckets : \E i \in Slots : T[b].slots[i] = r
    BY <2>2, <2>3
  <2> QED BY <2>1, <2>3
<1>2. InOver(T, r) # {} <=> \E b \in Buckets : \E j \in 1 .. Len(T[b].over) : T[b].over[j] = r
  <2> DEFINE f == [b \in Buckets |-> T[b].over]
  <2>1. \A x : x \in Listed(Buckets, f, r) <=>
               \E b \in Buckets : \E j \in 1 .. Len(f[b]) : x = <<b, j>> /\ f[b][j] = r
    BY ListedIs
  <2>2. \A b \in Buckets : f[b] = T[b].over
    OBVIOUS
  <2> HIDE DEF f
  <2>3. InOver(T, r) = Listed(Buckets, f, r)
    BY DEF InOver, f
  <2>4. InOver(T, r) # {} <=> \E b \in Buckets : \E j \in 1 .. Len(f[b]) : f[b][j] = r
    BY <2>1, <2>3, Zenon
  <2> QED BY <2>2, <2>4
<1>3. InQueues(q, r) # {} <=> \E w \in Workers : \E j \in 1 .. Len(q[w]) : q[w][j] = r
  <2>1. \A x : x \in Listed(Workers, q, r) <=>
               \E w \in Workers : \E j \in 1 .. Len(q[w]) : x = <<w, j>> /\ q[w][j] = r
    BY ListedIs
  <2> QED BY <2>1, Zenon DEF InQueues
<1>4. AsIt(t, r) # {} \/ AsNit(t, r) # {} <=> \E w \in Workers : t[w].it = r \/ t[w].nit = r
  BY DEF AsIt, AsNit
<1>5. /\ Cardinality(InSlots(T, r)) \in Nat /\ (Cardinality(InSlots(T, r)) > 0 <=> InSlots(T, r) # {})
      /\ Cardinality(InOver(T, r)) \in Nat /\ (Cardinality(InOver(T, r)) > 0 <=> InOver(T, r) # {})
      /\ Cardinality(InQueues(q, r)) \in Nat /\ (Cardinality(InQueues(q, r)) > 0 <=> InQueues(q, r) # {})
      /\ Cardinality(AsIt(t, r)) \in Nat /\ (Cardinality(AsIt(t, r)) > 0 <=> AsIt(t, r) # {})
      /\ Cardinality(AsNit(t, r)) \in Nat /\ (Cardinality(AsNit(t, r)) > 0 <=> AsNit(t, r) # {})
  BY PartsFinite, NonEmptyCount
<1>6. UsesIn(T, q, t, r) > 0 <=> \/ InSlots(T, r) # {} \/ InOver(T, r) # {} \/ InQueues(q, r) # {}
                                 \/ AsIt(t, r) # {} \/ AsNit(t, r) # {}
  BY <1>5 DEF UsesIn, TableCount, ThreadCount
<1> QED BY <1>1, <1>2, <1>3, <1>4, <1>6 DEF UsedIn

\* A slot of the table is given another reference,
LEMMA SlotCount ==
    ASSUME NEW T \in Tables, NEW b \in Buckets, NEW i \in Slots, NEW n \in Refs, NEW r,
           NEW T2, T2 = SetSlot(T, b, i, n)
    PROVE  /\ T2 \in Tables
           /\ TableCount(T2, r) + One(T[b].slots[i], r) = TableCount(T, r) + One(n, r)
<1>1. T2 \in Tables
  BY DEF Tables, SetSlot
<1>2. /\ \A c \in Buckets : T2[c].over = T[c].over
      /\ T2[b].slots[i] = n
      /\ \A x \in Buckets \X Slots : x # <<b, i>> => T2[x[1]].slots[x[2]] = T[x[1]].slots[x[2]]
  BY DEF Tables, SetSlot
<1>3. InOver(T2, r) = InOver(T, r)
  <2>1. [c \in Buckets |-> T2[c].over] = [c \in Buckets |-> T[c].over]
    BY <1>2
  <2> QED BY <2>1 DEF InOver
<1>4. InSlots(T, r) \ {<<b, i>>} = InSlots(T2, r) \ {<<b, i>>}
  BY <1>2 DEF InSlots
<1>5. (<<b, i>> \in InSlots(T, r) <=> T[b].slots[i] = r) /\ (<<b, i>> \in InSlots(T2, r) <=> n = r)
  BY <1>2 DEF InSlots
<1>6. Cardinality(InSlots(T, r)) \in Nat /\ Cardinality(InSlots(T2, r)) \in Nat
      /\ Cardinality(InSlots(T2, r)) + (IF <<b, i>> \in InSlots(T, r) THEN 1 ELSE 0)
           = Cardinality(InSlots(T, r)) + (IF <<b, i>> \in InSlots(T2, r) THEN 1 ELSE 0)
  <2>1. IsFiniteSet(InSlots(T, r))
    <3>1. PICK q \in Queues : TRUE
      <4>1. [w \in Workers |-> << >>] \in Queues
        BY DEF Queues
      <4> QED BY <4>1
    <3> QED BY PartsFinite
  <2> DEFINE A == InSlots(T, r)
             B == InSlots(T2, r)
             x == <<b, i>>
  <2>2. IsFiniteSet(A) /\ A \ {x} = B \ {x}
    BY <1>4, <2>1
  <2> HIDE DEF A, B, x
  <2>3. /\ Cardinality(A) \in Nat /\ Cardinality(B) \in Nat
        /\ Cardinality(B) + (IF x \in A THEN 1 ELSE 0) = Cardinality(A) + (IF x \in B THEN 1 ELSE 0)
    BY <2>2, SameButOne
  <2> QED BY <2>3 DEF A, B, x
<1>7. Cardinality(InOver(T, r)) \in Nat
  <2>1. [w \in Workers |-> << >>] \in Queues
    BY DEF Queues
  <2> QED BY <2>1, PartsFinite, FS_CardinalityType
<1> QED BY <1>1, <1>3, <1>5, <1>6, <1>7 DEF TableCount, One

\* an overflowing item is,
LEMMA OverCount ==
    ASSUME NEW T \in Tables, NEW b \in Buckets, NEW j \in 1 .. Len(T[b].over), NEW n \in Refs,
           NEW r, NEW T2, T2 = SetOver(T, b, j, n)
    PROVE  /\ T2 \in Tables
           /\ TableCount(T2, r) + One(T[b].over[j], r) = TableCount(T, r) + One(n, r)
<1> DEFINE f == [c \in Buckets |-> T[c].over]
           g == [c \in Buckets |-> T2[c].over]
<1>0. T[b].over \in Seq(Refs) /\ T2 = [T EXCEPT ![b] = [T[b] EXCEPT !.over = [T[b].over EXCEPT ![j] = n]]]
  BY DEF Tables, SetOver
<1>1. [T[b].over EXCEPT ![j] = n] \in Seq(Refs) /\ Len([T[b].over EXCEPT ![j] = n]) = Len(T[b].over)
      /\ [T[b].over EXCEPT ![j] = n][j] = n
      /\ \A l \in 1 .. Len(T[b].over) : l # j => [T[b].over EXCEPT ![j] = n][l] = T[b].over[l]
  BY <1>0, ExceptSeq
<1> DEFINE o == [T[b].over EXCEPT ![j] = n]
<1>2. o \in Seq(Refs) /\ Len(o) = Len(T[b].over) /\ o[j] = n
      /\ \A l \in 1 .. Len(T[b].over) : l # j => o[l] = T[b].over[l]
  BY <1>1
<1>3. T2 = [T EXCEPT ![b] = [T[b] EXCEPT !.over = o]]
  BY <1>0
<1> HIDE DEF o
<1>4. T2 \in Tables /\ T2[b].over = o /\ (\A c \in Buckets \ {b} : T2[c] = T[c])
      /\ \A c \in Buckets : T2[c].slots = T[c].slots
  <2> DEFINE e == [T[b] EXCEPT !.over = o]
  <2>1. e \in [slots : [Slots -> Refs], over : Seq(Refs)] /\ e.over = o /\ e.slots = T[b].slots
    BY <1>2 DEF Tables
  <2>2. T2 = [T EXCEPT ![b] = e]
    BY <1>3
  <2> HIDE DEF e
  <2> QED BY <2>1, <2>2 DEF Tables
<1>5. InSlots(T2, r) = InSlots(T, r)
  BY <1>4 DEF InSlots
<1>6. f[b] = T[b].over /\ g[b] = o /\ \A a \in Buckets \ {b} : f[a] = g[a]
  BY <1>4
<1> HIDE DEF f, g
<1>7. [w \in Workers |-> << >>] \in Queues
  BY DEF Queues
<1>8. IsFiniteSet(Listed(Buckets, f, r)) /\ Cardinality(InSlots(T, r)) \in Nat
  BY <1>7, PartsFinite, FS_CardinalityType DEF InOver, f
<1>9. j \in Nat /\ j \in 1 .. Len(g[b]) /\ j \in 1 .. Len(f[b])
  BY <1>2, <1>6
<1>10. /\ Cardinality(Listed(Buckets, f, r)) \in Nat /\ Cardinality(Listed(Buckets, g, r)) \in Nat
       /\ Cardinality(Listed(Buckets, g, r)) + Here(f, b, j, r)
            = Cardinality(Listed(Buckets, f, r)) + Here(g, b, j, r)
  <2>1. DifferAt(Buckets, f, g, b, j)
    BY <1>2, <1>6 DEF DifferAt
  <2> QED BY <1>8, <1>9, <2>1, CountListed
<1>11. InOver(T, r) = Listed(Buckets, f, r) /\ InOver(T2, r) = Listed(Buckets, g, r)
  BY DEF InOver, f, g
<1> QED BY <1>2, <1>4, <1>5, <1>6, <1>8, <1>9, <1>10, <1>11 DEF TableCount, One, Here

\* a new item displaces one from its slot,
LEMMA InsertCount ==
    ASSUME NEW T \in Tables, NEW b \in Buckets, NEW i \in Slots, NEW n \in Refs, NEW r, r # NoRef,
           NEW T2, T2 = Insert(T, b, i, n)
    PROVE  /\ T2 \in Tables
           /\ TableCount(T2, r) = TableCount(T, r) + One(n, r)
<1> DEFINE d == T[b].slots[i]
           o == IF d = NoRef THEN T[b].over ELSE <<d>> \o T[b].over
           M == SetSlot(T, b, i, n)
           f == [c \in Buckets |-> M[c].over]
           g == [c \in Buckets |-> T2[c].over]
<1>1. d \in Refs /\ T[b].over \in Seq(Refs) /\ o \in Seq(Refs)
  BY DEF Tables
<1>2. /\ d = NoRef => o = T[b].over
      /\ d # NoRef => Len(o) = Len(T[b].over) + 1 /\ o[1] = d
            /\ \A l \in 1 .. Len(T[b].over) : T[b].over[l] = o[l + 1]
  BY <1>1
<1>0. M = SetSlot(T, b, i, n)
  OBVIOUS
<1> HIDE DEF M
<1>3. M \in Tables /\ TableCount(M, r) + One(d, r) = TableCount(T, r) + One(n, r)
  BY <1>0, SlotCount
<1>4. /\ T2 \in Tables /\ T2[b].over = o
      /\ \A c \in Buckets : T2[c].slots = M[c].slots
      /\ \A c \in Buckets \ {b} : T2[c] = M[c]
      /\ M[b].over = T[b].over
  BY <1>0, <1>1, <1>3 DEF Tables, SetSlot, Insert
<1> HIDE DEF o, d
<1>5. f[b] = T[b].over /\ g[b] = o /\ \A c \in Buckets \ {b} : f[c] = g[c]
  BY <1>4
<1>6. InOver(M, r) = Listed(Buckets, f, r) /\ InOver(T2, r) = Listed(Buckets, g, r)
      /\ InSlots(M, r) = InSlots(T2, r)
  BY <1>4 DEF InOver, InSlots
<1> HIDE DEF f, g
<1>7. [w \in Workers |-> << >>] \in Queues
  BY DEF Queues
<1>8. /\ IsFiniteSet(Listed(Buckets, g, r)) /\ Cardinality(InSlots(T2, r)) \in Nat
      /\ Cardinality(Listed(Buckets, g, r)) \in Nat /\ Cardinality(Listed(Buckets, f, r)) \in Nat
  BY <1>3, <1>4, <1>6, <1>7, PartsFinite, FS_CardinalityType
<1>9. Cardinality(Listed(Buckets, g, r)) = Cardinality(Listed(Buckets, f, r)) + One(d, r)
  <2>1. CASE d = NoRef
    <3>1. g[b] = f[b]
      BY <1>2, <1>5, <2>1
    <3>2. Listed(Buckets, g, r) = Listed(Buckets, f, r)
      <4>1. \A c \in Buckets : f[c] = g[c]
        BY <1>5, <3>1
      <4>2. \A x : x \in Listed(Buckets, g, r) <=> x \in Listed(Buckets, f, r)
        <5>1. \A x : x \in Listed(Buckets, f, r) <=>
               \E a \in Buckets : \E j \in 1 .. Len(f[a]) : x = <<a, j>> /\ f[a][j] = r
          BY ListedIs
        <5>2. \A x : x \in Listed(Buckets, g, r) <=>
               \E a \in Buckets : \E j \in 1 .. Len(g[a]) : x = <<a, j>> /\ g[a][j] = r
          BY ListedIs
        <5> QED BY <4>1, <5>1, <5>2
      <4> QED BY <4>2
    <3> QED BY <1>8, <2>1, <3>2 DEF One
  <2>2. CASE d # NoRef
    <3>1. /\ Len(g[b]) \in Nat \ {0} /\ Len(f[b]) = Len(g[b]) - 1 /\ g[b][1] = d
          /\ \A l \in 1 .. Len(f[b]) : f[b][l] = g[b][l + 1]
      BY <1>1, <1>2, <1>5, <2>2
    <3>2. Shifted(Buckets, g, f, b)
      BY <1>5, <3>1 DEF Shifted
    <3>3. Cardinality(Listed(Buckets, g, r)) = Cardinality(Listed(Buckets, f, r))
                                                + One(g[b][1], r)
      BY <1>8, <3>2, CountTail
    <3> QED BY <3>1, <3>3 DEF One
  <2> QED BY <2>1, <2>2
<1>10. TableCount(T, r) \in Nat
  BY <1>7, UsesTyped
<1> QED BY <1>3, <1>4, <1>6, <1>8, <1>9, <1>10 DEF TableCount, One, d, M

\* the first reference leaves a queue,
LEMMA HeadCount ==
    ASSUME NEW q \in Queues, NEW w \in Workers, q[w] # << >>, NEW r,
           NEW q2, q2 = [q EXCEPT ![w] = Tail(q[w])]
    PROVE  /\ q2 \in Queues
           /\ Cardinality(InQueues(q, r)) = Cardinality(InQueues(q2, r)) + One(Head(q[w]), r)
<1>1. q2 \in Queues
  BY DEF Queues
<1>2. /\ Len(q[w]) \in Nat \ {0} /\ Len(q2[w]) = Len(q[w]) - 1 /\ Head(q[w]) = q[w][1]
      /\ \A l \in 1 .. Len(q2[w]) : q2[w][l] = q[w][l + 1]
      /\ \A v \in Workers \ {w} : q[v] = q2[v]
  BY DEF Queues
<1>3. IsFiniteSet(Listed(Workers, q, r))
  BY Sizes, ListedFinite DEF Queues
<1>4. Cardinality(Listed(Workers, q, r))
        = Cardinality(Listed(Workers, q2, r)) + One(q[w][1], r)
  <2>1. Shifted(Workers, q, q2, w)
    BY <1>2 DEF Shifted
  <2> QED BY <1>3, <2>1, CountTail
<1> QED BY <1>1, <1>2, <1>4 DEF InQueues, One, Here

\* one comes to its end,
LineUp(q, w, n) == [q EXCEPT ![w] = Append(q[w], n)]

LEMMA AppendCount ==
    ASSUME NEW q \in Queues, NEW w \in Workers, NEW n \in Refs, NEW r,
           NEW q2, q2 = LineUp(q, w, n)
    PROVE  /\ q2 \in Queues
           /\ Cardinality(InQueues(q2, r)) = Cardinality(InQueues(q, r)) + One(n, r)
<1>0. q2 = [q EXCEPT ![w] = Append(q[w], n)]
  BY DEF LineUp
<1>1. q2 \in Queues
  BY <1>0 DEF Queues
<1> DEFINE j == Len(q[w]) + 1
<1>2. /\ j \in Nat /\ Len(q2[w]) = j /\ q2[w][j] = n
      /\ \A l \in 1 .. Len(q[w]) : l # j => l \in 1 .. Len(q2[w]) /\ q2[w][l] = q[w][l]
      /\ \A l \in 1 .. Len(q2[w]) : l # j => l \in 1 .. Len(q[w])
      /\ \A v \in Workers \ {w} : q[v] = q2[v]
      /\ ~(j \in 1 .. Len(q[w])) /\ j \in 1 .. Len(q2[w])
  BY <1>0 DEF Queues
<1> HIDE DEF j
<1>3. IsFiniteSet(Listed(Workers, q, r))
  BY Sizes, ListedFinite DEF Queues
<1>4. /\ Cardinality(Listed(Workers, q, r)) \in Nat /\ Cardinality(Listed(Workers, q2, r)) \in Nat
      /\ Cardinality(Listed(Workers, q2, r)) + Here(q, w, j, r)
        = Cardinality(Listed(Workers, q, r)) + Here(q2, w, j, r)
  <2>1. DifferAt(Workers, q, q2, w, j)
    BY <1>2 DEF DifferAt
  <2> QED BY <1>2, <1>3, <2>1, CountListed
<1> QED BY <1>1, <1>2, <1>4 DEF InQueues, One, Here

\* a worker uses other items.
LEMMA WorkerCount ==
    ASSUME NEW t, NEW t2, NEW w \in Workers, NEW r,
           \A v \in Workers \ {w} : t2[v].it = t[v].it /\ t2[v].nit = t[v].nit
    PROVE  /\ ThreadCount(t, r) \in Nat /\ ThreadCount(t2, r) \in Nat
           /\ ThreadCount(t2, r) + One(t[w].it, r) + One(t[w].nit, r)
                = ThreadCount(t, r) + One(t2[w].it, r) + One(t2[w].nit, r)
<1>1. /\ AsIt(t, r) \ {w} = AsIt(t2, r) \ {w}
      /\ AsNit(t, r) \ {w} = AsNit(t2, r) \ {w}
  BY DEF AsIt, AsNit
<1>2. /\ (w \in AsIt(t, r) <=> t[w].it = r) /\ (w \in AsIt(t2, r) <=> t2[w].it = r)
      /\ (w \in AsNit(t, r) <=> t[w].nit = r) /\ (w \in AsNit(t2, r) <=> t2[w].nit = r)
  BY DEF AsIt, AsNit
<1>3. IsFiniteSet(AsIt(t, r)) /\ IsFiniteSet(AsNit(t, r))
  <2>1. AsIt(t, r) \in SUBSET Workers /\ AsNit(t, r) \in SUBSET Workers
    BY DEF AsIt, AsNit
  <2> QED BY <2>1, Sizes, FS_Subset
<1>4. /\ Cardinality(AsIt(t, r)) \in Nat /\ Cardinality(AsIt(t2, r)) \in Nat
      /\ Cardinality(AsIt(t2, r)) + (IF w \in AsIt(t, r) THEN 1 ELSE 0)
           = Cardinality(AsIt(t, r)) + (IF w \in AsIt(t2, r) THEN 1 ELSE 0)
  BY <1>1, <1>3, SameButOne
<1>5. /\ Cardinality(AsNit(t, r)) \in Nat /\ Cardinality(AsNit(t2, r)) \in Nat
      /\ Cardinality(AsNit(t2, r)) + (IF w \in AsNit(t, r) THEN 1 ELSE 0)
           = Cardinality(AsNit(t, r)) + (IF w \in AsNit(t2, r) THEN 1 ELSE 0)
  BY <1>1, <1>3, SameButOne
<1> QED BY <1>2, <1>4, <1>5 DEF ThreadCount, One

-----------------------------------------------------------------------------
(* What a step leaves as it is. *)

LEMMA Becoming ==
    ASSUME TypeOK, NEW w \in Workers, NEW t \in Thread, Becomes(w, t)
    PROVE  /\ th' \in [Workers -> Thread] /\ th'[w] = t
           /\ \A v \in Workers \ {w} : th'[v] = th[v]
BY DEF TypeOK, Becomes

\* The steps of worker w leave the others where they are.
Alone(w) ==
    /\ \A v \in Workers \ {w} : th'[v] = th[v] /\ ia'[v] = ia[v]
    /\ \A x \in (Workers \cup {Maint}) \ {w} : segLock' = x <=> segLock = x
    /\ free_segments' = free_segments \/ segLock = w
    /\ mt' = mt /\ ia'[w].cleaning = ia[w].cleaning

LEMMA AlonePc ==
    ASSUME PcOK, NEW w \in Workers, Alone(w), PcOf(w)'
    PROVE  PcOK'
<1>1. ASSUME NEW v \in Workers \ {w} PROVE PcOf(v)'
  <2>1. /\ th'[v] = th[v] /\ ia'[v] = ia[v] /\ (segLock' = v <=> segLock = v)
        /\ free_segments' = free_segments \/ segLock # v
    BY DEF Alone
  <2>2. PcOf(v)
    BY DEF PcOK
  <2> QED BY <2>1, <2>2 DEF PcOf, Making, Reserving
<1>2. PcOfMaint'
  <2>1. mt' = mt /\ (segLock' = Maint <=> segLock = Maint)
    BY NamesAssumption DEF Alone
  <2>2. mt.pc = "scan" => ia'[mt.w].cleaning = ia[mt.w].cleaning
    BY DEF Alone, PcOK, PcOfMaint
  <2> QED BY <2>1, <2>2 DEF PcOK, PcOfMaint
<1> QED BY <1>1, <1>2 DEF PcOK

LEMMA MemStays ==
    ASSUME MemOK, mem' = mem,
           \A s \in Segments : seg'[s].offset = seg[s].offset /\ seg'[s].freed = seg[s].freed
    PROVE  MemOK'
BY DEF MemOK

LEMMA ItemsStay ==
    ASSUME Items, UNCHANGED <<mem, table, newest, cq>>, NEW w \in Workers,
           \A v \in Workers \ {w} : th'[v] = th[v],
           th'[w].it = th[w].it, th'[w].nit = th[w].nit,
           th'[w].pc = "put" => th[w].pc = "put", CopyOf(w)'
    PROVE  Items'
<1>1. CountsOK'
  <2>1. \A r : UsesIn(table', cq', th', r) = UsesIn(table, cq, th, r)
    <3> TAKE r
    <3>1. AsIt(th', r) = AsIt(th, r) /\ AsNit(th', r) = AsNit(th, r)
      BY DEF AsIt, AsNit
    <3> QED BY <3>1 DEF UsesIn
  <2>2. \A r : Uses(r)' = Uses(r)
    BY <2>1, UsesAre, UsesAreNext
  <2> QED BY <2>2 DEF CountsOK, Items
<1>2. NewOK'
  BY DEF NewOK, Items
<1>3. Newest'
  BY DEF Newest, Items
<1>4. CopyOK'
  <2>1. ASSUME NEW v \in Workers \ {w} PROVE CopyOf(v)'
    <3>1. CopyOf(v) /\ th'[v] = th[v]
      BY DEF Items, CopyOK
    <3> QED BY <3>1 DEF CopyOf, Making
  <2> QED BY <2>1 DEF CopyOK
<1> QED BY <1>1, <1>2, <1>3, <1>4 DEF Items

\* The segments stay where they are,
LEMMA LaidStays ==
    ASSUME TypeOK, PcOK, NEW home \in [Segments -> Places], NEW pos \in [Segments -> Nat], Laid(home, pos),
           \A s \in Segments : seg'[s].next = seg[s].next,
           free_segments' = free_segments, seg_alloced' = seg_alloced,
           \A w \in Workers : /\ ia'[w].oldest = ia[w].oldest /\ ia'[w].cur = ia[w].cur
                              /\ ia'[w].reserved = ia[w].reserved
                              /\ InHand(w)' = InHand(w),
           GivenBack' = GivenBack
    PROVE  Lists(home, pos)' /\ Held(home)' /\ (mt' = mt => Walked(home)')
<1>1. Nexts' = Nexts
  BY DEF Nexts
<1>2. Lists(home, pos)'
  BY <1>1 DEF Laid, Lists, ListAt
<1>3. Held(home)'
  <2>1. \A w \in Workers : ia[w].cur \in Segments
    BY DEF TypeOK, Allocator
  <2> QED BY <2>1 DEF Laid, Held
<1>4. ASSUME mt' = mt PROVE Walked(home)'
  <2>1. mt.prev # NULL => mt.prev \in Segments
    BY DEF TypeOK, Walker
  <2>2. mt.pc \in {"weigh", "push", "pushed"} => mt.h \in Segments
    BY DEF TypeOK, Laid, Walked, Walker, GivenBack
  <2>3. mt.pc # "start" => mt.w \in Workers
    BY DEF PcOK, PcOfMaint
  <2> QED BY <1>4, <2>1, <2>2, <2>3 DEF Laid, Walked, GivenBack
<1> QED BY <1>2, <1>3, <1>4

\* and hold what they held, or are in use already.
StillHolds(s) ==
    /\ seg'[s].offset = seg[s].offset
    /\ seg'[s].freed = seg[s].freed \/ seg[s].offset > 0
    /\ LiveIn(mem[s], seg[s].offset) = {} => LiveIn(mem'[s], seg'[s].offset) = {}

LEMMA VacantStays ==
    ASSUME NEW home, Vacant(home), mt'.pc = "pushed" => mt.pc = "pushed",
           \A s \in Segments : \/ StillHolds(s)
                               \/ (\E w \in Workers : home[s] = Chain(w)) /\ seg'[s].offset > 0,
           TypeOK
    PROVE  Vacant(home)'
<1> SUFFICES ASSUME NEW s \in Segments
             PROVE  /\ home[s] \in {Free, Unused} => seg'[s].offset = 0
                    /\ home[s] = Given => LiveIn(mem'[s], seg'[s].offset) = {}
                    /\ mt'.pc = "pushed" /\ home[s] = Given => seg'[s].offset = 0
                    /\ \A w \in Workers :
                          /\ home[s] \in {Reserve(w), Hand(w)} => seg'[s].offset = 0 /\ seg'[s].freed = 0
                          /\ home[s] = Chain(w) /\ seg'[s].offset = 0 => seg'[s].freed = 0
  BY DEF Vacant
<1>1. seg[s].offset \in Nat
  BY Sizes DEF TypeOK
<1>2. CASE StillHolds(s)
  BY <1>1, <1>2 DEF StillHolds, Vacant
<1>3. ASSUME NEW v \in Workers, home[s] = Chain(v), seg'[s].offset > 0
      PROVE  /\ home[s] \notin {Free, Unused, Given} /\ seg'[s].offset # 0
             /\ \A w \in Workers : home[s] \notin {Reserve(w), Hand(w)}
  BY <1>3, PlacesDiffer
<1> QED BY <1>2, <1>3

\* Together: no segment moves, and only current ones are filled.
LEMMA LaidOutStays ==
    ASSUME IInv,
           \A s \in Segments : seg'[s].next = seg[s].next,
           free_segments' = free_segments, seg_alloced' = seg_alloced,
           \A w \in Workers : /\ ia'[w].oldest = ia[w].oldest /\ ia'[w].cur = ia[w].cur
                              /\ ia'[w].reserved = ia[w].reserved
                              /\ InHand(w)' = InHand(w),
           mt' = mt,
           \A s \in Segments : \/ StillHolds(s)
                               \/ (\E w \in Workers : s = ia[w].cur) /\ seg'[s].offset > 0
    PROVE  LaidOut'
<1>1. PICK home \in [Segments -> Places], pos \in [Segments -> Nat] : Laid(home, pos)
  BY DEF IInv, LaidOut
<1>2. Lists(home, pos)' /\ Held(home)' /\ Walked(home)'
  <2>1. GivenBack' = GivenBack
    BY DEF GivenBack
  <2> QED BY <1>1, <2>1, LaidStays DEF IInv
<1>3. Vacant(home)'
  <2>1. \A s \in Segments : \/ StillHolds(s)
                            \/ (\E w \in Workers : home[s] = Chain(w)) /\ seg'[s].offset > 0
    <3>1. \A w \in Workers : home[ia[w].cur] = Chain(w)
      BY <1>1 DEF Laid, Held
    <3> QED BY <3>1
  <2> QED BY <1>1, <2>1, VacantStays DEF IInv, Laid
<1>4. Laid(home, pos)'
  BY <1>2, <1>3 DEF Laid
<1> QED BY <1>4, Zenon DEF LaidOut

\* A step that does no more than move worker w on.
LEMMA OnlyThread ==
    ASSUME IInv, NEW w \in Workers, NEW t \in Thread, Becomes(w, t),
           UNCHANGED <<seg, mem, free_segments, seg_alloced, table, ia, cq, mt, newest>>,
           segLock' \in Workers \cup {Maint, Nobody},
           \A x \in (Workers \cup {Maint}) \ {w} : segLock' = x <=> segLock = x,
           received' \in [Workers -> Nat], \A v \in Workers : received'[v] <= MaxRequests[v],
           harm' \subseteq {"lock", "scan"},
           t.it = th[w].it, t.nit = th[w].nit, t.pc = "put" => th[w].pc = "put",
           (IF t.pc \in {"install", "reserve"} THEN t.h ELSE NULL) = InHand(w),
           PcOf(w)', CopyOf(w)'
    PROVE  IInv'
<1>1. th' \in [Workers -> Thread] /\ th'[w] = t /\ \A v \in Workers \ {w} : th'[v] = th[v]
  BY Becoming DEF IInv
<1>2. TypeOK'
  BY <1>1 DEF IInv, TypeOK
<1>3. PcOK'
  <2>1. Alone(w)
    BY <1>1 DEF Alone
  <2> QED BY <2>1, AlonePc DEF IInv
<1>4. LaidOut'
  <2>1. \A v \in Workers : InHand(v)' = InHand(v)
    BY <1>1 DEF InHand
  <2>2. \A s \in Segments : StillHolds(s)
    BY DEF StillHolds
  <2> QED BY <2>1, <2>2, LaidOutStays
<1>5. MemOK'
  BY MemStays DEF IInv
<1>6. Items'
  BY <1>1, ItemsStay DEF IInv
<1> QED BY <1>2, <1>3, <1>4, <1>5, <1>6 DEF IInv

-----------------------------------------------------------------------------
(* Requests, and the steps of a worker by itself. *)

LEMMA IdleIs ==
    /\ Idle \in Thread /\ Idle.pc = "idle" /\ Idle.key = NoKey /\ Idle.val = NoValue
    /\ Idle.it = NoRef /\ Idle.nit = NoRef /\ Idle.h = NULL /\ Idle.then = "idle"
    /\ Idle.cleanup = FALSE /\ Idle.idle = FALSE /\ Idle.count = 0
    /\ NoRef \in Refs /\ NoValue \in Values
<1>1. NoRef \in Refs /\ NoValue \in Values
  BY DEF Refs, Values
<1>2. Idle \in Thread
  BY <1>1 DEF Idle, Thread, Labels
<1>3. /\ Idle.pc = "idle" /\ Idle.key = NoKey /\ Idle.val = NoValue /\ Idle.it = NoRef
      /\ Idle.nit = NoRef /\ Idle.h = NULL /\ Idle.then = "idle"
  BY DEF Idle
<1>4. Idle.cleanup = FALSE /\ Idle.idle = FALSE /\ Idle.count = 0
  BY DEF Idle
<1> QED BY <1>1, <1>2, <1>3, <1>4

\* A worker that has nothing in its hands.
LEMMA NothingInHand ==
    ASSUME TypeOK, NEW w \in Workers, PcOf(w), th[w].pc \in {"idle", "clean"}
    PROVE  th[w].it = NoRef /\ th[w].nit = NoRef /\ ~th[w].cleanup /\ InHand(w) = NULL
           /\ segLock # w
BY DEF PcOf, Making, Reserving, Allocating, InHand

LEMMA ReceivedTyped ==
    ASSUME TypeOK, NEW w \in Workers, Receive(w)
    PROVE  /\ received' \in [Workers -> Nat] /\ received'[w] \in Nat \ {0}
           /\ \A v \in Workers : received'[v] <= MaxRequests[v]
<1>1. received \in [Workers -> Nat] /\ \A v \in Workers : received[v] <= MaxRequests[v]
  BY DEF TypeOK
<1>2. MaxRequests \in [Workers -> Nat]
  BY BoundsAssumption
<1>3. received[w] + 1 <= MaxRequests[w]
  BY <1>1, <1>2 DEF Receive
<1> QED BY <1>1, <1>3 DEF Receive

LEMMA BeginSetStep ==
    ASSUME IInv, NEW w \in Workers, NEW k \in Keys, BeginSet(w, k)
    PROVE  IInv'
<1> DEFINE t == [Idle EXCEPT !.pc = "alloc", !.key = k, !.val = <<w, received'[w]>>]
<1>0. TypeOK /\ PcOf(w) /\ th[w].pc = "idle" /\ Receive(w) /\ Becomes(w, t)
  BY DEF IInv, PcOK, BeginSet, Receive, At
<1>1. /\ received' \in [Workers -> Nat] /\ received'[w] \in Nat \ {0}
      /\ \A v \in Workers : received'[v] <= MaxRequests[v]
  BY <1>0, ReceivedTyped
<1>2. <<w, received'[w]>> \in Values /\ <<w, received'[w]>> # NoValue
  BY <1>1, NamesAssumption DEF Values, NoValue
<1>3. t \in Thread /\ t.pc = "alloc" /\ t.key = k /\ t.val # NoValue /\ t.it = NoRef
      /\ t.nit = NoRef /\ t.then = "idle" /\ ~t.cleanup /\ t.h = NULL
  BY <1>2, IdleIs DEF Thread, Labels
<1> HIDE DEF t
<1>4. th'[w] = t
  BY <1>0, <1>3, Becoming
<1>5. th[w].it = NoRef /\ th[w].nit = NoRef /\ InHand(w) = NULL /\ segLock # w
  BY <1>0, NothingInHand
<1>6. UNCHANGED <<seg, mem, free_segments, seg_alloced, segLock, table, ia, cq, mt, newest, harm>>
  BY DEF BeginSet, pool
<1>7. PcOf(w)' /\ CopyOf(w)'
  BY <1>3, <1>4, <1>5, <1>6 DEF PcOf, Making, Reserving, Allocating, CopyOf
<1>8. segLock \in Workers \cup {Maint, Nobody} /\ harm \subseteq {"lock", "scan"}
  BY <1>0 DEF TypeOK
<1> QED BY <1>0, <1>1, <1>3, <1>5, <1>6, <1>7, <1>8, OnlyThread

LEMMA RefuseSetStep ==
    ASSUME IInv, NEW w \in Workers, RefuseSet(w)
    PROVE  IInv'
<1> DEFINE t == [Idle EXCEPT !.pc = "clean"]
<1>0. TypeOK /\ PcOf(w) /\ th[w].pc = "alloc" /\ ~th[w].cleanup /\ Becomes(w, t)
  BY DEF IInv, PcOK, RefuseSet, At
<1>3. t \in Thread /\ t.pc = "clean" /\ t.it = NoRef
      /\ t.nit = NoRef /\ t.then = "idle" /\ ~t.cleanup /\ t.h = NULL
  BY IdleIs DEF Thread, Labels
<1> HIDE DEF t
<1>4. th'[w] = t
  BY <1>0, <1>3, Becoming
<1>5. th[w].it = NoRef /\ th[w].nit = NoRef /\ InHand(w) = NULL /\ segLock # w
  BY <1>0 DEF PcOf, Making, InHand
<1>6. UNCHANGED <<seg, mem, free_segments, seg_alloced, segLock, table, ia, cq, mt, newest, harm, received>>
  BY DEF RefuseSet, pool
<1>7. PcOf(w)' /\ CopyOf(w)'
  BY <1>3, <1>4, <1>5, <1>6 DEF PcOf, Making, Reserving, Allocating, CopyOf
<1>8. segLock \in Workers \cup {Maint, Nobody} /\ harm \subseteq {"lock", "scan"}
      /\ received \in [Workers -> Nat] /\ \A v \in Workers : received[v] <= MaxRequests[v]
  BY <1>0 DEF TypeOK
<1> QED BY <1>0, <1>3, <1>5, <1>6, <1>7, <1>8, OnlyThread

\* An item that is referred to is there, and alive.
LEMMA UsedIs ==
    ASSUME IInv, NEW r \in Refs \ {NoRef}, UsedIn(table, cq, th, r)
    PROVE  /\ r[1] \in Segments /\ r[2] \in 0 .. SegSize - 1 /\ r = <<r[1], r[2]>>
           /\ CountIn(mem, r) > 0
           /\ ItemIn(mem, r) \in LiveIn(mem[r[1]], seg[r[1]].offset)
           /\ ItemIn(mem, r) \in Header /\ ItemIn(mem, r).at = r[2]
           /\ ItemIn(mem, r).refs = CountIn(mem, r) /\ ItemIn(mem, r).key \in Keys
           /\ seg[r[1]].offset > 0
<1>1. Distinct(mem) /\ table \in Tables /\ cq \in Queues
  BY DEF IInv, TypeOK, MemOK, Tidy, Distinct, Tables, Queues
<1>2. CountIn(mem, r) > 0
  <2>1. UsesIn(table, cq, th, r) > 0
    BY <1>1, UsedCounts
  <2> QED BY <2>1, UsesAre DEF IInv, Items, CountsOK
<1>3. /\ r[1] \in Segments /\ r[2] \in 0 .. SegSize - 1 /\ r = <<r[1], r[2]>>
      /\ \E x \in mem[r[1]] : x.at = r[2] /\ x.refs = CountIn(mem, r) /\ x = ItemIn(mem, r)
  BY <1>1, <1>2, CountedIs
<1> DEFINE x == ItemIn(mem, r)
           s == r[1]
<1>4. x \in mem[s] /\ x.at = r[2] /\ x.refs = CountIn(mem, r) /\ x.refs > 0
  BY <1>2, <1>3
<1>5. mem[s] \in SUBSET Header /\ Tidy(mem[s], seg[s].offset, seg[s].freed) /\ seg[s].offset \in Nat
  BY <1>3, Sizes DEF IInv, TypeOK, MemOK
<1>6. x \in Header /\ x.at \in Nat /\ x.refs \in Nat
  BY <1>4, <1>5 DEF Header
<1> HIDE DEF x, s
<1>7. x.at < seg[s].offset
  BY <1>4, <1>5, <1>6 DEF Tidy
<1>8. x \in LiveIn(mem[s], seg[s].offset)
  BY <1>4, <1>7 DEF LiveIn
<1>9. x.key \in Keys /\ seg[s].offset > 0
  BY <1>5, <1>6, <1>7, <1>8 DEF Tidy
<1> QED BY <1>2, <1>3, <1>4, <1>6, <1>8, <1>9 DEF x, s

LEMMA CleanIdleStep ==
    ASSUME IInv, NEW w \in Workers, CleanIdle(w)
    PROVE  IInv'
<1> DEFINE t == [Idle EXCEPT !.pc = "clean", !.idle = TRUE]
<1>0. TypeOK /\ PcOf(w) /\ th[w].pc = "idle" /\ Becomes(w, t)
  BY DEF IInv, PcOK, CleanIdle, At
<1>3. t \in Thread /\ t.pc = "clean" /\ t.it = NoRef
      /\ t.nit = NoRef /\ t.then = "idle" /\ ~t.cleanup /\ t.h = NULL
  BY IdleIs DEF Thread, Labels
<1> HIDE DEF t
<1>4. th'[w] = t
  BY <1>0, <1>3, Becoming
<1>5. th[w].it = NoRef /\ th[w].nit = NoRef /\ InHand(w) = NULL /\ segLock # w
  BY <1>0, NothingInHand
<1>6. UNCHANGED <<seg, mem, free_segments, seg_alloced, segLock, table, ia, cq, mt, newest, harm, received>>
  BY DEF CleanIdle, pool
<1>7. PcOf(w)' /\ CopyOf(w)'
  BY <1>3, <1>4, <1>5, <1>6 DEF PcOf, Making, Reserving, Allocating, CopyOf
<1>8. segLock \in Workers \cup {Maint, Nobody} /\ harm \subseteq {"lock", "scan"}
      /\ received \in [Workers -> Nat] /\ \A v \in Workers : received[v] <= MaxRequests[v]
  BY <1>0 DEF TypeOK
<1> QED BY <1>0, <1>3, <1>5, <1>6, <1>7, <1>8, OnlyThread

LEMMA CleanEnoughStep ==
    ASSUME IInv, NEW w \in Workers, CleanEnough(w)
    PROVE  IInv'
<1>0. TypeOK /\ PcOf(w) /\ th[w].pc = "clean" /\ Becomes(w, Idle)
  BY DEF IInv, PcOK, CleanEnough, At
<1>4. th'[w] = Idle
  BY <1>0, IdleIs, Becoming
<1>5. th[w].it = NoRef /\ th[w].nit = NoRef /\ InHand(w) = NULL /\ segLock # w
  BY <1>0, NothingInHand
<1>6. UNCHANGED <<seg, mem, free_segments, seg_alloced, segLock, table, ia, cq, mt, newest, harm, received>>
  BY DEF CleanEnough, pool
<1>7. PcOf(w)' /\ CopyOf(w)'
  BY IdleIs, <1>4, <1>5, <1>6 DEF PcOf, Making, Reserving, Allocating, CopyOf
<1>8. segLock \in Workers \cup {Maint, Nobody} /\ harm \subseteq {"lock", "scan"}
      /\ received \in [Workers -> Nat] /\ \A v \in Workers : received[v] <= MaxRequests[v]
  BY <1>0 DEF TypeOK
<1> QED BY <1>0, IdleIs, <1>5, <1>6, <1>7, <1>8, OnlyThread

LEMMA CopyItemStep ==
    ASSUME IInv, NEW w \in Workers, CopyItem(w)
    PROVE  IInv'
<1> DEFINE x == ItemAt(th[w].it)
           t == IF x.refs = 1 THEN [th[w] EXCEPT !.pc = "release"]
                ELSE [th[w] EXCEPT !.pc = "alloc", !.cleanup = TRUE, !.key = x.key, !.val = x.val]
<1>0. TypeOK /\ PcOf(w) /\ th[w].pc = "copy" /\ Becomes(w, t) /\ th[w] \in Thread
  BY DEF IInv, PcOK, CopyItem, At, TypeOK
<1>1. th[w].it \in Refs \ {NoRef} /\ x = ItemIn(mem, th[w].it)
  BY <1>0 DEF PcOf, Thread, ItemAt, ItemIn
<1>2. x \in Header /\ x.key \in Keys
  BY <1>1, UsedIs DEF UsedIn
<1> HIDE DEF x
<1>3. /\ t \in Thread /\ t.it = th[w].it /\ t.nit = th[w].nit /\ t.then = th[w].then
      /\ IF x.refs = 1 THEN t.pc = "release" /\ t.cleanup = th[w].cleanup
         ELSE t.pc = "alloc" /\ t.cleanup = TRUE /\ t.key = x.key /\ t.val = x.val
  <2>1. CASE x.refs = 1
    BY <1>0, <2>1 DEF Thread, Labels
  <2>2. CASE x.refs # 1
    <3>1. x.key \in Keys /\ x.val \in Values
      BY <1>2 DEF Header
    <3> QED BY <1>0, <2>2, <3>1 DEF Thread, Labels
  <2> QED BY <2>1, <2>2
<1> HIDE DEF t
<1>4. th'[w] = t
  BY <1>0, <1>3, Becoming
<1>5. InHand(w) = NULL /\ segLock # w /\ th[w].nit = NoRef /\ ~th[w].cleanup
  BY <1>0 DEF PcOf, InHand, Making, Allocating
<1>6. UNCHANGED <<seg, mem, free_segments, seg_alloced, segLock, table, ia, cq, mt, newest, harm, received>>
  BY DEF CopyItem, pool
<1>7. PcOf(w)' /\ CopyOf(w)'
  BY <1>1, <1>2, <1>3, <1>4, <1>5, <1>6 DEF PcOf, Making, Reserving, Allocating, CopyOf
<1>8. segLock \in Workers \cup {Maint, Nobody} /\ harm \subseteq {"lock", "scan"}
      /\ received \in [Workers -> Nat] /\ \A v \in Workers : received[v] <= MaxRequests[v]
  BY <1>0 DEF TypeOK
<1>9. (IF t.pc \in {"install", "reserve"} THEN t.h ELSE NULL) = InHand(w) /\ t.pc # "put"
  BY <1>3, <1>5
<1> QED BY <1>0, <1>3, <1>6, <1>7, <1>8, <1>9, OnlyThread

-----------------------------------------------------------------------------
(* segment_alloc without a segment. *)

LEMMA LookAtFreeListStep ==
    ASSUME IInv, NEW w \in Workers, LookAtFreeList(w)
    PROVE  IInv'
<1> DEFINE l == IF free_segments # NULL THEN "pop" ELSE "more"
           t == [th[w] EXCEPT !.pc = l]
<1>0. TypeOK /\ PcOf(w) /\ th[w].pc = "seg" /\ Becomes(w, t) /\ th[w] \in Thread /\ CopyOf(w)
  BY DEF IInv, PcOK, LookAtFreeList, At, TypeOK, Goto, Items, CopyOK
<1>1. l \in {"pop", "more"}
  OBVIOUS
<1> HIDE DEF l
<1>3. /\ t \in Thread /\ t.it = th[w].it /\ t.nit = th[w].nit /\ t.then = th[w].then /\ t.pc = l
      /\ t.cleanup = th[w].cleanup /\ t.key = th[w].key /\ t.val = th[w].val /\ t.h = th[w].h
  BY <1>0, <1>1 DEF Thread, Labels
<1> HIDE DEF t
<1>4. th'[w] = t
  BY <1>0, <1>3, Becoming
<1>5. InHand(w) = NULL /\ segLock # w
  BY <1>0 DEF PcOf, InHand
<1>6. UNCHANGED <<seg, mem, free_segments, seg_alloced, segLock, table, ia, cq, mt, newest, harm, received>>
  BY DEF LookAtFreeList, pool
<1>7. PcOf(w)' /\ CopyOf(w)'
  BY <1>0, <1>1, <1>3, <1>4, <1>5, <1>6 DEF PcOf, Making, Reserving, Allocating, CopyOf
<1>8. segLock \in Workers \cup {Maint, Nobody} /\ harm \subseteq {"lock", "scan"}
      /\ received \in [Workers -> Nat] /\ \A v \in Workers : received[v] <= MaxRequests[v]
  BY <1>0 DEF TypeOK
<1>9. (IF t.pc \in {"install", "reserve"} THEN t.h ELSE NULL) = InHand(w) /\ t.pc # "put"
  BY <1>1, <1>3, <1>5
<1> QED BY <1>0, <1>3, <1>6, <1>7, <1>8, <1>9, OnlyThread

LEMMA PopSegmentStep ==
    ASSUME IInv, NEW w \in Workers, PopSegment(w)
    PROVE  IInv'
<1> DEFINE t == [th[w] EXCEPT !.pc = "popped", !.h = free_segments]
<1>0. TypeOK /\ PcOf(w) /\ th[w].pc = "pop" /\ Becomes(w, t) /\ th[w] \in Thread /\ CopyOf(w)
      /\ free_segments \in Segments \cup {NULL} /\ segLock = Nobody /\ segLock' = w
  BY DEF IInv, PcOK, PopSegment, At, TypeOK, Items, CopyOK
<1>3. /\ t \in Thread /\ t.it = th[w].it /\ t.nit = th[w].nit /\ t.then = th[w].then
      /\ t.pc = "popped" /\ t.h = free_segments
      /\ t.cleanup = th[w].cleanup /\ t.key = th[w].key /\ t.val = th[w].val
  BY <1>0 DEF Thread, Labels
<1> HIDE DEF t
<1>4. th'[w] = t
  BY <1>0, <1>3, Becoming
<1>5. InHand(w) = NULL
  BY <1>0 DEF InHand
<1>6. UNCHANGED <<seg, mem, free_segments, seg_alloced, table, ia, cq, mt, newest, harm, received>>
  BY DEF PopSegment
<1>7. PcOf(w)' /\ CopyOf(w)'
  BY <1>0, <1>3, <1>4, <1>6 DEF PcOf, Making, Reserving, Allocating, CopyOf
<1>8. harm \subseteq {"lock", "scan"}
      /\ received \in [Workers -> Nat] /\ \A v \in Workers : received[v] <= MaxRequests[v]
  BY <1>0 DEF TypeOK
<1>9. (IF t.pc \in {"install", "reserve"} THEN t.h ELSE NULL) = InHand(w) /\ t.pc # "put"
  BY <1>3, <1>5
<1>10. \A x \in (Workers \cup {Maint}) \ {w} : segLock' = x <=> segLock = x
  BY <1>0, NamesAssumption
<1> QED BY <1>0, <1>3, <1>6, <1>7, <1>8, <1>9, <1>10, OnlyThread

LEMMA CheckSegmentsStep ==
    ASSUME IInv, NEW w \in Workers, CheckSegments(w), Calm'
    PROVE  IInv'
<1> DEFINE none == seg_alloced >= SegMaxNum
           t == IF none THEN [th[w] EXCEPT !.pc = th[w].then, !.h = NULL]
                ELSE [th[w] EXCEPT !.pc = "grow"]
<1>0. TypeOK /\ PcOf(w) /\ th[w].pc = "more" /\ Becomes(w, t) /\ th[w] \in Thread /\ CopyOf(w)
  BY DEF IInv, PcOK, CheckSegments, At, TypeOK, Items, CopyOK
<1>1. th[w].then \in {"install", "reserve"} /\ segLock # w
  BY <1>0 DEF PcOf, Allocating, Thread
<1>2. segLock' = segLock /\ harm' = harm
  BY DEF CheckSegments, Calm
<1>3. /\ t \in Thread /\ t.it = th[w].it /\ t.nit = th[w].nit /\ t.then = th[w].then
      /\ t.cleanup = th[w].cleanup /\ t.key = th[w].key /\ t.val = th[w].val
      /\ IF none THEN t.pc = th[w].then /\ t.h = NULL ELSE t.pc = "grow"
  <2>1. CASE none
    BY <1>0, <1>1, <2>1 DEF Thread, Labels
  <2>2. CASE ~none
    BY <1>0, <1>1, <2>2 DEF Thread, Labels
  <2> QED BY <2>1, <2>2
<1> HIDE DEF t, none
<1>4. th'[w] = t
  BY <1>0, <1>3, Becoming
<1>5. InHand(w) = NULL
  BY <1>0 DEF InHand
<1>6. UNCHANGED <<seg, mem, free_segments, seg_alloced, table, ia, cq, mt, newest, received>>
  BY DEF CheckSegments
<1>7. PcOf(w)' /\ CopyOf(w)'
  BY <1>0, <1>1, <1>2, <1>3, <1>4, <1>6 DEF PcOf, Making, Reserving, Allocating, CopyOf
<1>8. segLock \in Workers \cup {Maint, Nobody} /\ harm \subseteq {"lock", "scan"}
      /\ received \in [Workers -> Nat] /\ \A v \in Workers : received[v] <= MaxRequests[v]
  BY <1>0 DEF TypeOK
<1>9. (IF t.pc \in {"install", "reserve"} THEN t.h ELSE NULL) = InHand(w) /\ t.pc # "put"
  BY <1>1, <1>3, <1>5
<1> QED BY <1>0, <1>2, <1>3, <1>6, <1>7, <1>8, <1>9, OnlyThread

-----------------------------------------------------------------------------
(* A segment changes hands. *)

LEMMA WalkedStays ==
    ASSUME TypeOK, PcOK, NEW home \in [Segments -> Places], NEW home2, Walked(home), mt' = mt,
           mt.pc # "start" => ia'[mt.w].oldest = ia[mt.w].oldest,
           \A s \in Segments : home[s] = Chain(mt.w) =>
               /\ home2[s] = Chain(mt.w)
               /\ seg[s].next # NULL => seg'[s].next = seg[s].next,
           mt.pc = "pushed" => seg'[mt.h].next = seg[mt.h].next /\ free_segments' = free_segments
    PROVE  Walked(home2)'
<1>1. mt.h \in Segments \cup {NULL} /\ mt.prev \in Segments \cup {NULL} /\ mt.next \in Segments \cup {NULL}
  BY DEF TypeOK, Walker
<1>2. SUFFICES ASSUME mt.pc \in {"walk", "weigh", "push", "pushed"} PROVE Walked(home2)'
  BY DEF Walked
<1> DEFINE h == IF GivenBack = NULL THEN mt.h ELSE mt.next
<1>3. GivenBack' = GivenBack
  BY DEF GivenBack
<1>4. /\ h \in Segments /\ h # NULL /\ home[h] = Chain(mt.w)
      /\ mt.prev = NULL => ia[mt.w].oldest = h
      /\ mt.prev # NULL => mt.prev \in Segments /\ home[mt.prev] = Chain(mt.w) /\ seg[mt.prev].next = h
      /\ mt.pc = "weigh" => mt.next # NULL /\ seg[mt.h].next = mt.next
      /\ mt.pc \in {"push", "pushed"} => mt.h # NULL
      /\ mt.pc = "pushed" => seg[mt.h].next = free_segments
  <2>1. h \in Segments \cup {NULL}
    BY <1>1
  <2> QED BY <1>1, <1>2, <2>1 DEF Walked
<1>5. mt.pc = "weigh" => GivenBack = NULL /\ h = mt.h
  BY DEF GivenBack
<1>6. mt.pc = "weigh" => seg'[mt.h].next = mt.next
  BY <1>4, <1>5
<1>7. mt.prev # NULL => home2[mt.prev] = Chain(mt.w) /\ seg'[mt.prev].next = h
  BY <1>4
<1>8. mt.prev = NULL => ia'[mt.w].oldest = h
  BY <1>2, <1>4
<1>9. (IF GivenBack' = NULL THEN mt'.h ELSE mt'.next) = h /\ home2[h] = Chain(mt.w)
  BY <1>3, <1>4
<1>10. mt.pc = "pushed" => seg'[mt.h].next = free_segments'
  BY <1>4
<1> HIDE DEF h
<1> QED BY <1>4, <1>6, <1>7, <1>8, <1>9, <1>10 DEF Walked

LEMMA FreshIs ==
    ASSUME TypeOK, NEW h \in Segments
    PROVE  /\ Fresh(seg[h]).next = seg[h].next /\ Fresh(seg[h]).offset = 0
           /\ Fresh(seg[h]).freed = 0
           /\ Fresh(seg[h]) \in [offset : 0 .. SegSize, freed : 0 .. SegSize,
                                  flags : SUBSET {"INACTIVE", "CLEANED"},
                                  next : Segments \cup {NULL}]
<1>1. 0 \in 0 .. SegSize
  BY Sizes
<1> QED BY <1>1, ZenonT(30) DEF TypeOK, Fresh

\* From the free list or the memory never used into the hands of worker w.
LEMMA ToHand ==
    ASSUME IInv, NEW home \in [Segments -> Places], NEW pos \in [Segments -> Nat], Laid(home, pos),
           NEW w \in Workers, NEW h \in Segments, home[h] \in {Free, Unused},
           NEW home2, home2 = Moved(home, h, Hand(w)),
           seg' = [seg EXCEPT ![h] = Fresh(seg[h])], mem' = mem, ia' = ia, mt' = mt,
           InHand(w) = NULL, InHand(w)' = h,
           \A v \in Workers \ {w} : th'[v] = th[v],
           mt.pc = "pushed" => free_segments' = free_segments,
           ListIn(home2, pos, Nexts, Free, free_segments'),
           \A s \in Segments : s > seg_alloced' <=> home2[s] = Unused
    PROVE  LaidOut' /\ MemOK'
<1>1. home2 \in [Segments -> Places] /\ home2[h] = Hand(w)
      /\ \A s \in Segments \ {h} : home2[s] = home[s]
  BY DEF Places, Moved
<1>2. /\ \A s \in Segments : seg'[s].next = seg[s].next
      /\ \A s \in Segments \ {h} : seg'[s] = seg[s]
      /\ seg'[h].offset = 0 /\ seg'[h].freed = 0
  BY FreshIs DEF IInv, TypeOK
<1>3. Nexts' = Nexts /\ \A s \in Segments : Nexts[s] \in Segments \cup {NULL}
  BY <1>2 DEF Nexts, IInv, TypeOK
<1>4. \A v \in Workers : ListIn(home2, pos, Nexts', Chain(v), ia'[v].oldest)
  <2> TAKE v \in Workers
  <2>1. ListIn(home, pos, Nexts, Chain(v), ia[v].oldest) /\ ia[v].oldest \in Segments \cup {NULL}
    BY DEF Laid, Lists, ListAt, IInv, TypeOK, Allocator
  <2>2. \A s \in Segments : home[s] = Chain(v) <=> home2[s] = Chain(v)
    BY <1>1, PlacesDiffer
  <2> QED BY <1>3, <2>1, <2>2, ListStays
<1>5. \A v \in Workers : home2[ia'[v].cur] = Chain(v) /\ seg'[ia'[v].cur].next = NULL
  <2> TAKE v \in Workers
  <2>1. ia[v].cur \in Segments
    BY DEF IInv, TypeOK, Allocator
  <2>2. home[ia[v].cur] = Chain(v) /\ seg[ia[v].cur].next = NULL
    BY DEF Laid, Held
  <2>3. ia[v].cur # h
    BY <2>2, PlacesDiffer
  <2> QED BY <1>1, <1>2, <2>1, <2>2, <2>3
<1>6. \A v \in Workers : \A s \in Segments : home2[s] = Reserve(v) <=> s = ia'[v].reserved
  BY <1>1, PlacesDiffer DEF Laid, Held
<1>7. \A v \in Workers : \A s \in Segments : home2[s] = Hand(v) <=> s = InHand(v)'
  <2>1. \A v \in Workers \ {w} : InHand(v)' = InHand(v)
    BY DEF InHand
  <2>2. \A v \in Workers : \A s \in Segments : home[s] = Hand(v) <=> s = InHand(v)
    BY DEF Laid, Held
  <2>3. \A s \in Segments : home[s] # Hand(w)
    BY <2>2, NoSegment
  <2>4. \A v \in Workers : home[h] # Hand(v)
    BY PlacesDiffer
  <2> QED BY <1>1, <2>1, <2>2, <2>3, <2>4, PlacesDiffer
<1>8. \A s \in Segments : home2[s] = Given <=> s = GivenBack'
  BY <1>1, PlacesDiffer DEF Laid, Held, GivenBack
<1>9. Walked(home2)'
  <2>1. \A s \in Segments : home[s] = Chain(mt.w) => home2[s] = Chain(mt.w)
    <3>1. Chain(mt.w) \notin {Free, Unused}
      BY DEF Chain, Free, Unused
    <3> QED BY <1>1, <3>1
  <2>2. mt.pc = "pushed" => mt.h \in Segments
    BY DEF IInv, TypeOK, Walker, Laid, Walked
  <2> QED BY <1>2, <2>1, <2>2, WalkedStays DEF IInv, Laid
<1>10. Vacant(home2)'
  <2> SUFFICES ASSUME NEW s \in Segments
               PROVE  /\ home2[s] \in {Free, Unused} => seg'[s].offset = 0
                      /\ home2[s] = Given => LiveIn(mem'[s], seg'[s].offset) = {}
                      /\ mt'.pc = "pushed" /\ home2[s] = Given => seg'[s].offset = 0
                      /\ \A v \in Workers :
                          /\ home2[s] \in {Reserve(v), Hand(v)} => seg'[s].offset = 0 /\ seg'[s].freed = 0
                          /\ home2[s] = Chain(v) /\ seg'[s].offset = 0 => seg'[s].freed = 0
    BY DEF Vacant
  <2>1. CASE s = h
    BY <1>1, <1>2, <2>1, PlacesDiffer
  <2>2. CASE s # h
    <3>1. home2[s] = home[s] /\ seg'[s] = seg[s] /\ mem'[s] = mem[s] /\ mt'.pc = mt.pc
      BY <1>1, <1>2, <2>2
    <3>2. Vacant(home)
      BY DEF Laid
    <3> QED BY <3>1, <3>2, Zenon DEF Vacant
  <2> QED BY <2>1, <2>2
<1>11. MemOK'
  <2>1. seg[h].offset = 0
    BY DEF Laid, Vacant
  <2>2. Tidy(mem[h], 0, 0)
    <3>1. mem[h] \in SUBSET Header /\ Tidy(mem[h], seg[h].offset, seg[h].freed) /\ 0 \in 0 .. SegSize
      BY Sizes DEF IInv, TypeOK, MemOK
    <3>2. LiveIn(mem[h], 0) = {}
      BY <3>1, Sizes DEF LiveIn, Header
    <3> QED BY <2>1, <3>1, <3>2, TidyReset
  <2> QED BY <1>2, <2>2 DEF IInv, MemOK
<1>12. Lists(home2, pos)'
  BY <1>3, <1>4 DEF Lists, ListAt
<1>13. Held(home2)'
  BY <1>5, <1>6, <1>7, <1>8 DEF Held
<1>14. Laid(home2, pos)'
  BY <1>9, <1>10, <1>12, <1>13 DEF Laid
<1>15. LaidOut'
  BY <1>1, <1>14, Zenon DEF LaidOut
<1> QED BY <1>11, <1>15

\* What follows for the whole state when one segment changes hands.
LEMMA HandsStep ==
    ASSUME IInv, NEW w \in Workers, NEW t \in Thread, Becomes(w, t),
           TypeOK', UNCHANGED <<mem, table, cq, newest>>, Alone(w),
           t.it = th[w].it, t.nit = th[w].nit, t.pc # "put",
           PcOf(w)', CopyOf(w)', LaidOut', MemOK'
    PROVE  IInv'
<1>1. th'[w] = t /\ \A v \in Workers \ {w} : th'[v] = th[v]
  BY Becoming DEF IInv
<1>2. PcOK'
  BY AlonePc DEF IInv
<1>3. Items'
  BY <1>1, ItemsStay DEF IInv
<1> QED BY <1>2, <1>3 DEF IInv

LEMMA PoppedSegmentStep ==
    ASSUME IInv, NEW w \in Workers, PoppedSegment(w)
    PROVE  IInv'
<1> DEFINE h == th[w].h
           t == IF h = NULL THEN [th[w] EXCEPT !.pc = "more"]
                ELSE [th[w] EXCEPT !.pc = th[w].then]
<1>0. /\ TypeOK /\ PcOf(w) /\ th[w].pc = "popped" /\ Becomes(w, t) /\ th[w] \in Thread /\ CopyOf(w)
      /\ segLock' = Nobody
      /\ UNCHANGED <<mem, seg_alloced, table, ia, cq, mt, received, newest, harm>>
      /\ IF h = NULL THEN UNCHANGED <<free_segments, seg>>
         ELSE free_segments' = seg[h].next /\ seg' = [seg EXCEPT ![h] = Fresh(seg[h])]
  BY DEF IInv, PcOK, PoppedSegment, At, TypeOK, Goto, Items, CopyOK
<1>1. /\ th[w].then \in {"install", "reserve"} /\ segLock = w /\ h = free_segments
      /\ h \in Segments \cup {NULL}
  BY <1>0 DEF PcOf, Allocating, Thread
<1>2. /\ t \in Thread /\ t.it = th[w].it /\ t.nit = th[w].nit /\ t.then = th[w].then
      /\ t.cleanup = th[w].cleanup /\ t.key = th[w].key /\ t.val = th[w].val /\ t.h = h
      /\ IF h = NULL THEN t.pc = "more" ELSE t.pc = th[w].then
  <2>1. CASE h = NULL
    BY <1>0, <1>1, <2>1 DEF Thread, Labels
  <2>2. CASE h # NULL
    BY <1>0, <1>1, <2>2 DEF Thread, Labels
  <2> QED BY <2>1, <2>2
<1> HIDE DEF t, h
<1>3. th' \in [Workers -> Thread] /\ th'[w] = t /\ \A v \in Workers \ {w} : th'[v] = th[v]
  BY <1>0, <1>2, Becoming
<1>4. InHand(w) = NULL
  BY <1>0 DEF InHand
<1>5. segLock' # w /\ \A x \in (Workers \cup {Maint}) \ {w} : segLock' = x <=> segLock = x
  BY <1>0, <1>1, NamesAssumption
<1>6. PcOf(w)' /\ CopyOf(w)'
  BY <1>0, <1>1, <1>2, <1>3, <1>5 DEF PcOf, Making, Reserving, Allocating, CopyOf
<1>7. CASE h = NULL
  <2>1. harm \subseteq {"lock", "scan"} /\ received \in [Workers -> Nat]
        /\ \A v \in Workers : received[v] <= MaxRequests[v]
    BY <1>0 DEF TypeOK
  <2>2. (IF t.pc \in {"install", "reserve"} THEN t.h ELSE NULL) = InHand(w) /\ t.pc # "put"
    BY <1>2, <1>4, <1>7
  <2> QED BY <1>0, <1>2, <1>5, <1>6, <1>7, <2>1, <2>2, OnlyThread
<1>8. CASE h # NULL
  <2>0. h \in Segments
    BY <1>1, <1>8
  <2>1. PICK home \in [Segments -> Places], pos \in [Segments -> Nat] : Laid(home, pos)
    BY DEF IInv, LaidOut
  <2> DEFINE home2 == Moved(home, h, Hand(w))
  <2>2. ListIn(home, pos, Nexts, Free, h)
    BY <1>1, <2>1 DEF Laid, Lists, ListAt
  <2>3. home[h] = Free
    BY <1>8, <2>2 DEF ListIn
  <2>4. InHand(w)' = h
    BY <1>1, <1>2, <1>3, <1>8 DEF InHand
  <2>5. mt.pc # "pushed"
    BY <1>1, NamesAssumption DEF IInv, PcOK, PcOfMaint
  <2>6. home2[h] = Hand(w) /\ (\A s \in Segments \ {h} : home2[s] = home[s])
        /\ home2 = [home EXCEPT ![h] = Hand(w)]
    BY <2>0 DEF Moved
  <2>7. Nexts[h] = seg[h].next /\ \A s \in Segments : Nexts[s] \in Segments \cup {NULL}
    BY <1>0, <2>0 DEF Nexts, TypeOK
  <2>8. ListIn(home2, pos, Nexts, Free, Nexts[h])
    <3>1. Hand(w) # Free
      BY PlacesDiffer
    <3> HIDE DEF home2
    <3> QED BY <2>0, <2>2, <2>6, <2>7, <3>1, ListPop
  <2>9. \A s \in Segments : s > seg_alloced' <=> home2[s] = Unused
    <3>1. \A s \in Segments : s > seg_alloced <=> home[s] = Unused
      BY <2>1 DEF Laid, Held
    <3> HIDE DEF home2
    <3> QED BY <1>0, <2>0, <2>3, <2>6, <3>1, PlacesDiffer
  <2>10. LaidOut' /\ MemOK'
    <3>1. home[h] \in {Free, Unused} /\ home2 = Moved(home, h, Hand(w))
      BY <2>3
    <3>2. free_segments' = Nexts[h] /\ seg' = [seg EXCEPT ![h] = Fresh(seg[h])]
      BY <1>0, <1>8, <2>7
    <3>3. ListIn(home2, pos, Nexts, Free, free_segments')
      BY <2>8, <3>2
    <3>4. /\ mem' = mem /\ ia' = ia /\ mt' = mt /\ (\A v \in Workers \ {w} : th'[v] = th[v])
          /\ (mt.pc = "pushed" => free_segments' = free_segments)
      BY <1>0, <1>3, <2>5
    <3> HIDE DEF home2
    <3> QED BY <1>4, <2>0, <2>1, <2>4, <2>9, <3>1, <3>2, <3>3, <3>4, ToHand, ZenonT(30)
  <2>13. TypeOK'
    <3>1. seg' \in [Segments -> [offset : 0 .. SegSize, freed : 0 .. SegSize,
                                 flags : SUBSET {"INACTIVE", "CLEANED"},
                                 next : Segments \cup {NULL}]]
      <4>1. seg' = [seg EXCEPT ![h] = Fresh(seg[h])]
        BY <1>0, <1>8
      <4> QED BY <1>0, <2>0, <4>1, FreshIs DEF TypeOK
    <3>2. free_segments' \in Segments \cup {NULL}
      BY <1>0, <1>8, <2>0 DEF TypeOK
    <3> QED BY <1>0, <1>3, <3>1, <3>2 DEF TypeOK
  <2>14. Alone(w)
    BY <1>0, <1>1, <1>3, <1>5 DEF Alone
  <2>15. t.pc # "put"
    BY <1>1, <1>2
  <2> QED BY <1>0, <1>2, <1>6, <2>10, <2>13, <2>14, <2>15, HandsStep
<1> QED BY <1>7, <1>8

LEMMA AnotherSegmentStep ==
    ASSUME IInv, NEW w \in Workers, AnotherSegment(w)
    PROVE  IInv'
<1> DEFINE h == IF seg_alloced < SegMaxNum THEN seg_alloced + 1 ELSE NULL
           t == [th[w] EXCEPT !.pc = th[w].then, !.h = h]
<1>0. /\ TypeOK /\ PcOf(w) /\ th[w].pc = "grow" /\ Becomes(w, t) /\ th[w] \in Thread /\ CopyOf(w)
      /\ UNCHANGED <<mem, free_segments, segLock, table, ia, cq, mt, received, newest, harm>>
      /\ seg_alloced' = IF h = NULL THEN seg_alloced ELSE h
      /\ seg' = IF h = NULL THEN seg ELSE [seg EXCEPT ![h] = Fresh(seg[h])]
  BY DEF IInv, PcOK, AnotherSegment, At, TypeOK, Items, CopyOK
<1>1. /\ th[w].then \in {"install", "reserve"} /\ segLock # w
  BY <1>0 DEF PcOf, Allocating, Thread
<1>2. h \in Segments \cup {NULL} /\ (h # NULL => h = seg_alloced + 1)
  BY <1>0, Sizes DEF TypeOK, Segments
<1> HIDE DEF h
<1>3. /\ t \in Thread /\ t.it = th[w].it /\ t.nit = th[w].nit /\ t.then = th[w].then
      /\ t.cleanup = th[w].cleanup /\ t.key = th[w].key /\ t.val = th[w].val /\ t.h = h
      /\ t.pc = th[w].then
  BY <1>0, <1>1, <1>2 DEF Thread, Labels
<1> HIDE DEF t
<1>4. th' \in [Workers -> Thread] /\ th'[w] = t /\ \A v \in Workers \ {w} : th'[v] = th[v]
  BY <1>0, <1>3, Becoming
<1>5. InHand(w) = NULL
  BY <1>0 DEF InHand
<1>6. PcOf(w)' /\ CopyOf(w)'
  BY <1>0, <1>1, <1>3, <1>4 DEF PcOf, Making, Reserving, Allocating, CopyOf
<1>7. CASE h = NULL
  <2>1. harm \subseteq {"lock", "scan"} /\ received \in [Workers -> Nat]
        /\ segLock \in Workers \cup {Maint, Nobody}
        /\ \A v \in Workers : received[v] <= MaxRequests[v]
    BY <1>0 DEF TypeOK
  <2>2. (IF t.pc \in {"install", "reserve"} THEN t.h ELSE NULL) = InHand(w) /\ t.pc # "put"
    BY <1>1, <1>3, <1>5, <1>7
  <2> QED BY <1>0, <1>3, <1>6, <1>7, <2>1, <2>2, OnlyThread
<1>8. CASE h # NULL
  <2>0. h \in Segments /\ h = seg_alloced + 1 /\ seg_alloced \in Nat /\ seg_alloced' = h
        /\ h \in 0 .. SegMaxNum
    BY <1>0, <1>2, <1>8, Sizes DEF TypeOK, Segments
  <2>1. PICK home \in [Segments -> Places], pos \in [Segments -> Nat] : Laid(home, pos)
    BY DEF IInv, LaidOut
  <2> DEFINE home2 == Moved(home, h, Hand(w))
  <2>2. \A s \in Segments : s > seg_alloced <=> home[s] = Unused
    BY <2>1 DEF Laid, Held
  <2>3. home[h] = Unused
    BY <2>0, <2>2
  <2>4. InHand(w)' = h
    BY <1>1, <1>3, <1>4 DEF InHand
  <2>6. home2[h] = Hand(w) /\ \A s \in Segments \ {h} : home2[s] = home[s]
    BY <2>0 DEF Moved
  <2>7. /\ ListIn(home, pos, Nexts, Free, free_segments)
        /\ \A s \in Segments : Nexts[s] \in Segments \cup {NULL}
        /\ free_segments \in Segments \cup {NULL}
    BY <1>0, <2>1 DEF Nexts, TypeOK, Laid, Lists, ListAt
  <2>8. ListIn(home2, pos, Nexts, Free, free_segments)
    <3>1. \A s \in Segments : home[s] = Free <=> home2[s] = Free
      BY <2>0, <2>3, <2>6, PlacesDiffer
    <3> HIDE DEF home2
    <3> QED BY <2>7, <3>1, ListStays
  <2>9. \A s \in Segments : s > seg_alloced' <=> home2[s] = Unused
    <3>1. \A s \in Segments : s \in Nat
      BY NoSegment
    <3> HIDE DEF home2
    <3> QED BY <2>0, <2>2, <2>6, <3>1, PlacesDiffer
  <2>10. LaidOut' /\ MemOK'
    <3>1. home[h] \in {Free, Unused} /\ home2 = Moved(home, h, Hand(w))
      BY <2>3
    <3>2. free_segments' = free_segments /\ seg' = [seg EXCEPT ![h] = Fresh(seg[h])]
      BY <1>0, <1>8
    <3>3. ListIn(home2, pos, Nexts, Free, free_segments')
      BY <2>8, <3>2
    <3>4. /\ mem' = mem /\ ia' = ia /\ mt' = mt /\ (\A v \in Workers \ {w} : th'[v] = th[v])
          /\ (mt.pc = "pushed" => free_segments' = free_segments)
      BY <1>0, <1>4, <3>2
    <3> HIDE DEF home2
    <3> QED BY <1>5, <2>0, <2>1, <2>4, <2>9, <3>1, <3>2, <3>3, <3>4, ToHand
  <2>13. TypeOK'
    <3>1. seg' \in [Segments -> [offset : 0 .. SegSize, freed : 0 .. SegSize,
                                 flags : SUBSET {"INACTIVE", "CLEANED"},
                                 next : Segments \cup {NULL}]]
      <4>1. seg' = [seg EXCEPT ![h] = Fresh(seg[h])]
        BY <1>0, <1>8
      <4> QED BY <1>0, <2>0, <4>1, FreshIs DEF TypeOK
    <3> QED BY <1>0, <1>4, <2>0, <3>1 DEF TypeOK
  <2>14. Alone(w)
    BY <1>0, <1>1, <1>4 DEF Alone
  <2>15. t.pc # "put"
    BY <1>1, <1>3
  <2> QED BY <1>0, <1>3, <1>6, <2>10, <2>13, <2>14, <2>15, HandsStep
<1> QED BY <1>7, <1>8

LEMMA AllocatorSame ==
    ASSUME TypeOK, NEW w \in Workers, NEW r \in Segments \cup {NULL},
           ia' = [ia EXCEPT ![w].reserved = r]
    PROVE  /\ ia' \in [Workers -> Allocator] /\ ia'[w].reserved = r
           /\ ia'[w].oldest = ia[w].oldest /\ ia'[w].cur = ia[w].cur
           /\ ia'[w].cleaning = ia[w].cleaning
           /\ \A v \in Workers \ {w} : ia'[v] = ia[v]
           /\ ia[w].reserved = r => ia' = ia
<1>1. ia \in [Workers -> Allocator] /\ ia[w] \in Allocator
  BY DEF TypeOK
<1>2. [ia[w] EXCEPT !.reserved = r] \in Allocator
  BY <1>1 DEF Allocator
<1>3. ia[w].reserved = r => [ia[w] EXCEPT !.reserved = r] = ia[w]
  BY <1>1 DEF Allocator
<1>4. ia' = [ia EXCEPT ![w] = [ia[w] EXCEPT !.reserved = r]]
  OBVIOUS
<1> DEFINE a == [ia[w] EXCEPT !.reserved = r]
<1>5. a.reserved = r /\ a.oldest = ia[w].oldest /\ a.cur = ia[w].cur /\ a.cleaning = ia[w].cleaning
  BY <1>1 DEF Allocator
<1> HIDE DEF a
<1>6. ia' = [ia EXCEPT ![w] = a] /\ a \in Allocator
  BY <1>2, <1>4 DEF a
<1>7. ia[w].reserved = r => a = ia[w]
  BY <1>3 DEF a
<1>8. ia[w].reserved = r => ia' = ia
  BY <1>1, <1>6, <1>7
<1> QED BY <1>1, <1>5, <1>6, <1>8

\* The segment in the hands of worker w becomes its reserve.
LEMMA ToReserve ==
    ASSUME IInv, NEW home \in [Segments -> Places], NEW pos \in [Segments -> Nat], Laid(home, pos),
           NEW w \in Workers, NEW h \in Segments, InHand(w) = h, InHand(w)' = NULL,
           ia[w].reserved = NULL, ia' = [ia EXCEPT ![w].reserved = h],
           UNCHANGED <<seg, mem, free_segments, seg_alloced, mt>>,
           \A v \in Workers \ {w} : th'[v] = th[v]
    PROVE  LaidOut'
<1> DEFINE home2 == Moved(home, h, Reserve(w))
<1>1. home2 \in [Segments -> Places] /\ home2[h] = Reserve(w) /\ home[h] = Hand(w)
      /\ \A s \in Segments \ {h} : home2[s] = home[s]
  BY DEF Places, Moved, Laid, Held
<1> HIDE DEF home2
<1>2. /\ ia'[w].reserved = h /\ ia'[w].oldest = ia[w].oldest /\ ia'[w].cur = ia[w].cur
      /\ \A v \in Workers \ {w} : ia'[v] = ia[v]
  BY AllocatorSame DEF IInv
<1>3. Nexts' = Nexts /\ \A s \in Segments : Nexts[s] \in Segments \cup {NULL}
  BY DEF Nexts, IInv, TypeOK
<1>4. Lists(home2, pos)'
  <2>1. ASSUME NEW v \in Workers
        PROVE  ListIn(home2, pos, Nexts', Chain(v), ia'[v].oldest)
    <3>1. ListIn(home, pos, Nexts, Chain(v), ia[v].oldest) /\ ia[v].oldest \in Segments \cup {NULL}
          /\ ia'[v].oldest = ia[v].oldest
      BY <1>2 DEF Laid, Lists, ListAt, IInv, TypeOK, Allocator
    <3>2. \A s \in Segments : home[s] = Chain(v) <=> home2[s] = Chain(v)
      BY <1>1, PlacesDiffer
    <3> QED BY <1>3, <3>1, <3>2, ListStays
  <2>2. ListIn(home2, pos, Nexts', Free, free_segments')
    <3>1. ListIn(home, pos, Nexts, Free, free_segments) /\ free_segments \in Segments \cup {NULL}
      BY DEF Laid, Lists, ListAt, IInv, TypeOK
    <3>2. \A s \in Segments : home[s] = Free <=> home2[s] = Free
      BY <1>1, PlacesDiffer
    <3> QED BY <1>3, <3>1, <3>2, ListStays
  <2> QED BY <2>1, <2>2 DEF Lists, ListAt
<1>5. Held(home2)'
  <2>1. \A s \in Segments : s > seg_alloced' <=> home2[s] = Unused
    BY <1>1, PlacesDiffer DEF Laid, Held
  <2>2. \A v \in Workers : home2[ia'[v].cur] = Chain(v) /\ seg'[ia'[v].cur].next = NULL
    <3> TAKE v \in Workers
    <3>1. ia[v].cur \in Segments /\ ia'[v].cur = ia[v].cur
      BY <1>2 DEF IInv, TypeOK, Allocator
    <3>2. home[ia[v].cur] = Chain(v) /\ seg[ia[v].cur].next = NULL
      BY DEF Laid, Held
    <3>3. ia[v].cur # h
      BY <1>1, <3>2, PlacesDiffer
    <3> QED BY <1>1, <3>1, <3>2, <3>3
  <2>3. \A v \in Workers : \A s \in Segments : home2[s] = Reserve(v) <=> s = ia'[v].reserved
    <3>1. \A v \in Workers : \A s \in Segments : home[s] = Reserve(v) <=> s = ia[v].reserved
      BY DEF Laid, Held
    <3>2. \A s \in Segments : home[s] # Reserve(w)
      BY <3>1, NoSegment
    <3>3. \A v \in Workers : home[h] # Reserve(v)
      BY <1>1, PlacesDiffer
    <3> QED BY <1>1, <1>2, <3>1, <3>2, <3>3, PlacesDiffer
  <2>4. \A v \in Workers : \A s \in Segments : home2[s] = Hand(v) <=> s = InHand(v)'
    <3>1. \A v \in Workers \ {w} : InHand(v)' = InHand(v)
      BY DEF InHand
    <3>2. \A v \in Workers : \A s \in Segments : home[s] = Hand(v) <=> s = InHand(v)
      BY DEF Laid, Held
    <3>3. \A v \in Workers : Reserve(w) # Hand(v) /\ (Hand(v) = Hand(w) => v = w)
      BY PlacesDiffer
    <3>4. \A v \in Workers \ {w} : InHand(v) # h
      BY <1>1, <3>2, <3>3
    <3> QED BY <1>1, <3>1, <3>2, <3>3, <3>4, NoSegment
  <2>5. \A s \in Segments : home2[s] = Given <=> s = GivenBack'
    BY <1>1, PlacesDiffer DEF Laid, Held, GivenBack
  <2> QED BY <2>1, <2>2, <2>3, <2>4, <2>5 DEF Held
<1>6. Walked(home2)'
  <2>1. \A s \in Segments : home[s] = Chain(mt.w) => home2[s] = Chain(mt.w)
    <3>1. Chain(mt.w) # Hand(w)
      BY DEF Chain, Hand
    <3> QED BY <1>1, <3>1
  <2>2. mt.pc # "start" => ia'[mt.w].oldest = ia[mt.w].oldest
    BY <1>2 DEF IInv, PcOK, PcOfMaint
  <2> QED BY <2>1, <2>2, WalkedStays DEF IInv, Laid
<1>7. Vacant(home2)'
  <2>1. Vacant(home)
    BY DEF Laid
  <2> SUFFICES ASSUME NEW s \in Segments
               PROVE  /\ home2[s] \in {Free, Unused} => seg[s].offset = 0
                      /\ home2[s] = Given => LiveIn(mem[s], seg[s].offset) = {}
                      /\ mt.pc = "pushed" /\ home2[s] = Given => seg[s].offset = 0
                      /\ \A v \in Workers :
                          /\ home2[s] \in {Reserve(v), Hand(v)} => seg[s].offset = 0 /\ seg[s].freed = 0
                          /\ home2[s] = Chain(v) /\ seg[s].offset = 0 => seg[s].freed = 0
    BY DEF Vacant
  <2>2. CASE s = h
    <3>1. seg[h].offset = 0 /\ seg[h].freed = 0
      BY <1>1, <2>1 DEF Vacant
    <3>2. home2[s] \notin {Free, Unused, Given}
      BY <1>1, <2>2, PlacesDiffer
    <3> QED BY <2>2, <3>1, <3>2
  <2>3. CASE s # h
    <3>1. home2[s] = home[s]
      BY <1>1, <2>3
    <3> QED BY <2>1, <3>1, Zenon DEF Vacant
  <2> QED BY <2>2, <2>3
<1>8. Laid(home2, pos)'
  BY <1>4, <1>5, <1>6, <1>7 DEF Laid
<1> QED BY <1>1, <1>8, Zenon DEF LaidOut

LEMMA NewReserveStep ==
    ASSUME IInv, NEW w \in Workers, NewReserve(w)
    PROVE  IInv'
<1> DEFINE h == th[w].h
           l == IF th[w].it = NoRef THEN "idle" ELSE "copy"
           t == [th[w] EXCEPT !.h = NULL, !.then = "idle", !.pc = l]
<1>0. /\ TypeOK /\ PcOf(w) /\ th[w].pc = "reserve" /\ Becomes(w, t) /\ th[w] \in Thread
      /\ UNCHANGED <<seg, mem, free_segments, seg_alloced, segLock, table, cq, mt, received, newest, harm>>
      /\ ia' = [ia EXCEPT ![w].reserved = h]
  BY DEF IInv, PcOK, NewReserve, At, TypeOK, pool
<1>1. /\ InHand(w) = h /\ h \in Segments \cup {NULL} /\ ia[w].reserved = NULL
      /\ ~th[w].cleanup /\ th[w].nit = NoRef /\ segLock # w
  BY <1>0 DEF InHand, PcOf, Reserving, Making, Allocating, Thread
<1>2. l \in {"idle", "copy"} /\ (l = "copy" <=> th[w].it # NoRef)
  OBVIOUS
<1> HIDE DEF l, h
<1>3. /\ t \in Thread /\ t.it = th[w].it /\ t.nit = th[w].nit /\ t.then = "idle" /\ t.pc = l
      /\ t.cleanup = th[w].cleanup /\ t.key = th[w].key /\ t.val = th[w].val /\ t.h = NULL
  BY <1>0, <1>2 DEF Thread, Labels
<1> HIDE DEF t
<1>4. th' \in [Workers -> Thread] /\ th'[w] = t /\ \A v \in Workers \ {w} : th'[v] = th[v]
  BY <1>0, <1>3, Becoming
<1>5. PcOf(w)' /\ CopyOf(w)'
  BY <1>0, <1>1, <1>2, <1>3, <1>4 DEF PcOf, Making, Reserving, Allocating, CopyOf
<1>6. /\ ia' \in [Workers -> Allocator] /\ ia'[w].cleaning = ia[w].cleaning
      /\ \A v \in Workers \ {w} : ia'[v] = ia[v]
      /\ h = NULL => ia' = ia
  BY <1>0, <1>1, AllocatorSame
<1>7. TypeOK'
  BY <1>0, <1>4, <1>6 DEF TypeOK
<1>8. InHand(w)' = NULL
  BY <1>2, <1>3, <1>4 DEF InHand
<1>9. PICK home \in [Segments -> Places], pos \in [Segments -> Nat] : Laid(home, pos)
  BY DEF IInv, LaidOut
<1>10. LaidOut'
  <2>1. CASE h # NULL
    <3>1. h \in Segments
      BY <1>1, <2>1
    <3> QED BY <1>0, <1>1, <1>4, <1>8, <1>9, <3>1, ToReserve
  <2>2. CASE h = NULL
    <3>1. \A v \in Workers : InHand(v)' = InHand(v)
      BY <1>1, <1>4, <1>8, <2>2 DEF InHand
    <3>2. \A s \in Segments : StillHolds(s)
      BY <1>0 DEF StillHolds
    <3> QED BY <1>0, <1>6, <2>2, <3>1, <3>2, LaidOutStays
  <2> QED BY <2>1, <2>2
<1>11. MemOK'
  BY <1>0, MemStays DEF IInv
<1>12. Alone(w)
  BY <1>0, <1>4, <1>6 DEF Alone
<1>13. t.pc # "put"
  BY <1>2, <1>3
<1> QED BY <1>0, <1>3, <1>5, <1>7, <1>10, <1>11, <1>12, <1>13, HandsStep

-----------------------------------------------------------------------------
(* Items that are queued, and that a worker takes up. *)

\* The counts and uses of the new state, for one to compare.
LEMMA CountsNext ==
    ASSUME \A r \in Refs \ {NoRef} : CountIn(mem', r) = UsesIn(table', cq', th', r)
    PROVE  CountsOK'
BY UsesAreNext DEF CountsOK

LEMMA CleanItemStep ==
    ASSUME IInv, NEW w \in Workers, CleanItem(w)
    PROVE  IInv'
<1> DEFINE it == IF cq[w] = << >> THEN NoRef ELSE Head(cq[w])
           new == ia[w].reserved = NULL
           l == IF new THEN "seg" ELSE IF it = NoRef THEN "idle" ELSE "copy"
           then == IF new THEN "reserve" ELSE "idle"
           n == IF th[w].idle THEN 0 ELSE th[w].count + 1
           t == [Idle EXCEPT !.it = it, !.idle = th[w].idle, !.count = n,
                             !.then = then, !.pc = l]
<1>0. /\ TypeOK /\ PcOf(w) /\ th[w].pc = "clean" /\ Becomes(w, t) /\ th[w] \in Thread
      /\ UNCHANGED <<seg, mem, free_segments, seg_alloced, segLock, table, ia, mt, received, newest, harm>>
      /\ cq' = [cq EXCEPT ![w] = IF @ = << >> THEN @ ELSE Tail(@)]
      /\ table \in Tables /\ cq \in Queues
  BY DEF IInv, PcOK, CleanItem, At, TypeOK, pool, Tables, Queues
<1>1. it \in Refs /\ n \in Nat /\ th[w].idle \in BOOLEAN
  <2>1. cq[w] \in Seq(Refs)
    BY <1>0 DEF Queues
  <2>2. it \in Refs
    BY <2>1, IdleIs
  <2> QED BY <1>0, <2>2 DEF Thread
<1>2. /\ l \in {"seg", "idle", "copy"} /\ then \in {"reserve", "idle"}
      /\ (l = "copy" => it # NoRef) /\ (l = "idle" => it = NoRef)
      /\ (l = "seg" => then = "reserve" /\ ia[w].reserved = NULL)
  OBVIOUS
<1> HIDE DEF l, then, n, new
<1>3. /\ t \in Thread /\ t.it = it /\ t.nit = NoRef /\ t.then = then /\ t.pc = l
      /\ t.cleanup = FALSE /\ t.h = NULL
  BY <1>1, <1>2, IdleIs DEF Thread, Labels
<1> HIDE DEF t
<1>4. th' \in [Workers -> Thread] /\ th'[w] = t /\ \A v \in Workers \ {w} : th'[v] = th[v]
  BY <1>0, <1>3, Becoming
<1>5. th[w].it = NoRef /\ th[w].nit = NoRef /\ InHand(w) = NULL /\ segLock # w
  BY <1>0, NothingInHand
<1>6. PcOf(w)' /\ CopyOf(w)'
  <2> HIDE DEF it
  <2> QED BY <1>0, <1>2, <1>3, <1>4, <1>5 DEF PcOf, Making, Reserving, Allocating, CopyOf
<1>7. cq' \in Queues
      /\ \A r : Cardinality(InQueues(cq, r)) = Cardinality(InQueues(cq', r)) + One(it, r)
                \/ r = NoRef
  <2>1. CASE cq[w] = << >>
    <3>1. cq' = cq /\ it = NoRef
      BY <1>0, <2>1 DEF Queues
    <3>2. ASSUME NEW r, r # NoRef
          PROVE  Cardinality(InQueues(cq, r)) = Cardinality(InQueues(cq, r)) + One(it, r)
      <4>1. One(it, r) = 0
        BY <3>1, <3>2 DEF One
      <4>2. Cardinality(InQueues(cq, r)) \in Nat
        BY <1>0, UsesTyped
      <4> QED BY <4>1, <4>2
    <3>3. cq' \in Queues
      BY <1>0, <3>1
    <3> QED BY <3>1, <3>2, <3>3
  <2>2. CASE cq[w] # << >>
    <3>1. it = Head(cq[w]) /\ cq' = [cq EXCEPT ![w] = Tail(cq[w])]
      BY <1>0, <2>2
    <3>2. cq \in Queues
      BY <1>0
    <3>3. ASSUME NEW r
          PROVE  /\ cq' \in Queues
                 /\ Cardinality(InQueues(cq, r)) = Cardinality(InQueues(cq', r)) + One(Head(cq[w]), r)
      BY <2>2, <3>1, <3>2, HeadCount
    <3> HIDE DEF it
    <3> QED BY <3>1, <3>3
  <2> QED BY <2>1, <2>2
<1> HIDE DEF it
<1>8. CountsOK'
  <2>1. ASSUME NEW r \in Refs \ {NoRef}
        PROVE  CountIn(mem', r) = UsesIn(table', cq', th', r)
    <3>1. CountIn(mem, r) = UsesIn(table, cq, th, r)
      BY UsesAre DEF IInv, Items, CountsOK
    <3>2. /\ ThreadCount(th, r) \in Nat /\ ThreadCount(th', r) \in Nat
          /\ ThreadCount(th', r) + One(NoRef, r) + One(NoRef, r)
               = ThreadCount(th, r) + One(it, r) + One(NoRef, r)
      <4>1. \A v \in Workers \ {w} : th'[v].it = th[v].it /\ th'[v].nit = th[v].nit
        BY <1>4
      <4>2. th'[w].it = it /\ th'[w].nit = NoRef
        BY <1>3, <1>4
      <4>3. /\ ThreadCount(th, r) \in Nat /\ ThreadCount(th', r) \in Nat
            /\ ThreadCount(th', r) + One(th[w].it, r) + One(th[w].nit, r)
                 = ThreadCount(th, r) + One(th'[w].it, r) + One(th'[w].nit, r)
        BY <4>1, WorkerCount
      <4> QED BY <1>5, <4>2, <4>3
    <3>3. One(NoRef, r) = 0
      BY DEF One
    <3>4. Cardinality(InQueues(cq, r)) = Cardinality(InQueues(cq', r)) + One(it, r)
      BY <1>7
    <3>5. /\ UsesIn(table, cq, th, r) = TableCount(table, r) + Cardinality(InQueues(cq, r)) + ThreadCount(th, r)
          /\ UsesIn(table, cq', th', r) = TableCount(table, r) + Cardinality(InQueues(cq', r)) + ThreadCount(th', r)
      BY <1>0, <1>7, UsesSum
    <3>6. TableCount(table, r) \in Nat /\ Cardinality(InQueues(cq', r)) \in Nat /\ One(it, r) \in Nat
      BY <1>0, <1>7, UsesTyped DEF One
    <3> QED BY <1>0, <3>1, <3>2, <3>3, <3>4, <3>5, <3>6
  <2> QED BY <2>1, CountsNext
<1>9. NewOK' /\ Newest'
  BY <1>0, <1>2, <1>3, <1>4, <1>5 DEF IInv, Items, NewOK, Newest
<1>10. CopyOK'
  <2>1. ASSUME NEW v \in Workers \ {w} PROVE CopyOf(v)'
    BY <1>0, <1>4 DEF IInv, Items, CopyOK, CopyOf, Making
  <2> QED BY <1>6, <2>1 DEF CopyOK
<1>11. TypeOK'
  BY <1>0, <1>4, <1>7 DEF TypeOK, Queues
<1>12. PcOK'
  <2>1. Alone(w)
    BY <1>0, <1>4 DEF Alone
  <2> QED BY <1>6, <2>1, AlonePc DEF IInv
<1>13. LaidOut'
  <2>1. \A v \in Workers : InHand(v)' = InHand(v)
    BY <1>2, <1>3, <1>4, <1>5 DEF InHand
  <2>2. \A s \in Segments : StillHolds(s)
    BY <1>0 DEF StillHolds
  <2> QED BY <1>0, <2>1, <2>2, LaidOutStays
<1>14. MemOK'
  BY <1>0, MemStays DEF IInv
<1> QED BY <1>8, <1>9, <1>10, <1>11, <1>12, <1>13, <1>14 DEF IInv, Items

-----------------------------------------------------------------------------
(* What is in use keeps its key and its value. *)

SameItem(m, m2, r) ==
    ItemIn(m2, r).key = ItemIn(m, r).key /\ ItemIn(m2, r).val = ItemIn(m, r).val

LEMMA TableSame ==
    ASSUME NEW T, NEW m, NEW m2, NEW nw, TableOK(T, m, nw),
           \A b \in Buckets : \A i \in Slots :
               T[b].slots[i] # NoRef => SameItem(m, m2, T[b].slots[i]),
           \A b \in Buckets : \A j \in 1 .. Len(T[b].over) : SameItem(m, m2, T[b].over[j])
    PROVE  TableOK(T, m2, nw)
<1> SUFFICES ASSUME NEW b \in Buckets PROVE BucketOK(T, m2, nw, b)
  BY DEF TableOK
<1> DEFINE slot == T[b].slots
           over == T[b].over
<1>0. BucketOK(T, m, nw, b)
  BY DEF TableOK
<1>1. \A i \in Slots : slot[i] # NoRef =>
          /\ ItemIn(m2, slot[i]).key = ItemIn(m, slot[i]).key
          /\ ItemIn(m2, slot[i]).val = ItemIn(m, slot[i]).val
  BY DEF SameItem
<1>2. \A j \in 1 .. Len(over) :
          /\ ItemIn(m2, over[j]).key = ItemIn(m, over[j]).key
          /\ ItemIn(m2, over[j]).val = ItemIn(m, over[j]).val
  BY DEF SameItem
<1> HIDE DEF slot, over
<1>3. \A i \in Slots : slot[i] # NoRef => LinkOK(m2, nw, b, slot[i])
  BY <1>0, <1>1 DEF BucketOK, InBucket, LinkOK, slot
<1>4. \A j \in 1 .. Len(over) : over[j] # NoRef /\ LinkOK(m2, nw, b, over[j])
  BY <1>0, <1>2 DEF BucketOK, InBucket, LinkOK, over
<1>5. \A i, j \in Slots : slot[i] # NoRef /\ slot[j] # NoRef
          /\ ItemIn(m2, slot[i]).key = ItemIn(m2, slot[j]).key => i = j
  BY <1>0, <1>1 DEF BucketOK, InBucket, slot
<1>6. \A i, j \in 1 .. Len(over) :
          ItemIn(m2, over[i]).key = ItemIn(m2, over[j]).key => i = j
  BY <1>0, <1>2 DEF BucketOK, InBucket, over
<1>7. \A i \in Slots : \A j \in 1 .. Len(over) :
          slot[i] # NoRef => ItemIn(m2, over[j]).key # ItemIn(m2, slot[i]).key
  BY <1>0, <1>1, <1>2 DEF BucketOK, InBucket, slot, over
<1>8. \A k \in Keys : Bucket[k] = b /\ nw[k] # NoValue =>
          \/ \E i \in Slots : slot[i] # NoRef /\ KeyIs(m2, slot[i], k)
          \/ \E j \in 1 .. Len(over) : KeyIs(m2, over[j], k)
  BY <1>0, <1>1, <1>2 DEF BucketOK, InBucket, KeyIs, slot, over
<1> QED BY <1>3, <1>4, <1>5, <1>6, <1>7, <1>8 DEF BucketOK, InBucket, slot, over

\* Who refers to an item besides worker w and the queues.
Elsewhere(w, r) == Placed(table, r) \/ \E v \in Workers \ {w} : th[v].it = r \/ th[v].nit = r
Kept(w) == \A r \in Refs \ {NoRef} : Elsewhere(w, r) => SameItem(mem, mem', r)

LEMMA ItemsKept ==
    ASSUME IInv, NEW w \in Workers, UNCHANGED <<table, newest>>,
           \A v \in Workers \ {w} : th'[v] = th[v],
           Kept(w),
           \A r \in Refs \ {NoRef} : CountIn(mem', r) = UsesIn(table', cq', th', r),
           CopyOf(w)',
           th'[w].pc = "put" => /\ ~Placed(table, th'[w].nit)
                                /\ \A v \in Workers \ {w} : th[v].nit # th'[w].nit,
           th'[w].nit \in {NoRef, th[w].nit} \/ th'[w].pc = "put"
    PROVE  Items'
<1>0. TypeOK /\ NewOK /\ CopyOK /\ Newest /\ table \in Tables
  BY DEF IInv, Items, TypeOK, Tables
<1>1. CountsOK'
  BY CountsNext
<1>2. NewOK'
  <2>1. ASSUME NEW v \in Workers \ {w}, th[v].pc = "put"
        PROVE  ~Placed(table, th[v].nit) /\ \A u \in Workers \ {v} : th'[u].nit # th[v].nit
    <3>1. ~Placed(table, th[v].nit) /\ \A u \in Workers \ {v} : th[u].nit # th[v].nit
      BY <1>0, <2>1 DEF NewOK
    <3>2. th[v].nit # NoRef
      BY <2>1 DEF IInv, PcOK, PcOf
    <3>3. th'[w].nit # th[v].nit
      BY <3>1, <3>2
    <3> QED BY <3>1, <3>3
  <2> QED BY <2>1 DEF NewOK
<1>3. Newest'
  <2>1. ASSUME NEW b \in Buckets, NEW i \in Slots, table[b].slots[i] # NoRef
        PROVE  SameItem(mem, mem', table[b].slots[i])
    <3>1. table[b].slots[i] \in Refs \ {NoRef}
      BY <1>0, <2>1 DEF Tables
    <3> QED BY <3>1 DEF Kept, Elsewhere, Placed
  <2>2. ASSUME NEW b \in Buckets, NEW j \in 1 .. Len(table[b].over)
        PROVE  SameItem(mem, mem', table[b].over[j])
    <3>1. table[b].over[j] # NoRef
      BY <1>0 DEF Newest, TableOK, BucketOK, InBucket
    <3>2. table[b].over \in Seq(Refs)
      BY <1>0 DEF Tables
    <3>3. table[b].over[j] \in Refs \ {NoRef}
      BY <3>1, <3>2
    <3> QED BY <3>3 DEF Kept, Elsewhere, Placed
  <2>3. TableOK(table, mem, newest)
    BY <1>0 DEF Newest
  <2>4. TableOK(table, mem', newest)
    BY <2>1, <2>2, <2>3, TableSame
  <2> QED BY <2>4 DEF Newest
<1>4. CopyOK'
  <2>1. ASSUME NEW v \in Workers \ {w} PROVE CopyOf(v)'
    <3>1. CopyOf(v) /\ th'[v] = th[v] /\ PcOf(v)
      BY <1>0 DEF CopyOK, IInv, PcOK
    <3>2. th[v].it \in Refs /\ th[v].nit \in Refs
      BY <1>0 DEF TypeOK, Thread
    <3>3. Making(v) /\ th[v].cleanup => SameItem(mem, mem', th[v].it)
      <4>1. Making(v) /\ th[v].cleanup => th[v].it # NoRef
        BY <3>1 DEF PcOf
      <4> QED BY <3>2, <4>1 DEF Kept, Elsewhere
    <3>4. th[v].pc = "put" => SameItem(mem, mem', th[v].nit)
      <4>1. th[v].pc = "put" => th[v].nit # NoRef
        BY <3>1 DEF PcOf
      <4> QED BY <3>2, <4>1 DEF Kept, Elsewhere
    <3>5. Making(v)' <=> Making(v)
      BY <3>1 DEF Making
    <3> QED BY <3>1, <3>3, <3>4, <3>5 DEF CopyOf, SameItem
  <2> QED BY <2>1 DEF CopyOK
<1> QED BY <1>1, <1>2, <1>3, <1>4 DEF Items

LEMMA ItemsFrame ==
    ASSUME IInv, NEW w \in Workers, UNCHANGED <<table, newest>>,
           \A v \in Workers \ {w} : th'[v] = th[v],
           \A r \in Refs \ {NoRef} : UsedIn(table, cq, th, r) => SameItem(mem, mem', r),
           \A r \in Refs \ {NoRef} : CountIn(mem', r) = UsesIn(table', cq', th', r),
           CopyOf(w)',
           th'[w].pc = "put" => /\ ~Placed(table, th'[w].nit)
                                /\ \A v \in Workers \ {w} : th[v].nit # th'[w].nit,
           th'[w].nit \in {NoRef, th[w].nit} \/ th'[w].pc = "put"
    PROVE  Items'
<1>1. Kept(w)
  BY DEF Kept, Elsewhere, Placed, UsedIn
<1> QED BY <1>1, ItemsKept

-----------------------------------------------------------------------------
(* An item is written. *)

LEMMA HeaderIs ==
    ASSUME NEW o \in 0 .. SegSize - 1, NEW n \in 1 .. SegSize, NEW key \in Keys \cup {NoKey},
           NEW val \in Values, NEW refs \in {0, 1}
    PROVE  LET new == [at |-> o, key |-> key, val |-> val, size |-> n, refs |-> refs]
           IN  /\ new \in Header /\ new.at = o /\ new.key = key /\ new.val = val
               /\ new.refs = refs
BY DEF Header

Writes(s, n, key, val, refs) ==
    mem' = [mem EXCEPT ![s] = Written(s, seg[s].offset, n, key, val, refs)]
Takes(s, n, refs) ==
    /\ seg'[s].offset = seg[s].offset + n
    /\ seg'[s].freed = IF refs = 0 THEN seg[s].freed + n ELSE seg[s].freed
    /\ \A u \in Segments \ {s} : seg'[u].offset = seg[u].offset /\ seg'[u].freed = seg[u].freed

\* What a segment holds then,
LEMMA MemWrite ==
    ASSUME TypeOK, MemOK, NEW s \in Segments, NEW n \in 1 .. SegSize, seg[s].offset + n <= SegSize,
           NEW key \in Keys \cup {NoKey}, NEW val \in Values, NEW refs \in {0, 1},
           refs = 1 => key \in Keys, seg[s].offset = 0 => seg[s].freed = 0,
           Writes(s, n, key, val, refs), Takes(s, n, refs)
    PROVE  MemOK' /\ mem' \in [Segments -> SUBSET Header] /\ seg'[s].freed \in 0 .. SegSize
<1>1. /\ mem[s] \in SUBSET Header /\ seg[s].offset \in 0 .. SegSize /\ seg[s].freed \in 0 .. SegSize
      /\ Tidy(mem[s], seg[s].offset, seg[s].freed) /\ mem \in [Segments -> SUBSET Header]
  BY DEF TypeOK, MemOK
<1> DEFINE W == Written(s, seg[s].offset, n, key, val, refs)
           new == [at |-> seg[s].offset, key |-> key, val |-> val, size |-> n, refs |-> refs]
<1>0. /\ new \in Header /\ new.at = seg[s].offset /\ new.size = n /\ new.refs = refs
      /\ new.key = key
  <2>1. seg[s].offset \in 0 .. SegSize - 1
    BY <1>1, Sizes
  <2> QED BY <2>1 DEF Header
<1>b. W = Over(mem[s], seg[s].offset, n, new)
  BY DEF Written, Over
<1> HIDE DEF W, new
<1>2. /\ W \in SUBSET Header /\ seg'[s].freed \in 0 .. SegSize
      /\ Tidy(W, seg[s].offset + n, seg'[s].freed)
  <2>1. PICK items \in SUBSET Header : items = mem[s]
    BY <1>1
  <2>2. PICK offset \in 0 .. SegSize : offset = seg[s].offset
    BY <1>1
  <2>3. PICK freed \in 0 .. SegSize : freed = seg[s].freed
    BY <1>1
  <2>4. PICK freed2 : freed2 = seg'[s].freed
    OBVIOUS
  <2>5. PICK x \in Header : x = new
    BY <1>0
  <2>6. PICK items2 : items2 = W
    OBVIOUS
  <2>7. PICK end : end = offset + n
    OBVIOUS
  <2>8. /\ Tidy(items, offset, freed) /\ x.refs \in {0, 1}
        /\ items2 = Over(items, offset, n, x)
    BY <1>0, <1>1, <1>b, <2>1, <2>2, <2>3, <2>4, <2>5, <2>6
  <2>9. freed2 = FreedAfter(freed, n, x.refs)
    BY <1>0, <2>3, <2>4, <2>5 DEF FreedAfter, Takes
  <2>10. Fits(offset, freed, n, x)
    BY <1>0, <2>2, <2>3, <2>5 DEF Fits
  <2>11. items2 \in SUBSET Header /\ freed2 \in 0 .. SegSize /\ Tidy(items2, end, freed2)
    BY <2>7, <2>8, <2>9, <2>10, TidyWrite
  <2> QED BY <2>2, <2>4, <2>6, <2>7, <2>11
<1> USE DEF W
<1>3. mem'[s] = W /\ \A u \in Segments \ {s} : mem'[u] = mem[u]
  BY <1>1 DEF Writes
<1> HIDE DEF W
<1>4. Tidy(mem'[s], seg'[s].offset, seg'[s].freed)
  BY <1>2, <1>3 DEF Takes
<1>5. ASSUME NEW u \in Segments \ {s} PROVE Tidy(mem'[u], seg'[u].offset, seg'[u].freed)
  BY <1>3 DEF MemOK, Takes
<1>6. mem' \in [Segments -> SUBSET Header]
  BY <1>1, <1>2 DEF W, Writes
<1> QED BY <1>2, <1>4, <1>5, <1>6 DEF MemOK

\* A new item that lives is the worker's.
Owns(refs, old, new, q) == IF refs = 0 THEN new = old ELSE old = NoRef /\ new = q
Others(w) == \A v \in Workers \ {w} : th'[v] = th[v]

\* and who has the item.
LEMMA ItemsWrite ==
    ASSUME IInv, NEW w \in Workers, NEW s \in Segments, NEW n \in 1 .. SegSize,
           seg[s].offset + n <= SegSize,
           NEW key \in Keys \cup {NoKey}, NEW val \in Values, NEW refs \in {0, 1},
           Writes(s, n, key, val, refs),
           UNCHANGED <<table, cq>>, Others(w), th'[w].it = th[w].it,
           Owns(refs, th[w].nit, th'[w].nit, <<s, seg[s].offset>>)
    PROVE  /\ \A r \in Refs \ {NoRef} : UsedIn(table, cq, th, r) => SameItem(mem, mem', r)
           /\ \A r \in Refs \ {NoRef} : CountIn(mem', r) = UsesIn(table', cq', th', r)
           /\ <<s, seg[s].offset>> \in Refs \ {NoRef}
           /\ ~UsedIn(table, cq, th, <<s, seg[s].offset>>)
           /\ ItemIn(mem', <<s, seg[s].offset>>).key = key
           /\ ItemIn(mem', <<s, seg[s].offset>>).val = val
<1> DEFINE o == seg[s].offset
           new == [at |-> o, key |-> key, val |-> val, size |-> n, refs |-> refs]
           q == <<s, o>>
<1>1. /\ mem[s] \in SUBSET Header /\ seg[s].offset \in 0 .. SegSize
      /\ Tidy(mem[s], o, seg[s].freed) /\ mem \in [Segments -> SUBSET Header]
      /\ Distinct(mem) /\ table \in Tables /\ cq \in Queues
  BY DEF IInv, TypeOK, MemOK, Tidy, Distinct, Tables, Queues
<1>2. o \in 0 .. SegSize - 1
  BY <1>1, Sizes
<1>3. new \in Header /\ new.at = o /\ new.key = key /\ new.val = val /\ new.refs = refs
  BY <1>2, HeaderIs
<1>4. mem' = [mem EXCEPT ![s] = Over(mem[s], o, n, new)]
  BY DEF Written, Over, Writes
<1>5. \A x \in mem[s] : x.at >= o => x.refs = 0
  BY <1>1 DEF Tidy
<1> HIDE DEF o, new, q
<1>6. /\ q \in Refs \ {NoRef} /\ CountIn(mem, q) = 0 /\ CountIn(mem', q) = refs
      /\ ItemIn(mem', q) = new
      /\ \A r \in Refs \ {NoRef, q} :
            /\ CountIn(mem', r) = CountIn(mem, r)
            /\ CountIn(mem, r) > 0 => ItemIn(mem', r) = ItemIn(mem, r)
  <2>1. PICK m : m = mem
    OBVIOUS
  <2>2. PICK m2 : m2 = mem'
    OBVIOUS
  <2>3. PICK offset \in 0 .. SegSize - 1 : offset = o
    BY <1>2
  <2>4. /\ Distinct(m) /\ DeadFrom(m[s], offset)
        /\ new \in Header /\ new.at = offset
        /\ m2 = OverIn(m, s, offset, n, new)
        /\ m \in [Segments -> SUBSET Header]
    BY <1>1, <1>3, <1>4, <1>5, <2>1, <2>2, <2>3 DEF DeadFrom, OverIn
  <2>5. /\ Distinct(m2) /\ <<s, offset>> \in Refs \ {NoRef}
        /\ CountIn(m, <<s, offset>>) = 0
        /\ CountIn(m2, <<s, offset>>) = new.refs /\ ItemIn(m2, <<s, offset>>) = new
        /\ \A r \in Refs \ {NoRef, <<s, offset>>} :
              /\ CountIn(m2, r) = CountIn(m, r)
              /\ CountIn(m, r) > 0 => ItemIn(m2, r) = ItemIn(m, r)
    BY <2>3, <2>4, CountWrite
  <2> QED BY <1>3, <2>1, <2>2, <2>3, <2>5 DEF q
<1>7. \A r \in Refs \ {NoRef} : CountIn(mem, r) = UsesIn(table, cq, th, r)
  BY UsesAre DEF IInv, Items, CountsOK
<1>8. \A r \in Refs \ {NoRef} : UsedIn(table, cq, th, r) => CountIn(mem, r) > 0
  BY <1>1, <1>7, UsedCounts
<1>9. ~UsedIn(table, cq, th, q)
  BY <1>6, <1>8
<1>10. \A r \in Refs \ {NoRef} : UsedIn(table, cq, th, r) => SameItem(mem, mem', r)
  BY <1>6, <1>8, <1>9 DEF SameItem
<1>11. ASSUME NEW r \in Refs \ {NoRef}
       PROVE  CountIn(mem', r) = UsesIn(table', cq', th', r)
  <2>1. \A v \in Workers \ {w} : th'[v].it = th[v].it /\ th'[v].nit = th[v].nit
    BY DEF Others
  <2>2. /\ ThreadCount(th, r) \in Nat /\ ThreadCount(th', r) \in Nat
        /\ ThreadCount(th', r) + One(th[w].it, r) + One(th[w].nit, r)
             = ThreadCount(th, r) + One(th'[w].it, r) + One(th'[w].nit, r)
    BY <2>1, WorkerCount
  <2>3. /\ UsesIn(table, cq, th, r) = TableCount(table, r) + Cardinality(InQueues(cq, r)) + ThreadCount(th, r)
        /\ UsesIn(table, cq, th', r) = TableCount(table, r) + Cardinality(InQueues(cq, r)) + ThreadCount(th', r)
        /\ TableCount(table, r) \in Nat /\ Cardinality(InQueues(cq, r)) \in Nat
    BY <1>1, UsesSum, UsesTyped
  <2>4. One(th[w].it, r) \in Nat /\ One(th'[w].it, r) = One(th[w].it, r)
    BY DEF One
  <2>5. CASE refs = 0
    <3>1. One(th'[w].nit, r) = One(th[w].nit, r) /\ One(th[w].nit, r) \in Nat
      BY <2>5 DEF One, Owns
    <3>2. UsesIn(table, cq, th', r) = UsesIn(table, cq, th, r)
      BY <2>2, <2>3, <2>4, <3>1
    <3>3. CountIn(mem', r) = CountIn(mem, r)
      BY <1>6, <2>5
    <3> QED BY <1>7, <3>2, <3>3
  <2>6. CASE refs = 1
    <3>1. One(th[w].nit, r) = 0 /\ One(th'[w].nit, r) = One(q, r)
      BY <2>6 DEF One, Owns, q, o
    <3>2. UsesIn(table, cq, th', r) = UsesIn(table, cq, th, r) + One(q, r)
      <4>1. One(q, r) \in Nat
        BY DEF One
      <4> QED BY <2>2, <2>3, <2>4, <3>1, <4>1
    <3>3. CountIn(mem', r) = CountIn(mem, r) + One(q, r)
      <4>1. CASE r = q
        BY <1>6, <2>6, <4>1 DEF One
      <4>2. CASE r # q
        <5>1. UsesIn(table, cq, th, r) \in Nat /\ One(q, r) = 0
          BY <1>1, <4>2, UsesTyped DEF One
        <5>2. CountIn(mem', r) = CountIn(mem, r)
          BY <1>6, <4>2
        <5>3. CountIn(mem, r) \in Nat
          BY <1>7, <5>1
        <5> QED BY <5>1, <5>2, <5>3
      <4> QED BY <4>1, <4>2
    <3> QED BY <1>7, <3>2, <3>3
  <2> QED BY <2>5, <2>6
<1> QED BY <1>3, <1>6, <1>9, <1>10, <1>11 DEF q, o

-----------------------------------------------------------------------------
(* The headers of the segments. *)

SegHeader == [offset : 0 .. SegSize, freed : 0 .. SegSize,
              flags : SUBSET {"INACTIVE", "CLEANED"}, next : Segments \cup {NULL}]

LEMMA SegTyped ==
    ASSUME TypeOK
    PROVE  seg \in [Segments -> SegHeader] /\ \A s \in Segments : seg[s] \in SegHeader
BY DEF TypeOK, SegHeader

LEMMA OneHeader ==
    ASSUME TypeOK, NEW s \in Segments, NEW hdr \in SegHeader, seg' = [seg EXCEPT ![s] = hdr]
    PROVE  /\ seg' \in [Segments -> SegHeader] /\ seg'[s] = hdr
           /\ \A u \in Segments \ {s} : seg'[u] = seg[u]
BY SegTyped

\* Worker w gets memory in segment s.
LEMMA Taken ==
    ASSUME IInv, NEW w \in Workers, th[w].pc \in {"alloc", "install"}, NEW s \in Segments,
           seg[s].offset + Size[th[w].key] <= SegSize,
           TakeFrom(w, s, seg[s]), UNCHANGED <<table, cq, newest>>
    PROVE  /\ Items'
           /\ th' \in [Workers -> Thread] /\ \A v \in Workers \ {w} : th'[v] = th[v]
           /\ th'[w].pc = "put" /\ th'[w].nit # NoRef /\ th'[w].it = th[w].it
           /\ th'[w].key = th[w].key /\ th'[w].cleanup = th[w].cleanup
<1> DEFINE q == <<s, seg[s].offset>>
           t == [th[w] EXCEPT !.pc = "put", !.nit = q, !.h = NULL, !.then = "idle"]
           n == Size[th[w].key]
           key == th[w].key
           val == th[w].val
<1>0. /\ TypeOK /\ PcOf(w) /\ th[w] \in Thread /\ Becomes(w, t) /\ CopyOf(w)
      /\ Writes(s, n, key, val, 1)
  BY DEF IInv, PcOK, TypeOK, TakeFrom, Writes, Items, CopyOK
<1>1. Making(w) /\ th[w].nit = NoRef /\ key \in Keys /\ val \in Values
      /\ (th[w].it = NoRef <=> ~th[w].cleanup)
  BY <1>0 DEF PcOf, Making, Thread
<1>2. n \in 1 .. SegSize /\ seg[s].offset + n <= SegSize
  BY <1>1, Sizes
<1>3. q \in Refs \ {NoRef}
  <2>1. seg[s].offset \in 0 .. SegSize
    BY <1>0 DEF TypeOK
  <2>2. seg[s].offset \in 0 .. SegSize - 1
    BY <1>2, <2>1, Sizes
  <2> QED BY <2>2, NoSegment DEF Refs, NoRef
<1>4. /\ t \in Thread /\ t.it = th[w].it /\ t.nit = q /\ t.pc = "put" /\ t.key = key
      /\ t.cleanup = th[w].cleanup /\ t.val = val
  <2> HIDE DEF q
  <2> QED BY <1>0, <1>3 DEF Thread, Labels
<1> HIDE DEF t, n
<1>5. th' \in [Workers -> Thread] /\ th'[w] = t /\ \A v \in Workers \ {w} : th'[v] = th[v]
  BY <1>0, <1>4, Becoming
<1>6. /\ \A r \in Refs \ {NoRef} : UsedIn(table, cq, th, r) => SameItem(mem, mem', r)
      /\ \A r \in Refs \ {NoRef} : CountIn(mem', r) = UsesIn(table', cq', th', r)
      /\ ~UsedIn(table, cq, th, q)
      /\ ItemIn(mem', q).key = key /\ ItemIn(mem', q).val = val
  <2>1. key \in Keys \cup {NoKey} /\ 1 \in {0, 1}
    BY <1>1
  <2>2. th'[w].it = th[w].it /\ Others(w) /\ Owns(1, th[w].nit, th'[w].nit, <<s, seg[s].offset>>)
    BY <1>1, <1>4, <1>5 DEF Others, Owns
  <2> HIDE DEF key, val
  <2> QED BY <1>0, <1>1, <1>2, <1>5, <2>1, <2>2, ItemsWrite
<1>7. CopyOf(w)'
  <2>1. th[w].cleanup => SameItem(mem, mem', th[w].it)
    BY <1>0, <1>1, <1>6 DEF UsedIn, Thread
  <2> QED BY <1>0, <1>1, <1>4, <1>5, <1>6, <2>1 DEF CopyOf, SameItem
<1>8. ~Placed(table, th'[w].nit) /\ \A v \in Workers \ {w} : th[v].nit # th'[w].nit
  BY <1>4, <1>5, <1>6 DEF Placed, UsedIn
<1>9. Items'
  <2>1. th'[w].nit \in {NoRef, th[w].nit} \/ th'[w].pc = "put"
    BY <1>4, <1>5
  <2> QED BY <1>5, <1>6, <1>7, <1>8, <2>1, ItemsFrame
<1> QED BY <1>3, <1>4, <1>5, <1>9

LEMMA AllocHereStep ==
    ASSUME IInv, NEW w \in Workers, AllocHere(w)
    PROVE  IInv'
<1> DEFINE s == ia[w].cur
           n == Size[th[w].key]
<1>0. /\ TypeOK /\ PcOf(w) /\ th[w].pc = "alloc" /\ TakeFrom(w, s, seg[s])
      /\ SegSize - seg[s].offset >= n
      /\ seg' = [seg EXCEPT ![s].offset = @ + n]
      /\ UNCHANGED <<free_segments, seg_alloced, segLock, table, ia, cq, mt, received, newest, harm>>
  BY DEF IInv, PcOK, AllocHere, MayAlloc, At, Avail, pool
<1>1. /\ th[w].key \in Keys /\ th[w].val \in Values /\ s \in Segments /\ (th[w].it = NoRef <=> ~th[w].cleanup)
      /\ segLock # w
  BY <1>0 DEF PcOf, Making, TypeOK, Thread, Allocator
<1>2. /\ n \in 1 .. SegSize /\ n \in Nat /\ seg[s].offset \in 0 .. SegSize /\ seg[s].offset \in Nat
      /\ seg[s].offset + n <= SegSize /\ SegSize \in Nat
  <2>1. seg[s].offset \in 0 .. SegSize
    BY <1>0, <1>1 DEF TypeOK
  <2> QED BY <1>0, <1>1, <2>1, Sizes
<1>3. /\ Items'
      /\ th' \in [Workers -> Thread] /\ \A v \in Workers \ {w} : th'[v] = th[v]
      /\ th'[w].pc = "put" /\ th'[w].nit # NoRef /\ th'[w].it = th[w].it
      /\ th'[w].key = th[w].key /\ th'[w].cleanup = th[w].cleanup
  BY <1>0, <1>1, <1>2, Taken
<1>4. /\ seg'[s].offset = seg[s].offset + n /\ seg'[s].freed = seg[s].freed
      /\ \A u \in Segments \ {s} : seg'[u] = seg[u]
      /\ \A u \in Segments : seg'[u].next = seg[u].next
      /\ seg' \in [Segments -> [offset : 0 .. SegSize, freed : 0 .. SegSize,
                               flags : SUBSET {"INACTIVE", "CLEANED"},
                               next : Segments \cup {NULL}]]
  <2>1. PICK o \in 0 .. SegSize : o = seg[s].offset + n
    BY <1>2
  <2> HIDE DEF n, s
  <2> DEFINE hdr == [seg[s] EXCEPT !.offset = o]
  <2>2. hdr.offset = o /\ hdr.freed = seg[s].freed /\ hdr.next = seg[s].next /\ hdr \in SegHeader
    <3>1. PICK x \in SegHeader : x = seg[s]
      BY <1>0, <1>1, SegTyped
    <3> QED BY <2>1, <3>1 DEF SegHeader
  <2>3. seg' = [seg EXCEPT ![s] = hdr]
    BY <1>0, <2>1
  <2> HIDE DEF hdr
  <2>4. /\ seg' \in [Segments -> SegHeader] /\ seg'[s] = hdr
        /\ \A u \in Segments \ {s} : seg'[u] = seg[u]
    BY <1>0, <1>1, <2>2, <2>3, OneHeader
  <2>5. \A u \in Segments : seg'[u].next = seg[u].next
    BY <2>2, <2>4
  <2> QED BY <2>1, <2>2, <2>4, <2>5 DEF SegHeader
<1>5. seg[s].offset = 0 => seg[s].freed = 0
  <2>1. PICK home \in [Segments -> Places], pos \in [Segments -> Nat] : Laid(home, pos)
    BY DEF IInv, LaidOut
  <2>2. home[s] = Chain(w) /\ Vacant(home)
    BY <2>1 DEF Laid, Held
  <2> QED BY <1>1, <2>2 DEF Vacant
<1>6. MemOK' /\ mem' \in [Segments -> SUBSET Header]
  <2>1. Writes(s, n, th[w].key, th[w].val, 1)
    BY <1>0 DEF TakeFrom, Writes
  <2>2. /\ Takes(s, n, 1) /\ th[w].key \in Keys \cup {NoKey}
        /\ 1 \in {0, 1} /\ (1 = 1 => th[w].key \in Keys)
    BY <1>1, <1>4 DEF Takes
  <2> HIDE DEF n, s
  <2> QED BY <1>0, <1>1, <1>2, <1>4, <1>5, <2>1, <2>2, MemWrite DEF IInv
<1> HIDE DEF n
<1>7. TypeOK'
  BY <1>0, <1>3, <1>4, <1>6 DEF TypeOK
<1>8. PcOK'
  <2>1. PcOf(w)'
    BY <1>0, <1>1, <1>3 DEF PcOf, Making, Reserving, Allocating
  <2>2. Alone(w)
    BY <1>0, <1>3 DEF Alone
  <2> QED BY <2>1, <2>2, AlonePc DEF IInv
<1>9. LaidOut'
  <2>1. \A v \in Workers : InHand(v)' = InHand(v)
    BY <1>0, <1>3 DEF InHand
  <2>2. \A u \in Segments : \/ StillHolds(u)
                            \/ (\E v \in Workers : u = ia[v].cur) /\ seg'[u].offset > 0
    <3> TAKE u \in Segments
    <3>1. CASE u = s
      <4>1. seg'[u].offset > 0
        BY <1>2, <1>4, <3>1
      <4> QED BY <3>1, <4>1
    <3>2. CASE u # s
      <4>1. mem'[u] = mem[u]
        BY <1>0, <3>2 DEF TakeFrom, TypeOK
      <4> QED BY <1>4, <3>2, <4>1 DEF StillHolds
    <3> QED BY <3>1, <3>2
  <2> QED BY <1>0, <1>4, <2>1, <2>2, LaidOutStays
<1> QED BY <1>3, <1>6, <1>7, <1>8, <1>9 DEF IInv

LEMMA SegmentFullStep ==
    ASSUME IInv, NEW w \in Workers, SegmentFull(w)
    PROVE  IInv'
<1> DEFINE s == ia[w].cur
           t == [th[w] EXCEPT !.pc = "seg", !.then = "install"]
<1>0. /\ TypeOK /\ PcOf(w) /\ th[w].pc = "alloc" /\ Becomes(w, t) /\ th[w] \in Thread /\ CopyOf(w)
      /\ SegSize - seg[s].offset < Size[th[w].key]
      /\ mem' = IF SegSize - seg[s].offset >= HeaderSize
                THEN [mem EXCEPT ![s] = Written(s, seg[s].offset, SegSize - seg[s].offset, NoKey, NoValue, 0)]
                ELSE mem
      /\ seg' = [seg EXCEPT ![s].freed = @ + (SegSize - seg[s].offset), ![s].offset = SegSize]
      /\ UNCHANGED <<free_segments, seg_alloced, segLock, table, ia, cq, mt, received, newest, harm>>
  BY DEF IInv, PcOK, SegmentFull, MayAlloc, At, Avail, pool, TypeOK, Items, CopyOK
<1>1. /\ th[w].key \in Keys /\ s \in Segments /\ segLock # w /\ th[w].nit = NoRef
      /\ (th[w].it = NoRef <=> ~th[w].cleanup)
  BY <1>0 DEF PcOf, Making, TypeOK, Thread, Allocator
<1>2. PICK n \in Nat : n = SegSize - seg[s].offset /\ n \in 0 .. SegSize - 1
  <2>1. seg[s].offset \in 0 .. SegSize
    BY <1>0, <1>1 DEF TypeOK
  <2> QED BY <1>0, <1>1, <2>1, Sizes
<1>3. PICK o \in 1 .. SegSize : o = seg[s].offset /\ o + n = SegSize
  <2>1. seg[s].offset \in 0 .. SegSize
    BY <1>0, <1>1 DEF TypeOK
  <2> QED BY <1>2, <2>1, Sizes
<1>4. PICK f \in Nat : f = seg[s].freed /\ f + n \in 0 .. SegSize
      /\ Tidy(mem[s], SegSize, f + n)
  <2>1. PICK items \in SUBSET Header : items = mem[s] /\ Tidy(items, seg[s].offset, seg[s].freed)
    BY <1>0, <1>1 DEF IInv, TypeOK, MemOK
  <2>2. PICK f \in 0 .. SegSize : f = seg[s].freed
    BY <1>0, <1>1 DEF TypeOK
  <2>3. Tidy(items, o, f)
    BY <1>3, <2>1, <2>2
  <2>4. Tidy(items, SegSize, f + (SegSize - o)) /\ f + (SegSize - o) \in 0 .. SegSize
    BY <1>3, <2>2, <2>3, TidyClose
  <2>5. SegSize - o = n /\ f \in Nat
    BY <1>2, <1>3, <2>2, Sizes
  <2> QED BY <2>1, <2>2, <2>4, <2>5
<1>5. /\ t \in Thread /\ t.it = th[w].it /\ t.nit = th[w].nit /\ t.then = "install" /\ t.pc = "seg"
      /\ t.cleanup = th[w].cleanup /\ t.key = th[w].key /\ t.val = th[w].val
  BY <1>0 DEF Thread, Labels
<1> HIDE DEF t, s
<1>6. th' \in [Workers -> Thread] /\ th'[w] = t /\ \A v \in Workers \ {w} : th'[v] = th[v]
  BY <1>0, <1>5, Becoming
<1>7. /\ seg' \in [Segments -> SegHeader] /\ seg'[s].offset = SegSize /\ seg'[s].freed = f + n
      /\ \A u \in Segments \ {s} : seg'[u] = seg[u]
      /\ \A u \in Segments : seg'[u].next = seg[u].next
  <2> DEFINE hdr == [seg[s] EXCEPT !.freed = f + n, !.offset = SegSize]
  <2>1. hdr.offset = SegSize /\ hdr.freed = f + n /\ hdr.next = seg[s].next /\ hdr \in SegHeader
    <3>1. PICK x \in SegHeader : x = seg[s]
      BY <1>0, <1>1, SegTyped
    <3>2. PICK g \in 0 .. SegSize : g = f + n
      BY <1>4
    <3>3. SegSize \in 0 .. SegSize
      BY Sizes
    <3> QED BY <3>1, <3>2, <3>3 DEF SegHeader
  <2>2. seg' = [seg EXCEPT ![s] = hdr]
    BY <1>0, <1>2, <1>4
  <2> HIDE DEF hdr
  <2>3. /\ seg' \in [Segments -> SegHeader] /\ seg'[s] = hdr
        /\ \A u \in Segments \ {s} : seg'[u] = seg[u]
    BY <1>0, <1>1, <2>1, <2>2, OneHeader
  <2>4. \A u \in Segments : seg'[u].next = seg[u].next
    BY <2>1, <2>3
  <2> QED BY <2>1, <2>3, <2>4
<1>8. PcOf(w)'
  BY <1>0, <1>1, <1>5, <1>6 DEF PcOf, Making, Reserving, Allocating
<1>9. ASSUME n >= HeaderSize
      PROVE  MemOK' /\ Items' /\ mem' \in [Segments -> SUBSET Header]
  <2>1. Writes(s, n, NoKey, NoValue, 0)
    BY <1>0, <1>2, <1>9 DEF Writes
  <2>2. /\ n \in 1 .. SegSize /\ seg[s].offset + n <= SegSize /\ NoKey \in Keys \cup {NoKey}
        /\ NoValue \in Values /\ 0 \in {0, 1}
    BY <1>2, <1>3, <1>9, IdleIs, Sizes
  <2>3. MemOK' /\ mem' \in [Segments -> SUBSET Header]
    <3>1. Takes(s, n, 0)
      BY <1>3, <1>4, <1>7 DEF Takes
    <3>2. seg[s].offset = 0 => seg[s].freed = 0
      BY <1>3, Sizes
    <3> QED BY <1>0, <1>1, <2>1, <2>2, <3>1, <3>2, MemWrite DEF IInv
  <2>4. Items'
    <3>1. th'[w].it = th[w].it /\ Others(w) /\ Owns(0, th[w].nit, th'[w].nit, <<s, seg[s].offset>>)
      BY <1>5, <1>6 DEF Others, Owns
    <3>2. /\ \A r \in Refs \ {NoRef} : UsedIn(table, cq, th, r) => SameItem(mem, mem', r)
          /\ \A r \in Refs \ {NoRef} : CountIn(mem', r) = UsesIn(table', cq', th', r)
      BY <1>0, <1>1, <2>1, <2>2, <3>1, ItemsWrite
    <3>3. CopyOf(w)'
      <4>1. th[w].cleanup => SameItem(mem, mem', th[w].it)
        BY <1>0, <1>1, <3>2 DEF UsedIn, Thread
      <4> QED BY <1>0, <1>5, <1>6, <4>1 DEF CopyOf, SameItem, Making
    <3>4. th'[w].pc # "put" /\ th'[w].nit \in {NoRef, th[w].nit}
      BY <1>5, <1>6
    <3> QED BY <1>0, <1>6, <3>2, <3>3, <3>4, ItemsFrame
  <2> QED BY <2>3, <2>4
<1>10. ASSUME ~(n >= HeaderSize)
       PROVE  MemOK' /\ Items' /\ mem' \in [Segments -> SUBSET Header]
  <2>1. mem' = mem
    BY <1>0, <1>2, <1>10
  <2>2. MemOK'
    <3>1. ASSUME NEW u \in Segments PROVE Tidy(mem[u], seg'[u].offset, seg'[u].freed)
      BY <1>4, <1>7 DEF IInv, MemOK
    <3> QED BY <2>1, <3>1 DEF MemOK
  <2>3. Items'
    <3>1. CopyOf(w)'
      BY <1>0, <1>5, <1>6, <2>1 DEF CopyOf, Making
    <3> QED BY <1>0, <1>5, <1>6, <2>1, <3>1, ItemsStay DEF IInv
  <2> QED BY <1>0, <2>1, <2>2, <2>3 DEF TypeOK
<1>11. MemOK' /\ Items' /\ mem' \in [Segments -> SUBSET Header]
  BY <1>9, <1>10
<1>12. \A u \in Segments \ {s} : mem'[u] = mem[u]
  BY <1>0 DEF TypeOK
<1>13. TypeOK'
  BY <1>0, <1>6, <1>7, <1>11 DEF TypeOK, SegHeader
<1>14. PcOK'
  <2>1. Alone(w)
    BY <1>0, <1>6 DEF Alone
  <2> QED BY <1>8, <2>1, AlonePc DEF IInv
<1>15. LaidOut'
  <2>1. \A v \in Workers : InHand(v)' = InHand(v)
    BY <1>0, <1>5, <1>6 DEF InHand
  <2>2. \A u \in Segments : \/ StillHolds(u)
                            \/ (\E v \in Workers : u = ia[v].cur) /\ seg'[u].offset > 0
    <3> TAKE u \in Segments
    <3>1. CASE u = s
      <4>1. seg'[u].offset > 0 /\ u = ia[w].cur
        BY <1>3, <1>7, <3>1, Sizes DEF s
      <4> QED BY <4>1
    <3>2. CASE u # s
      BY <1>7, <1>12, <3>2 DEF StillHolds
    <3> QED BY <3>1, <3>2
  <2> QED BY <1>0, <1>7, <2>1, <2>2, LaidOutStays
<1> QED BY <1>11, <1>13, <1>14, <1>15 DEF IInv

\* A segment follows the current one of worker w, as its new current one.
Linking(old, h) ==
    /\ seg'[old].next = h /\ seg'[old].offset = seg[old].offset /\ seg'[old].freed = seg[old].freed
    /\ seg'[h].next = NULL /\ seg'[h].offset > 0
    /\ \A s \in Segments \ {old, h} : seg'[s] = seg[s] /\ mem'[s] = mem[s]
Taking(w, h) ==
    /\ ia'[w].cur = h /\ ia'[w].oldest = ia[w].oldest
    /\ \A v \in Workers \ {w} : ia'[v] = ia[v]
    /\ InHand(w)' = NULL
    /\ \/ InHand(w) = h /\ ia'[w].reserved = ia[w].reserved
       \/ InHand(w) = NULL /\ ia[w].reserved = h /\ ia'[w].reserved = NULL

LEMMA ToChain ==
    ASSUME IInv, NEW home \in [Segments -> Places], NEW pos \in [Segments -> Nat], Laid(home, pos),
           NEW w \in Workers, NEW h \in Segments, NEW old \in Segments, old = ia[w].cur,
           Linking(old, h), Taking(w, h), Others(w),
           UNCHANGED <<free_segments, seg_alloced, mt>>
    PROVE  LaidOut'
<1> DEFINE home2 == [home EXCEPT ![h] = Chain(w)]
           pos2 == [pos EXCEPT ![h] = pos[old] + 1]
<1>1. /\ home2 \in [Segments -> Places] /\ home2[h] = Chain(w)
      /\ \A s \in Segments \ {h} : home2[s] = home[s]
      /\ pos2 \in [Segments -> Nat] /\ \A s \in Segments \ {h} : pos2[s] = pos[s]
  BY DEF Places
<1>2. home[h] \in {Hand(w), Reserve(w)} /\ home[old] = Chain(w) /\ seg[old].next = NULL
  BY DEF Laid, Held, Taking
<1>3. h # old /\ \A v \in Workers : home[h] # Chain(v)
  BY <1>2, PlacesDiffer
<1>4. /\ \A s \in Segments : Nexts[s] \in Segments \cup {NULL}
      /\ Nexts[old] = NULL /\ Nexts'[old] = h /\ Nexts'[h] = NULL
      /\ \A s \in Segments \ {old, h} : Nexts'[s] = Nexts[s]
  BY <1>2 DEF Nexts, IInv, TypeOK, Linking
<1>5. ListIn(home2, pos2, Nexts', Chain(w), ia'[w].oldest)
  <2>1. ListIn(home, pos, Nexts, Chain(w), ia[w].oldest) /\ ia[w].oldest \in Segments \cup {NULL}
        /\ ia'[w].oldest = ia[w].oldest
    BY DEF Laid, Lists, ListAt, IInv, TypeOK, Allocator, Taking
  <2>2. \A s \in Segments \ {old} : home[s] = Chain(w) => Nexts'[s] = Nexts[s]
    BY <1>3, <1>4
  <2>3. home[h] # Chain(w)
    BY <1>3
  <2> HIDE DEF home2, pos2
  <2>4. pos2[h] = pos[old] + 1
    BY DEF pos2
  <2>5. PICK nxt : nxt = Nexts
    OBVIOUS
  <2>6. PICK nxt2 : nxt2 = Nexts'
    OBVIOUS
  <2>7. PICK first \in Segments \cup {NULL} : first = ia[w].oldest
    BY <2>1
  <2>8. PICK p : p = Chain(w)
    OBVIOUS
  <2>9. ListIn(home2, pos2, nxt2, p, first)
    <3>1. ListIn(home, pos, nxt, p, first)
      BY <2>1, <2>5, <2>7, <2>8
    <3>2. home[old] = p /\ home[h] # p /\ home2[h] = p
      BY <1>1, <1>2, <2>3, <2>8
    <3>3. nxt[old] = NULL /\ nxt2[old] = h /\ nxt2[h] = NULL
      BY <1>4, <2>5, <2>6
    <3>4. \A s \in Segments : nxt[s] \in Segments \cup {NULL}
      BY <1>4, <2>5
    <3>5. \A s \in Segments \ {old} : home[s] = p => nxt2[s] = nxt[s]
      BY <2>2, <2>5, <2>6, <2>8
    <3>6. home2 \in [Segments -> Places] /\ pos2 \in [Segments -> Nat]
      BY <1>1
    <3>7. /\ \A s \in Segments \ {h} : home2[s] = home[s]
          /\ \A s \in Segments \ {h} : pos2[s] = pos[s]
      BY <1>1
    <3> QED BY ONLY <2>4, <2>7, <3>1, <3>2, <3>3, <3>4, <3>5, <3>6, <3>7, ListAppend,
               home \in [Segments -> Places], pos \in [Segments -> Nat], old \in Segments, h \in Segments
  <2> QED BY <1>1, <2>1, <2>5, <2>6, <2>7, <2>8, <2>9
<1> HIDE DEF home2, pos2
<1>6. Lists(home2, pos2)'
  <2>1. ASSUME NEW v \in Workers \ {w}
        PROVE  ListIn(home2, pos2, Nexts', Chain(v), ia'[v].oldest)
    <3>1. ListIn(home, pos, Nexts, Chain(v), ia[v].oldest) /\ ia[v].oldest \in Segments \cup {NULL}
          /\ ia'[v].oldest = ia[v].oldest
      BY DEF Laid, Lists, ListAt, IInv, TypeOK, Allocator, Taking
    <3>2. Chain(v) # Chain(w)
      BY PlacesDiffer
    <3>3. \A s \in Segments : home[s] = Chain(v) <=> home2[s] = Chain(v)
      BY <1>1, <1>3, <3>2
    <3>4. \A s \in Segments : home[s] = Chain(v) =>
              Nexts[s] \in Segments \cup {NULL} /\ Nexts'[s] = Nexts[s] /\ pos2[s] = pos[s]
      BY <1>1, <1>2, <1>3, <1>4, <3>2
    <3> QED BY <3>1, <3>3, <3>4, ListStays
  <2>2. ListIn(home2, pos2, Nexts', Free, free_segments')
    <3>1. ListIn(home, pos, Nexts, Free, free_segments) /\ free_segments \in Segments \cup {NULL}
      BY DEF Laid, Lists, ListAt, IInv, TypeOK
    <3>2. Chain(w) # Free /\ home[h] # Free
      BY <1>2, PlacesDiffer
    <3>3. \A s \in Segments : home[s] = Free <=> home2[s] = Free
      BY <1>1, <3>2
    <3>4. \A s \in Segments : home[s] = Free =>
              Nexts[s] \in Segments \cup {NULL} /\ Nexts'[s] = Nexts[s] /\ pos2[s] = pos[s]
      BY <1>1, <1>2, <1>4, <3>2
    <3> QED BY <3>1, <3>3, <3>4, ListStays
  <2> QED BY <1>5, <2>1, <2>2 DEF Lists, ListAt
<1>7. Held(home2)'
  <2>1. \A s \in Segments : s > seg_alloced' <=> home2[s] = Unused
    <3>1. \A s \in Segments : s > seg_alloced <=> home[s] = Unused
      BY DEF Laid, Held
    <3>2. home[h] # Unused /\ Chain(w) # Unused
      BY <1>2, PlacesDiffer
    <3> QED BY <1>1, <3>1, <3>2
  <2>2. \A v \in Workers : home2[ia'[v].cur] = Chain(v) /\ seg'[ia'[v].cur].next = NULL
    <3> TAKE v \in Workers
    <3>1. CASE v = w
      BY <1>1, <3>1 DEF Taking, Linking
    <3>2. CASE v # w
      <4>1. ia[v].cur \in Segments /\ ia'[v].cur = ia[v].cur
        BY <3>2 DEF IInv, TypeOK, Allocator, Taking
      <4>2. home[ia[v].cur] = Chain(v) /\ seg[ia[v].cur].next = NULL
        BY DEF Laid, Held
      <4>3. ia[v].cur # h /\ ia[v].cur # old
        BY <1>2, <1>3, <3>2, <4>2, PlacesDiffer
      <4> QED BY <1>1, <4>1, <4>2, <4>3 DEF Linking
    <3> QED BY <3>1, <3>2
  <2>3. \A v \in Workers : \A s \in Segments : home2[s] = Reserve(v) <=> s = ia'[v].reserved
    <3> TAKE v \in Workers
    <3> TAKE s \in Segments
    <3>1. home[s] = Reserve(v) <=> s = ia[v].reserved
      BY DEF Laid, Held
    <3>2. home[h] = Reserve(v) <=> h = ia[v].reserved
      BY DEF Laid, Held
    <3>3. Chain(w) # Reserve(v) /\ (home[h] = Reserve(v) => v = w)
      BY <1>2, PlacesDiffer
    <3>4. CASE v # w
      BY <1>1, <3>1, <3>2, <3>3, <3>4 DEF Taking
    <3>5. CASE v = w
      <4>1. CASE InHand(w) = h /\ ia'[w].reserved = ia[w].reserved
        <5>1. home[h] = Hand(w)
          BY <4>1 DEF Laid, Held
        <5>2. home[h] # Reserve(v)
          BY <3>5, <5>1, PlacesDiffer
        <5> QED BY <1>1, <3>1, <3>2, <3>3, <3>5, <4>1, <5>2
      <4>2. CASE ia[w].reserved = h /\ ia'[w].reserved = NULL
        BY <1>1, <3>1, <3>3, <3>5, <4>2, NoSegment
      <4> QED BY <4>1, <4>2 DEF Taking
    <3> QED BY <3>4, <3>5
  <2>4. \A v \in Workers : \A s \in Segments : home2[s] = Hand(v) <=> s = InHand(v)'
    <3> TAKE v \in Workers
    <3> TAKE s \in Segments
    <3>1. home[s] = Hand(v) <=> s = InHand(v)
      BY DEF Laid, Held
    <3>2. home[h] = Hand(v) <=> h = InHand(v)
      BY DEF Laid, Held
    <3>3. Chain(w) # Hand(v) /\ (home[h] = Hand(v) => v = w)
      BY <1>2, PlacesDiffer
    <3>4. CASE v # w
      <4>1. InHand(v)' = InHand(v)
        BY <3>4 DEF InHand, Others
      <4> QED BY <1>1, <3>1, <3>2, <3>3, <3>4, <4>1
    <3>5. CASE v = w
      <4>1. InHand(v)' = NULL /\ (InHand(v) = h \/ InHand(v) = NULL)
        BY <3>5 DEF Taking
      <4> QED BY <1>1, <3>1, <3>3, <3>5, <4>1, NoSegment
    <3> QED BY <3>4, <3>5
  <2>5. \A s \in Segments : home2[s] = Given <=> s = GivenBack'
    <3>1. \A s \in Segments : home[s] = Given <=> s = GivenBack
      BY DEF Laid, Held
    <3>2. home[h] # Given /\ Chain(w) # Given
      BY <1>2, PlacesDiffer
    <3>3. GivenBack' = GivenBack
      BY DEF GivenBack
    <3> QED BY <1>1, <3>1, <3>2, <3>3
  <2> QED BY <2>1, <2>2, <2>3, <2>4, <2>5 DEF Held
<1>8. Walked(home2)'
  <2>1. \A s \in Segments : home[s] = Chain(mt.w) =>
            /\ home2[s] = Chain(mt.w)
            /\ seg[s].next # NULL => seg'[s].next = seg[s].next
    <3>1. Chain(mt.w) \notin {Hand(w), Reserve(w)}
      BY DEF Chain, Hand, Reserve
    <3> QED BY <1>1, <1>2, <3>1 DEF Linking
  <2>2. mt.pc # "start" => ia'[mt.w].oldest = ia[mt.w].oldest
    BY DEF IInv, PcOK, PcOfMaint, Taking
  <2>3. mt.pc = "pushed" => seg'[mt.h].next = seg[mt.h].next
    <3> SUFFICES ASSUME mt.pc = "pushed" PROVE seg'[mt.h].next = seg[mt.h].next
      OBVIOUS
    <3>1. mt.h \in Segments /\ mt.h = GivenBack
      BY DEF Laid, Walked, GivenBack, IInv, TypeOK, Walker
    <3>2. home[mt.h] = Given
      BY <3>1 DEF Laid, Held
    <3>3. mt.h # h /\ mt.h # old
      BY <1>2, <3>2, PlacesDiffer
    <3> QED BY <3>1, <3>3 DEF Linking
  <2> QED BY <2>1, <2>2, <2>3, WalkedStays DEF IInv, Laid
<1>9. Vacant(home2)'
  <2> SUFFICES ASSUME NEW s \in Segments
               PROVE  /\ home2[s] \in {Free, Unused} => seg'[s].offset = 0
                      /\ home2[s] = Given => LiveIn(mem'[s], seg'[s].offset) = {}
                      /\ mt'.pc = "pushed" /\ home2[s] = Given => seg'[s].offset = 0
                      /\ \A v \in Workers :
                          /\ home2[s] \in {Reserve(v), Hand(v)} => seg'[s].offset = 0 /\ seg'[s].freed = 0
                          /\ home2[s] = Chain(v) /\ seg'[s].offset = 0 => seg'[s].freed = 0
    BY DEF Vacant
  <2>1. Vacant(home)
    BY DEF Laid
  <2>2. CASE s = h \/ s = old
    <3>1. home2[s] = Chain(w)
      BY <1>1, <1>2, <2>2
    <3>2. seg'[s].offset = 0 => seg'[s].freed = 0
      <4>1. CASE s = h
        BY <4>1 DEF Linking
      <4>2. CASE s = old
        BY <1>2, <2>1, <4>2, ZenonT(30) DEF Linking, Vacant
      <4> QED BY <2>2, <4>1, <4>2
    <3> QED BY <3>1, <3>2, PlacesDiffer
  <2>3. CASE s # h /\ s # old
    <3>1. home2[s] = home[s] /\ seg'[s] = seg[s] /\ mem'[s] = mem[s] /\ mt'.pc = mt.pc
      BY <1>1, <2>3 DEF Linking
    <3> QED BY <2>1, <3>1, Zenon DEF Vacant
  <2> QED BY <2>2, <2>3
<1>10. Laid(home2, pos2)'
  BY <1>6, <1>7, <1>8, <1>9 DEF Laid
<1> QED BY <1>1, <1>10, Zenon DEF LaidOut

\* Install without a segment.
LEMMA InstallNothingStep ==
    ASSUME IInv, NEW w \in Workers, Install(w), th[w].h = NULL, ~th[w].cleanup \/ ia[w].reserved = NULL
    PROVE  IInv'
<1> DEFINE t == IF th[w].cleanup THEN [th[w] EXCEPT !.pc = "abort"] ELSE [Idle EXCEPT !.pc = "clean"]
<1>0. /\ TypeOK /\ PcOf(w) /\ CopyOf(w) /\ th[w].pc = "install" /\ Becomes(w, t) /\ th[w] \in Thread
      /\ UNCHANGED <<seg, mem, free_segments, seg_alloced, segLock, table, ia, cq, mt, newest, harm, received>>
  BY DEF IInv, PcOK, Install, At, TypeOK, Items, CopyOK, pool
<1>1. th[w].nit = NoRef /\ InHand(w) = NULL /\ segLock # w /\ (th[w].it = NoRef <=> ~th[w].cleanup)
      /\ th[w].key \in Keys
  BY <1>0 DEF PcOf, Making, InHand
<1>2. /\ t \in Thread /\ t.it = th[w].it /\ t.nit = th[w].nit
      /\ t.pc = (IF th[w].cleanup THEN "abort" ELSE "clean") /\ t.cleanup = th[w].cleanup
      /\ (th[w].cleanup => t.key = th[w].key /\ t.val = th[w].val)
  <2>1. CASE th[w].cleanup
    BY <1>0, <2>1 DEF Thread, Labels
  <2>2. CASE ~th[w].cleanup
    <3>1. t = [Idle EXCEPT !.pc = "clean"]
      BY <2>2
    <3>2. t \in Thread /\ t.it = NoRef /\ t.nit = NoRef /\ t.pc = "clean" /\ ~t.cleanup
      BY <3>1, IdleIs DEF Thread, Labels
    <3>3. t.cleanup = FALSE
      BY <3>1, IdleIs DEF Thread
    <3>4. th[w].cleanup = FALSE
      BY <1>0, <2>2 DEF Thread
    <3> QED BY <1>1, <2>2, <3>2, <3>3, <3>4
  <2> QED BY <2>1, <2>2
<1> HIDE DEF t
<1>3. th'[w] = t
  BY <1>0, <1>2, Becoming
<1>4. PcOf(w)'
  BY <1>0, <1>1, <1>2, <1>3 DEF PcOf, Making, Reserving, Allocating
<1>5. CopyOf(w)'
  BY <1>0, <1>2, <1>3 DEF CopyOf, Making, Allocating
<1>6. segLock \in Workers \cup {Maint, Nobody} /\ harm \subseteq {"lock", "scan"}
      /\ received \in [Workers -> Nat] /\ \A v \in Workers : received[v] <= MaxRequests[v]
  BY <1>0 DEF TypeOK
<1>7. (IF t.pc \in {"install", "reserve"} THEN t.h ELSE NULL) = InHand(w) /\ t.pc # "put"
  BY <1>1, <1>2
<1> QED BY <1>0, <1>2, <1>4, <1>5, <1>6, <1>7, OnlyThread

\* The headers of two segments change.
LEMMA LinkedHeaders ==
    ASSUME TypeOK, NEW old \in Segments, NEW h \in Segments \ {old}, NEW n \in 1 .. SegSize,
           seg[h].offset = 0,
           seg' = [seg EXCEPT ![old].next = h, ![old].flags = @ \cup {"INACTIVE"},
                              ![h].next = NULL, ![h].offset = @ + n]
    PROVE  /\ seg' \in [Segments -> SegHeader]
           /\ seg'[old].next = h /\ seg'[old].offset = seg[old].offset /\ seg'[old].freed = seg[old].freed
           /\ seg'[h].next = NULL /\ seg'[h].offset = n /\ seg'[h].freed = seg[h].freed
           /\ \A v \in Segments \ {old, h} : seg'[v] = seg[v]
<1>1. n \in 0 .. SegSize /\ 0 + n = n
  BY Sizes
<1> DEFINE a == [seg[old] EXCEPT !.next = h, !.flags = @ \cup {"INACTIVE"}]
           b == [seg[h] EXCEPT !.next = NULL, !.offset = n]
<1>2. a \in SegHeader /\ a.next = h /\ a.offset = seg[old].offset /\ a.freed = seg[old].freed
  <2>1. PICK x \in SegHeader : x = seg[old]
    BY SegTyped
  <2>2. a = [x EXCEPT !.next = h, !.flags = x.flags \cup {"INACTIVE"}]
    BY <2>1
  <2>3. x.flags \cup {"INACTIVE"} \in SUBSET {"INACTIVE", "CLEANED"}
    BY <2>1 DEF SegHeader
  <2>4. PICK f \in SUBSET {"INACTIVE", "CLEANED"} : f = x.flags \cup {"INACTIVE"}
    BY <2>3
  <2> QED BY <2>1, <2>2, <2>4 DEF SegHeader
<1>3. b \in SegHeader /\ b.next = NULL /\ b.offset = n /\ b.freed = seg[h].freed
  <2>1. PICK x \in SegHeader : x = seg[h]
    BY SegTyped
  <2> QED BY <1>1, <2>1 DEF SegHeader
<1>4. seg' = [seg EXCEPT ![old] = a, ![h] = b]
  BY <1>1, SegTyped
<1> HIDE DEF a, b
<1>5. /\ seg' \in [Segments -> SegHeader] /\ seg'[old] = a /\ seg'[h] = b
      /\ \A v \in Segments \ {old, h} : seg'[v] = seg[v]
  <2>1. seg \in [Segments -> SegHeader]
    BY SegTyped
  <2> QED BY ONLY <1>2, <1>3, <1>4, <2>1, old \in Segments, h \in Segments \ {old}
<1> QED BY <1>2, <1>3, <1>5

LEMMA InstallStep ==
    ASSUME IInv, NEW w \in Workers, Install(w)
    PROVE  IInv'
<1> DEFINE reserve == th[w].cleanup /\ th[w].h = NULL /\ ia[w].reserved # NULL
           h == IF reserve THEN ia[w].reserved ELSE th[w].h
           old == ia[w].cur
           n == Size[th[w].key]
<1>1. CASE h = NULL
  <2>1. th[w].h = NULL /\ (~th[w].cleanup \/ ia[w].reserved = NULL)
    BY <1>1
  <2> QED BY <2>1, InstallNothingStep
<1>2. CASE h # NULL
  <2>0. /\ TypeOK /\ PcOf(w) /\ th[w].pc = "install"
        /\ seg' = [seg EXCEPT ![old].next = h, ![old].flags = @ \cup {"INACTIVE"},
                              ![h].next = NULL, ![h].offset = @ + n]
        /\ TakeFrom(w, h, seg[h])
        /\ ia' = [ia EXCEPT ![w].cur = h, ![w].reserved = IF reserve THEN NULL ELSE @]
        /\ UNCHANGED <<free_segments, seg_alloced, segLock, table, cq, mt, received, newest, harm>>
    BY <1>2, Zenon DEF IInv, PcOK, Install, At, pool
  <2>1. /\ h \in Segments /\ old \in Segments /\ th[w].key \in Keys /\ th[w].val \in Values
        /\ (th[w].it = NoRef <=> ~th[w].cleanup) /\ segLock # w
        /\ ia[w] \in Allocator
    BY <1>2, <2>0, Zenon DEF PcOf, Making, TypeOK, Thread, Allocator
  <2>2. PICK home \in [Segments -> Places], pos \in [Segments -> Nat] : Laid(home, pos)
    BY DEF IInv, LaidOut
  <2>3. /\ InHand(w) = th[w].h
        /\ \/ InHand(w) = h /\ ~reserve
           \/ InHand(w) = NULL /\ ia[w].reserved = h /\ reserve
    BY <1>2, <2>0, Zenon DEF InHand
  <2>4. home[h] \in {Hand(w), Reserve(w)} /\ home[old] = Chain(w)
    BY <2>1, <2>2, <2>3 DEF Laid, Held
  <2>5. h # old /\ seg[h].offset = 0 /\ seg[h].freed = 0
    <3>1. Vacant(home)
      BY <2>2 DEF Laid
    <3> QED BY <2>1, <2>4, <3>1, PlacesDiffer DEF Vacant
  <2>6. n \in 1 .. SegSize /\ seg[h].offset + n <= SegSize /\ n > 0
    BY <2>1, <2>5, Sizes
  <2>7. ia' \in [Workers -> Allocator] /\ ia'[w].cleaning = ia[w].cleaning /\ Taking(w, h)
    <3>1. ia'[w].cur = h /\ ia'[w].oldest = ia[w].oldest /\ ia'[w].cleaning = ia[w].cleaning
          /\ ia'[w].reserved = (IF reserve THEN NULL ELSE ia[w].reserved)
          /\ (\A v \in Workers \ {w} : ia'[v] = ia[v]) /\ ia' \in [Workers -> Allocator]
      <4>1. PICK r \in Segments \cup {NULL} : r = IF reserve THEN NULL ELSE ia[w].reserved
        BY <2>1 DEF Allocator
      <4>2. PICK a \in Allocator : a = ia[w]
        BY <2>1
      <4> DEFINE b == [a EXCEPT !.cur = h, !.reserved = r]
      <4>3. ia' = [ia EXCEPT ![w] = b]
        BY <2>0, <4>1, <4>2, Zenon
      <4> HIDE DEF reserve, h, old, n
      <4>4. b \in Allocator /\ b.cur = h /\ b.reserved = r /\ b.oldest = a.oldest /\ b.cleaning = a.cleaning
        BY <2>1, <4>1, <4>2 DEF Allocator
      <4> HIDE DEF b
      <4>5. ia \in [Workers -> Allocator]
        BY <2>0 DEF TypeOK
      <4> QED BY <4>1, <4>2, <4>3, <4>4, <4>5
    <3>2. InHand(w)' = NULL
      <4>1. th' = [th EXCEPT ![w] = [th[w] EXCEPT !.pc = "put", !.nit = <<h, seg[h].offset>>,
                                                  !.h = NULL, !.then = "idle"]]
        BY <2>0, Zenon DEF TakeFrom, Becomes
      <4>2. th'[w].pc = "put"
        BY <2>0, <4>1, ZenonT(30) DEF TypeOK, Thread
      <4> QED BY <4>2 DEF InHand
    <3> QED BY <2>3, <3>1, <3>2 DEF Taking
  <2> HIDE DEF reserve, h, old, n
  <2>8. /\ seg' \in [Segments -> SegHeader]
        /\ seg'[old].next = h /\ seg'[old].offset = seg[old].offset /\ seg'[old].freed = seg[old].freed
        /\ seg'[h].next = NULL /\ seg'[h].offset = n /\ seg'[h].freed = seg[h].freed
        /\ \A v \in Segments \ {old, h} : seg'[v] = seg[v]
    BY <2>0, <2>1, <2>5, <2>6, LinkedHeaders
  <2>9. /\ Items'
        /\ th' \in [Workers -> Thread] /\ \A v \in Workers \ {w} : th'[v] = th[v]
        /\ th'[w].pc = "put" /\ th'[w].nit # NoRef /\ th'[w].it = th[w].it
        /\ th'[w].key = th[w].key /\ th'[w].cleanup = th[w].cleanup
    <3>1. seg[h].offset + Size[th[w].key] <= SegSize
      BY <2>6 DEF n
    <3> QED BY <2>0, <2>1, <3>1, Taken
  <2>10. MemOK' /\ mem' \in [Segments -> SUBSET Header]
    <3>1. Writes(h, n, th[w].key, th[w].val, 1)
      BY <2>0 DEF TakeFrom, Writes, n
    <3>2. Takes(h, n, 1)
      <4>1. seg'[h].offset = seg[h].offset + n
        BY <2>5, <2>6, <2>8
      <4> QED BY <2>1, <2>8, <4>1 DEF Takes
    <3>3. th[w].key \in Keys \cup {NoKey} /\ 1 \in {0, 1} /\ (1 = 1 => th[w].key \in Keys)
      BY <2>1
    <3> QED BY <2>0, <2>1, <2>5, <2>6, <3>1, <3>2, <3>3, MemWrite DEF IInv
  <2>11. \A s \in Segments \ {h} : mem'[s] = mem[s]
    BY <2>0 DEF TakeFrom, TypeOK
  <2>12. TypeOK'
    BY <2>0, <2>7, <2>8, <2>9, <2>10 DEF TypeOK, SegHeader
  <2>13. PcOK'
    <3>1. PcOf(w)'
      BY <2>0, <2>1, <2>9 DEF PcOf, Making, Reserving, Allocating
    <3>2. Alone(w)
      BY <2>0, <2>7, <2>9 DEF Alone, Taking
    <3> QED BY <3>1, <3>2, AlonePc DEF IInv
  <2>14. LaidOut'
    <3>1. Linking(old, h)
      BY <2>1, <2>6, <2>8, <2>11 DEF Linking
    <3>2. Others(w) /\ old = ia[w].cur
      BY <2>9 DEF Others, old
    <3> QED BY <2>0, <2>1, <2>2, <2>7, <3>1, <3>2, ToChain
  <2> QED BY <2>9, <2>10, <2>12, <2>13, <2>14 DEF IInv
<1> QED BY <1>1, <1>2

-----------------------------------------------------------------------------
(* References are added and dropped. *)

LEMMA RecountIs ==
    ASSUME TypeOK, MemOK, NEW up \in Refs, NEW down \in Refs, up # down,
           up # NoRef => CountIn(mem, up) > 0, down # NoRef => CountIn(mem, down) > 0,
           Recount(up, down)
    PROVE  /\ MemOK' /\ mem' \in [Segments -> SUBSET Header] /\ seg' \in [Segments -> SegHeader]
           /\ \A s \in Segments : seg'[s].offset = seg[s].offset /\ seg'[s].next = seg[s].next
           /\ \A s \in Segments : StillHolds(s)
           /\ \A r \in Refs \ {NoRef} :
                 /\ CountIn(mem', r) = IF r = up THEN CountIn(mem, r) + 1
                                       ELSE IF r = down THEN CountIn(mem, r) - 1 ELSE CountIn(mem, r)
                 /\ CountIn(mem', r) > 0 => CountIn(mem, r) > 0 /\ SameItem(mem, mem', r)
<1>1. Distinct(mem)
  BY DEF Distinct, TypeOK, MemOK, Tidy
<1>2. mem' = RecountsIn(mem, up, down)
  BY DEF Recount, RecountsIn, Recounts
<1>3. PICK m : m = mem
  OBVIOUS
<1>4. PICK m2 : m2 = mem'
  OBVIOUS
<1>5. /\ Distinct(m2)
      /\ \A r \in Refs \ {NoRef} :
            /\ CountIn(m2, r) = IF r = up THEN CountIn(m, r) + 1
                                ELSE IF r = down THEN CountIn(m, r) - 1 ELSE CountIn(m, r)
            /\ CountIn(m2, r) > 0 =>
                 CountIn(m, r) > 0 /\ ItemIn(m2, r).key = ItemIn(m, r).key
                 /\ ItemIn(m2, r).val = ItemIn(m, r).val
  <2>1. Distinct(m) /\ m2 = RecountsIn(m, up, down)
        /\ (up # NoRef => CountIn(m, up) > 0) /\ (down # NoRef => CountIn(m, down) > 0)
    BY <1>1, <1>2, <1>3, <1>4
  <2> QED BY ONLY <2>1, up \in Refs, down \in Refs, up # down, CountRecount
<1>6. ASSUME NEW s \in Segments
      PROVE  /\ mem'[s] \in SUBSET Header /\ Tidy(mem'[s], seg[s].offset, seg'[s].freed)
             /\ LiveIn(mem[s], seg[s].offset) = {} => LiveIn(mem'[s], seg[s].offset) = {}
             /\ seg'[s].freed # seg[s].freed => seg[s].offset > 0
             /\ seg'[s] \in SegHeader /\ seg'[s].offset = seg[s].offset /\ seg'[s].next = seg[s].next
  <2>1. PICK items \in SUBSET Header : items = mem[s]
    BY DEF TypeOK
  <2>2. PICK hdr \in SegHeader : hdr = seg[s]
    BY SegTyped
  <2>3. PICK offset \in 0 .. SegSize : offset = hdr.offset
    BY <2>2 DEF SegHeader
  <2>4. PICK freed \in 0 .. SegSize : freed = hdr.freed
    BY <2>2 DEF SegHeader
  <2>5. PICK items2 : items2 = Recounts(items, s, up, down)
    OBVIOUS
  <2>6. PICK freed2 : freed2 = FreedBy(s, down)
    OBVIOUS
  <2>7. Tidy(items, offset, freed)
    BY <2>1, <2>2, <2>3, <2>4 DEF MemOK
  <2>8. Counting(items, s, up, down)
    <3> SUFFICES ASSUME NEW x \in items, <<s, x.at>> \in {up, down} PROVE x.refs > 0
      BY DEF Counting
    <3>1. CountIn(mem, <<s, x.at>>) = x.refs
      BY <1>1, <2>1, ItemIs
    <3>2. <<s, x.at>> # NoRef
      BY NoSegment DEF NoRef
    <3> QED BY <3>1, <3>2
  <2>9. FreedTo(items, s, down, freed, freed2)
    <3>1. ASSUME NEW x \in items, <<s, x.at>> = down PROVE down[1] = s /\ ItemAt(down) = x
      <4>1. x \in mem[s]
        BY <2>1
      <4>2. ItemIn(mem, <<s, x.at>>) = x
        BY <1>1, <4>1, ItemIs
      <4> QED BY <3>1, <4>2 DEF ItemIn, ItemAt
    <3>2. ASSUME down[1] = s PROVE \E x \in items : <<s, x.at>> = down
      <4>1. down # NoRef
        BY <3>2, NoSegment DEF NoRef
      <4>2. down = <<down[1], down[2]>>
            /\ \E x \in mem[down[1]] : x.at = down[2]
        BY <1>1, <4>1, CountedIs
      <4> QED BY <2>1, <3>2, <4>2
    <3>3. \A x \in items : <<s, x.at>> = down /\ x.refs = 1 => freed2 = freed + x.size
      BY <2>2, <2>4, <2>6, <3>1 DEF FreedBy, RefsOf
    <3>4. (\A x \in items : ~(<<s, x.at>> = down /\ x.refs = 1)) => freed2 = freed
      <4>1. CASE down[1] = s
        <5>1. PICK x \in items : <<s, x.at>> = down
          BY <3>2, <4>1
        <5>2. ItemAt(down) = x
          BY <3>1, <5>1
        <5> QED BY <2>2, <2>4, <2>6, <5>1, <5>2 DEF FreedBy, RefsOf
      <4>2. CASE down[1] # s
        BY <2>2, <2>4, <2>6, <4>2 DEF FreedBy, RefsOf
      <4> QED BY <4>1, <4>2
    <3> QED BY <3>3, <3>4 DEF FreedTo
  <2>10. /\ items2 \in SUBSET Header /\ Tidy(items2, offset, freed2)
         /\ LiveIn(items, offset) = {} => LiveIn(items2, offset) = {}
         /\ freed2 # freed => offset > 0
         /\ freed2 \in 0 .. SegSize
    BY ONLY <2>5, <2>7, <2>8, <2>9, up # down, items \in SUBSET Header,
            offset \in 0 .. SegSize, freed \in 0 .. SegSize, TidyRecount
  <2>11. items2 = mem'[s]
    BY <1>2, <2>1, <2>5 DEF RecountsIn
  <2>12. seg'[s] = [hdr EXCEPT !.freed = freed2]
    BY <2>2, <2>6 DEF Recount
  <2>13. seg'[s] \in SegHeader /\ seg'[s].offset = offset /\ seg'[s].next = hdr.next /\ seg'[s].freed = freed2
    BY <2>2, <2>3, <2>10, <2>12 DEF SegHeader
  <2> QED BY <2>1, <2>2, <2>3, <2>4, <2>10, <2>11, <2>13
<1>7. mem' \in [Segments -> SUBSET Header]
  BY <1>2, <1>6 DEF RecountsIn
<1>8. seg' \in [Segments -> SegHeader]
  BY <1>6 DEF Recount
<1>9. MemOK'
  <2>1. \A s \in Segments : Tidy(mem'[s], seg'[s].offset, seg'[s].freed)
    BY <1>6
  <2> QED BY <2>1 DEF MemOK
<1>10. \A s \in Segments : StillHolds(s)
  BY <1>6 DEF StillHolds
<1>11. \A r \in Refs \ {NoRef} :
          /\ CountIn(mem', r) = IF r = up THEN CountIn(mem, r) + 1
                                ELSE IF r = down THEN CountIn(mem, r) - 1 ELSE CountIn(mem, r)
          /\ CountIn(mem', r) > 0 => CountIn(mem, r) > 0 /\ SameItem(mem, mem', r)
  BY <1>3, <1>4, <1>5 DEF SameItem
<1> QED BY <1>6, <1>7, <1>8, <1>9, <1>10, <1>11

LEMMA RecountFrame ==
    ASSUME IInv, NEW w \in Workers, NEW t \in Thread, Becomes(w, t),
           UNCHANGED <<free_segments, seg_alloced, segLock, table, ia, cq, mt, newest, harm>>,
           received' \in [Workers -> Nat], \A v \in Workers : received'[v] <= MaxRequests[v],
           NEW up \in Refs, NEW down \in Refs, up # down, Recount(up, down),
           up # NoRef => UsedIn(table, cq, th, up), down # NoRef => UsedIn(table, cq, th, down),
           \A r \in Refs \ {NoRef} :
               One(t.it, r) + One(t.nit, r) + One(down, r)
                 = One(th[w].it, r) + One(th[w].nit, r) + One(up, r),
           InHand(w) = NULL, t.pc \in {"clean", "release"},
           t.nit \in {NoRef, th[w].nit},
           PcOf(w)'
    PROVE  IInv'
<1>0. TypeOK /\ MemOK /\ table \in Tables /\ cq \in Queues /\ CountsOK
  BY DEF IInv, Items, TypeOK, Tables, Queues
<1>1. th' \in [Workers -> Thread] /\ th'[w] = t /\ \A v \in Workers \ {w} : th'[v] = th[v]
  BY <1>0, Becoming
<1>2. (up # NoRef => CountIn(mem, up) > 0) /\ (down # NoRef => CountIn(mem, down) > 0)
  BY UsedIs
<1>3. /\ MemOK' /\ mem' \in [Segments -> SUBSET Header] /\ seg' \in [Segments -> SegHeader]
      /\ \A s \in Segments : seg'[s].offset = seg[s].offset /\ seg'[s].next = seg[s].next
      /\ \A s \in Segments : StillHolds(s)
      /\ \A r \in Refs \ {NoRef} :
            /\ CountIn(mem', r) = IF r = up THEN CountIn(mem, r) + 1
                                  ELSE IF r = down THEN CountIn(mem, r) - 1 ELSE CountIn(mem, r)
            /\ CountIn(mem', r) > 0 => CountIn(mem, r) > 0 /\ SameItem(mem, mem', r)
  BY <1>0, <1>2, RecountIs
<1>4. TypeOK'
  BY <1>0, <1>1, <1>3 DEF TypeOK, SegHeader
<1>5. PcOK'
  <2>1. Alone(w)
    BY <1>1 DEF Alone
  <2> QED BY <2>1, AlonePc DEF IInv
<1>6. LaidOut'
  <2>1. \A v \in Workers : InHand(v)' = InHand(v)
    BY <1>1 DEF InHand
  <2> QED BY <1>3, <2>1, LaidOutStays
<1>7. ASSUME NEW r \in Refs \ {NoRef}
      PROVE  CountIn(mem', r) = UsesIn(table', cq', th', r)
  <2>1. CountIn(mem, r) = UsesIn(table, cq, th, r)
    BY <1>0, UsesAre DEF CountsOK
  <2>2. UsesIn(table, cq, th, r) = TableCount(table, r) + Cardinality(InQueues(cq, r)) + ThreadCount(th, r)
    BY <1>0, UsesSum
  <2>3. UsesIn(table, cq, th', r) = TableCount(table, r) + Cardinality(InQueues(cq, r)) + ThreadCount(th', r)
    BY <1>0, UsesSum
  <2>4. PICK a \in Nat : a = TableCount(table, r) + Cardinality(InQueues(cq, r))
    BY <1>0, UsesTyped
  <2>5. /\ ThreadCount(th, r) \in Nat /\ ThreadCount(th', r) \in Nat
        /\ ThreadCount(th', r) + One(th[w].it, r) + One(th[w].nit, r)
             = ThreadCount(th, r) + One(t.it, r) + One(t.nit, r)
    <3>1. \A v \in Workers \ {w} : th'[v].it = th[v].it /\ th'[v].nit = th[v].nit
      BY <1>1
    <3>2. /\ ThreadCount(th, r) \in Nat /\ ThreadCount(th', r) \in Nat
          /\ ThreadCount(th', r) + One(th[w].it, r) + One(th[w].nit, r)
               = ThreadCount(th, r) + One(th'[w].it, r) + One(th'[w].nit, r)
      <4>1. PICK t1 : t1 = th
        OBVIOUS
      <4>2. PICK t2 : t2 = th'
        OBVIOUS
      <4>3. \A v \in Workers \ {w} : t2[v].it = t1[v].it /\ t2[v].nit = t1[v].nit
        BY <3>1, <4>1, <4>2
      <4>4. /\ ThreadCount(t1, r) \in Nat /\ ThreadCount(t2, r) \in Nat
            /\ ThreadCount(t2, r) + One(t1[w].it, r) + One(t1[w].nit, r)
                 = ThreadCount(t1, r) + One(t2[w].it, r) + One(t2[w].nit, r)
        BY ONLY <4>3, w \in Workers, WorkerCount
      <4> QED BY <4>1, <4>2, <4>4
    <3> QED BY <1>1, <3>2
  <2>6. PICK x \in Nat : x = ThreadCount(th, r)
    BY <2>5
  <2>7. PICK y \in Nat : y = ThreadCount(th', r)
    BY <2>5
  <2>8. One(t.it, r) + One(t.nit, r) + One(down, r) = One(th[w].it, r) + One(th[w].nit, r) + One(up, r)
    OBVIOUS
  <2>9. CountIn(mem', r) = y + a
    <3>1. CountIn(mem, r) = a + x
      BY <1>0, <2>1, <2>2, <2>4, <2>6, UsesTyped
    <3>2. CountIn(mem', r) = (a + x) + One(up, r) - One(down, r)
      BY <1>3, <3>1 DEF One
    <3>3. y + One(th[w].it, r) + One(th[w].nit, r) = x + One(t.it, r) + One(t.nit, r)
      BY <2>5, <2>6, <2>7
    <3> QED BY <2>8, <3>2, <3>3 DEF One
  <2> QED BY <1>0, <2>3, <2>4, <2>7, <2>9, UsesTyped
<1>8. Items'
  <2>1. Kept(w)
    <3> SUFFICES ASSUME NEW r \in Refs \ {NoRef}, Elsewhere(w, r) PROVE SameItem(mem, mem', r)
      BY DEF Kept
    <3>1. UsedIn(table', cq', th', r)
      BY <1>1 DEF Elsewhere, Placed, UsedIn
    <3>2. table' \in Tables /\ cq' \in Queues
      BY <1>0
    <3>3. CountIn(mem', r) > 0
      BY <1>7, <3>1, <3>2, UsedCounts
    <3> QED BY <1>3, <3>3
  <2>2. CopyOf(w)'
    <3>1. ~Making(w)'
      BY <1>1 DEF Making, Allocating
    <3> QED BY <1>1, <3>1 DEF CopyOf
  <2> QED BY <1>1, <1>7, <2>1, <2>2, ItemsKept
<1> QED BY <1>3, <1>4, <1>5, <1>6, <1>8 DEF IInv

LEMMA ReleaseStep ==
    ASSUME IInv, NEW w \in Workers, Release(w)
    PROVE  IInv'
<1> DEFINE new == th[w].nit # NoRef
           r == IF new THEN th[w].nit ELSE th[w].it
           t == IF new THEN [th[w] EXCEPT !.nit = NoRef,
                                    !.pc = IF th[w].it = NoRef THEN "clean" ELSE "release"]
                ELSE [th[w] EXCEPT !.it = NoRef, !.pc = "clean"]
<1>0. /\ TypeOK /\ PcOf(w) /\ th[w].pc = "release" /\ Becomes(w, t) /\ th[w] \in Thread /\ Recount(NoRef, r)
      /\ UNCHANGED <<free_segments, seg_alloced, segLock, table, ia, cq, mt, received, newest, harm>>
  BY DEF IInv, PcOK, Release, At, TypeOK, pool
<1>1. /\ InHand(w) = NULL /\ ~th[w].cleanup /\ segLock # w
      /\ r # NoRef /\ r \in Refs /\ NoRef \in Refs /\ (th[w].nit = r \/ th[w].it = r)
  BY <1>0, IdleIs DEF InHand, PcOf, Making, Allocating, Thread
<1>2. UsedIn(table, cq, th, r)
  BY <1>1 DEF UsedIn
<1>3. /\ t \in Thread /\ t.cleanup = th[w].cleanup /\ t.nit = NoRef
      /\ t.it = (IF new THEN th[w].it ELSE NoRef)
      /\ t.pc = (IF new /\ th[w].it # NoRef THEN "release" ELSE "clean")
  <2>1. CASE new
    <3>1. PICK l \in Labels : l = IF th[w].it = NoRef THEN "clean" ELSE "release"
      BY DEF Labels
    <3>2. t = [th[w] EXCEPT !.nit = NoRef, !.pc = l]
      BY <2>1, <3>1
    <3> QED BY <1>0, <1>1, <2>1, <3>1, <3>2 DEF Thread
  <2>2. CASE ~new
    BY <1>0, <1>1, <2>2 DEF Thread, Labels
  <2> QED BY <2>1, <2>2
<1>4. \A q \in Refs \ {NoRef} :
          One(t.it, q) + One(t.nit, q) + One(r, q) = One(th[w].it, q) + One(th[w].nit, q) + One(NoRef, q)
  BY <1>1, <1>3 DEF One
<1> HIDE DEF t, r, new
<1>5. th'[w] = t
  BY <1>0, <1>3, Becoming
<1>6. PcOf(w)'
  BY <1>0, <1>1, <1>3, <1>5 DEF PcOf, Making, Reserving, Allocating
<1>7. received' \in [Workers -> Nat] /\ \A v \in Workers : received'[v] <= MaxRequests[v]
  BY <1>0 DEF TypeOK
<1>8. NoRef # r /\ t.pc \in {"clean", "release"} /\ t.nit \in {NoRef, th[w].nit}
  BY <1>1, <1>3
<1> QED BY <1>0, <1>1, <1>2, <1>3, <1>4, <1>6, <1>7, <1>8, RecountFrame

LEMMA LinkedIs ==
    ASSUME TypeOK, NEW b \in Buckets, NEW k, NEW r \in Linked(b, k), Newest
    PROVE  r \in Refs \ {NoRef} /\ Placed(table, r)
<1>1. table[b].slots \in [Slots -> Refs] /\ table[b].over \in Seq(Refs)
  BY DEF TypeOK
<1>2. CASE \E i \in InSlot(b, k) : r = table[b].slots[i]
  BY <1>1, <1>2 DEF InSlot, Placed
<1>3. CASE \E j \in InOverflow(b, k) : r = table[b].over[j]
  <2>1. PICK j \in 1 .. Len(table[b].over) : r = table[b].over[j]
    BY <1>3 DEF InOverflow
  <2>2. table[b].over[j] # NoRef
    BY DEF Newest, TableOK, BucketOK, InBucket
  <2> QED BY <1>1, <2>1, <2>2 DEF Placed
<1> QED BY <1>2, <1>3 DEF Linked

LEMMA GetStep ==
    ASSUME IInv, NEW w \in Workers, NEW k \in Keys, Get(w, k)
    PROVE  IInv'
<1> DEFINE found == Linked(Bucket[k], k)
<1>0. /\ TypeOK /\ PcOf(w) /\ Receive(w) /\ th[w].pc = "idle" /\ th[w] \in Thread
      /\ UNCHANGED <<free_segments, seg_alloced, segLock, table, ia, cq, mt, newest, harm>>
  BY Zenon DEF IInv, PcOK, Get, Receive, At, TypeOK, pool
<1>1. th[w].it = NoRef /\ th[w].nit = NoRef /\ ~th[w].cleanup /\ InHand(w) = NULL /\ segLock # w
  BY <1>0, NothingInHand
<1>2. received' \in [Workers -> Nat] /\ \A v \in Workers : received'[v] <= MaxRequests[v]
  BY <1>0, ReceivedTyped
<1>3. CASE found = {}
  <2> DEFINE t == [Idle EXCEPT !.pc = "clean"]
  <2>1. Becomes(w, t) /\ UNCHANGED <<mem, seg>>
    BY <1>3 DEF Get
  <2>2. t \in Thread /\ t.pc = "clean" /\ t.it = NoRef
        /\ t.nit = NoRef /\ ~t.cleanup
    BY IdleIs DEF Thread, Labels
  <2> HIDE DEF t
  <2>3. th'[w] = t
    BY <1>0, <2>1, <2>2, Becoming
  <2>4. PcOf(w)' /\ CopyOf(w)'
    BY <1>0, <1>1, <2>2, <2>3 DEF PcOf, Making, Reserving, Allocating, CopyOf
  <2>5. (IF t.pc \in {"install", "reserve"} THEN t.h ELSE NULL) = InHand(w)
        /\ segLock \in Workers \cup {Maint, Nobody} /\ harm \subseteq {"lock", "scan"}
    BY <1>0, <1>1, <2>2 DEF TypeOK
  <2> QED BY <1>0, <1>1, <1>2, <2>1, <2>2, <2>4, <2>5, OnlyThread
<1>4. CASE found # {}
  <2>1. PICK r \in found : Recount(r, NoRef) /\ Becomes(w, [Idle EXCEPT !.pc = "release", !.it = r])
    BY <1>4, Zenon DEF Get
  <2>2. r \in Refs \ {NoRef} /\ Placed(table, r) /\ NoRef \in Refs /\ r # NoRef
    BY <1>0, <2>1, LinkedIs, IdleIs, Sizes DEF IInv, Items
  <2>3. UsedIn(table, cq, th, r)
    BY <2>2 DEF Placed, UsedIn
  <2> DEFINE t == [Idle EXCEPT !.pc = "release", !.it = r]
  <2>4. t \in Thread /\ t.pc = "release" /\ t.it = r /\ t.nit = NoRef /\ ~t.cleanup
    BY <2>2, IdleIs DEF Thread, Labels
  <2> HIDE DEF t
  <2>5. Becomes(w, t)
    BY <2>1 DEF t
  <2>6. th'[w] = t
    BY <1>0, <2>4, <2>5, Becoming
  <2>7. PcOf(w)'
    BY <1>0, <1>1, <2>2, <2>4, <2>6 DEF PcOf, Making, Reserving, Allocating
  <2>8. \A q \in Refs \ {NoRef} :
          One(t.it, q) + One(t.nit, q) + One(NoRef, q) = One(th[w].it, q) + One(th[w].nit, q) + One(r, q)
    BY <1>1, <2>4 DEF One
  <2>9. t.pc \in {"clean", "release"} /\ t.nit \in {NoRef, th[w].nit}
    BY <2>4
  <2> QED BY <1>0, <1>1, <1>2, <2>1, <2>2, <2>3, <2>4, <2>5, <2>7, <2>8, <2>9, RecountFrame
<1> QED BY <1>3, <1>4

-----------------------------------------------------------------------------
(* An item is linked. *)

\* Item n is the newest of key k of bucket b.
NewIn(m2, nw, nw2, k, b, n) ==
    /\ n # NoRef /\ ItemIn(m2, n).key = k /\ ItemIn(m2, n).val = nw2[k] /\ nw2[k] # NoValue
    /\ k \in Keys /\ Bucket[k] = b
    /\ \A q \in Keys \ {k} : nw2[q] = nw[q]

LEMMA LinkSame ==
    ASSUME NEW m, NEW m2, NEW nw, NEW nw2, NEW b, NEW k, NEW n, NewIn(m2, nw, nw2, k, b, n),
           NEW r, LinkOK(m, nw, b, r), SameItem(m, m2, r), ItemIn(m, r).key # k
    PROVE  LinkOK(m2, nw2, b, r)
BY DEF LinkOK, SameItem, NewIn

LEMMA BucketSlot ==
    ASSUME NEW slot \in [Slots -> Refs], NEW over, NEW m, NEW m2, NEW nw, NEW nw2, NEW b, NEW k, NEW n \in Refs,
           NEW i \in Slots, InBucket(slot, over, m, nw, b), slot[i] # NoRef, KeyIs(m, slot[i], k),
           NewIn(m2, nw, nw2, k, b, n),
           \A x \in Slots \ {i} : slot[x] # NoRef => SameItem(m, m2, slot[x]),
           \A j \in 1 .. Len(over) : SameItem(m, m2, over[j]),
           NEW slot2, slot2 = [slot EXCEPT ![i] = n]
    PROVE  InBucket(slot2, over, m2, nw2, b)
<1>1. slot2[i] = n /\ \A x \in Slots \ {i} : slot2[x] = slot[x]
  OBVIOUS
<1>2. ItemIn(m, slot[i]).key = k /\ ItemIn(m2, n).key = k /\ n # NoRef
  BY DEF KeyIs, NewIn
<1>3. \A x \in Slots \ {i} : slot[x] # NoRef =>
         /\ ItemIn(m, slot[x]).key # k /\ ItemIn(m2, slot[x]).key = ItemIn(m, slot[x]).key
         /\ LinkOK(m2, nw2, b, slot[x])
  <2> TAKE x \in Slots \ {i}
  <2> HAVE slot[x] # NoRef
  <2>1. ItemIn(m, slot[x]).key # k /\ LinkOK(m, nw, b, slot[x])
    BY <1>2 DEF InBucket
  <2>2. SameItem(m, m2, slot[x])
    OBVIOUS
  <2> QED BY <2>1, <2>2, LinkSame DEF SameItem
<1>4. \A j \in 1 .. Len(over) :
         /\ ItemIn(m, over[j]).key # k /\ ItemIn(m2, over[j]).key = ItemIn(m, over[j]).key
         /\ LinkOK(m2, nw2, b, over[j])
  <2> TAKE j \in 1 .. Len(over)
  <2>1. ItemIn(m, over[j]).key # k /\ LinkOK(m, nw, b, over[j])
    BY <1>2 DEF InBucket
  <2>2. SameItem(m, m2, over[j])
    OBVIOUS
  <2> QED BY <2>1, <2>2, LinkSame DEF SameItem
<1>5. LinkOK(m2, nw2, b, n)
  BY DEF LinkOK, NewIn
<1>6. \A x \in Slots : slot2[x] # NoRef => LinkOK(m2, nw2, b, slot2[x])
  BY <1>1, <1>3, <1>5
<1>7. \A j \in 1 .. Len(over) : over[j] # NoRef /\ LinkOK(m2, nw2, b, over[j])
  BY <1>4 DEF InBucket
<1>8. \A x, y \in Slots : slot2[x] # NoRef /\ slot2[y] # NoRef
          /\ ItemIn(m2, slot2[x]).key = ItemIn(m2, slot2[y]).key => x = y
  <2> TAKE x \in Slots
  <2> TAKE y \in Slots
  <2>1. CASE x = i
    BY <1>1, <1>2, <1>3, <2>1
  <2>2. CASE y = i
    BY <1>1, <1>2, <1>3, <2>2
  <2>3. CASE x # i /\ y # i
    BY <1>1, <1>3, <2>3 DEF InBucket
  <2> QED BY <2>1, <2>2, <2>3
<1>9. \A x, y \in 1 .. Len(over) : ItemIn(m2, over[x]).key = ItemIn(m2, over[y]).key => x = y
  BY <1>4 DEF InBucket
<1>10. \A x \in Slots : \A j \in 1 .. Len(over) :
          slot2[x] # NoRef => ItemIn(m2, over[j]).key # ItemIn(m2, slot2[x]).key
  <2> TAKE x \in Slots
  <2> TAKE j \in 1 .. Len(over)
  <2>1. CASE x = i
    BY <1>1, <1>2, <1>4, <2>1
  <2>2. CASE x # i
    BY <1>1, <1>3, <1>4, <2>2 DEF InBucket
  <2> QED BY <2>1, <2>2
<1>11. \A q \in Keys : Bucket[q] = b /\ nw2[q] # NoValue =>
          \/ \E x \in Slots : slot2[x] # NoRef /\ KeyIs(m2, slot2[x], q)
          \/ \E j \in 1 .. Len(over) : KeyIs(m2, over[j], q)
  <2> SUFFICES ASSUME NEW q \in Keys, Bucket[q] = b, nw2[q] # NoValue
               PROVE  \/ \E x \in Slots : slot2[x] # NoRef /\ KeyIs(m2, slot2[x], q)
                      \/ \E j \in 1 .. Len(over) : KeyIs(m2, over[j], q)
    OBVIOUS
  <2>1. CASE q = k
    BY <1>1, <1>2, <2>1 DEF KeyIs
  <2>2. CASE q # k
    <3>1. nw[q] # NoValue
      BY <2>2 DEF NewIn
    <3>2. \/ \E x \in Slots : slot[x] # NoRef /\ KeyIs(m, slot[x], q)
          \/ \E j \in 1 .. Len(over) : KeyIs(m, over[j], q)
      BY <3>1 DEF InBucket
    <3>3. CASE \E x \in Slots : slot[x] # NoRef /\ KeyIs(m, slot[x], q)
      BY <1>1, <1>2, <1>3, <2>2, <3>3 DEF KeyIs
    <3>4. CASE \E j \in 1 .. Len(over) : KeyIs(m, over[j], q)
      BY <1>4, <3>4 DEF KeyIs
    <3> QED BY <3>2, <3>3, <3>4
  <2> QED BY <2>1, <2>2
<1> QED BY <1>6, <1>7, <1>8, <1>9, <1>10, <1>11 DEF InBucket

LEMMA BucketOver ==
    ASSUME NEW slot \in [Slots -> Refs], NEW over \in Seq(Refs), NEW m, NEW m2, NEW nw, NEW nw2, NEW b, NEW k,
           NEW n \in Refs, NEW i \in 1 .. Len(over), InBucket(slot, over, m, nw, b), KeyIs(m, over[i], k),
           NewIn(m2, nw, nw2, k, b, n),
           \A x \in Slots : slot[x] # NoRef => SameItem(m, m2, slot[x]),
           \A j \in (1 .. Len(over)) \ {i} : SameItem(m, m2, over[j]),
           NEW over2, over2 = [over EXCEPT ![i] = n]
    PROVE  InBucket(slot, over2, m2, nw2, b)
<1>0. PICK L \in Nat : L = Len(over) /\ Len(over2) = L
  OBVIOUS
<1>1. over2[i] = n /\ (\A x \in (1 .. L) \ {i} : over2[x] = over[x]) /\ i \in 1 .. L
  BY <1>0
<1>2. ItemIn(m, over[i]).key = k /\ ItemIn(m2, n).key = k /\ n # NoRef
  BY DEF KeyIs, NewIn
<1>3. \A x \in Slots : slot[x] # NoRef =>
         /\ ItemIn(m, slot[x]).key # k /\ ItemIn(m2, slot[x]).key = ItemIn(m, slot[x]).key
         /\ LinkOK(m2, nw2, b, slot[x])
  <2> TAKE x \in Slots
  <2> HAVE slot[x] # NoRef
  <2>1. ItemIn(m, slot[x]).key # k /\ LinkOK(m, nw, b, slot[x])
    BY <1>2 DEF InBucket
  <2>2. SameItem(m, m2, slot[x])
    OBVIOUS
  <2> QED BY <2>1, <2>2, LinkSame DEF SameItem
<1>4. \A j \in (1 .. L) \ {i} :
         /\ ItemIn(m, over[j]).key # k /\ ItemIn(m2, over[j]).key = ItemIn(m, over[j]).key
         /\ LinkOK(m2, nw2, b, over[j])
  <2> TAKE j \in (1 .. L) \ {i}
  <2>1. ItemIn(m, over[j]).key # k /\ LinkOK(m, nw, b, over[j])
    BY <1>0, <1>1, <1>2 DEF InBucket
  <2>2. SameItem(m, m2, over[j])
    BY <1>0
  <2> QED BY <2>1, <2>2, LinkSame DEF SameItem
<1>5. LinkOK(m2, nw2, b, n)
  BY DEF LinkOK, NewIn
<1>6. \A x \in Slots : slot[x] # NoRef => LinkOK(m2, nw2, b, slot[x])
  BY <1>3
<1>7. \A j \in 1 .. Len(over2) : over2[j] # NoRef /\ LinkOK(m2, nw2, b, over2[j])
  BY <1>0, <1>1, <1>2, <1>4, <1>5 DEF InBucket
<1>8. \A x, y \in Slots : slot[x] # NoRef /\ slot[y] # NoRef
          /\ ItemIn(m2, slot[x]).key = ItemIn(m2, slot[y]).key => x = y
  BY <1>3 DEF InBucket
<1>9. \A x, y \in 1 .. Len(over2) : ItemIn(m2, over2[x]).key = ItemIn(m2, over2[y]).key => x = y
  <2>1. \A x, y \in 1 .. L : ItemIn(m2, over2[x]).key = ItemIn(m2, over2[y]).key => x = y
    <3> TAKE x \in 1 .. L
    <3> TAKE y \in 1 .. L
    <3>1. CASE x = i
      BY <1>1, <1>2, <1>4, <3>1
    <3>2. CASE y = i
      BY <1>1, <1>2, <1>4, <3>2
    <3>3. CASE x # i /\ y # i
      BY <1>0, <1>1, <1>4, <3>3 DEF InBucket
    <3> QED BY <3>1, <3>2, <3>3
  <2> QED BY <1>0, <2>1
<1>10. \A x \in Slots : \A j \in 1 .. Len(over2) :
          slot[x] # NoRef => ItemIn(m2, over2[j]).key # ItemIn(m2, slot[x]).key
  <2> TAKE x \in Slots
  <2> TAKE j \in 1 .. Len(over2)
  <2>1. CASE j = i
    BY <1>1, <1>2, <1>3, <2>1
  <2>2. CASE j # i
    <3>1. j \in (1 .. L) \ {i} /\ over2[j] = over[j]
      BY <1>0, <1>1, <2>2
    <3> QED BY <1>0, <1>3, <1>4, <3>1 DEF InBucket
  <2> QED BY <2>1, <2>2
<1>11. \A q \in Keys : Bucket[q] = b /\ nw2[q] # NoValue =>
          \/ \E x \in Slots : slot[x] # NoRef /\ KeyIs(m2, slot[x], q)
          \/ \E j \in 1 .. Len(over2) : KeyIs(m2, over2[j], q)
  <2> SUFFICES ASSUME NEW q \in Keys, Bucket[q] = b, nw2[q] # NoValue
               PROVE  \/ \E x \in Slots : slot[x] # NoRef /\ KeyIs(m2, slot[x], q)
                      \/ \E j \in 1 .. Len(over2) : KeyIs(m2, over2[j], q)
    OBVIOUS
  <2>1. CASE q = k
    BY <1>0, <1>1, <1>2, <2>1 DEF KeyIs
  <2>2. CASE q # k
    <3>1. nw[q] # NoValue
      BY <2>2 DEF NewIn
    <3>2. \/ \E x \in Slots : slot[x] # NoRef /\ KeyIs(m, slot[x], q)
          \/ \E j \in 1 .. L : KeyIs(m, over[j], q)
      BY <1>0, <3>1 DEF InBucket
    <3>3. CASE \E x \in Slots : slot[x] # NoRef /\ KeyIs(m, slot[x], q)
      BY <1>3, <3>3 DEF KeyIs
    <3>4. CASE \E j \in 1 .. L : KeyIs(m, over[j], q)
      BY <1>0, <1>1, <1>2, <1>4, <2>2, <3>4 DEF KeyIs
    <3> QED BY <3>2, <3>3, <3>4
  <2> QED BY <2>1, <2>2
<1> QED BY <1>6, <1>7, <1>8, <1>9, <1>10, <1>11 DEF InBucket

\* What an insertion makes of an overflow list.
Pushed(d, over) == IF d = NoRef THEN over ELSE <<d>> \o over

LEMMA BucketInsert ==
    ASSUME NEW slot \in [Slots -> Refs], NEW over \in Seq(Refs), NEW m, NEW m2, NEW nw, NEW nw2, NEW b, NEW k,
           NEW n \in Refs, NEW i \in Slots, InBucket(slot, over, m, nw, b),
           \A x \in Slots : slot[x] # NoRef => ~KeyIs(m, slot[x], k),
           \A j \in 1 .. Len(over) : ~KeyIs(m, over[j], k),
           NewIn(m2, nw, nw2, k, b, n),
           \A x \in Slots : slot[x] # NoRef => SameItem(m, m2, slot[x]),
           \A j \in 1 .. Len(over) : SameItem(m, m2, over[j]),
           NEW slot2, slot2 = [slot EXCEPT ![i] = n],
           NEW over2, over2 = Pushed(slot[i], over)
    PROVE  InBucket(slot2, over2, m2, nw2, b)
<1>1. slot2[i] = n /\ \A x \in Slots \ {i} : slot2[x] = slot[x]
  OBVIOUS
<1>2. ItemIn(m2, n).key = k /\ n # NoRef /\ LinkOK(m2, nw2, b, n)
  BY DEF LinkOK, NewIn
<1>3. \A x \in Slots : slot[x] # NoRef =>
         /\ ItemIn(m, slot[x]).key # k /\ ItemIn(m2, slot[x]).key = ItemIn(m, slot[x]).key
         /\ LinkOK(m2, nw2, b, slot[x])
  <2> TAKE x \in Slots
  <2> HAVE slot[x] # NoRef
  <2>1. ItemIn(m, slot[x]).key # k /\ LinkOK(m, nw, b, slot[x])
    BY DEF InBucket, KeyIs
  <2>2. SameItem(m, m2, slot[x])
    OBVIOUS
  <2> QED BY <2>1, <2>2, LinkSame DEF SameItem
<1>4. \A j \in 1 .. Len(over) :
         /\ ItemIn(m, over[j]).key # k /\ ItemIn(m2, over[j]).key = ItemIn(m, over[j]).key
         /\ over[j] # NoRef /\ LinkOK(m2, nw2, b, over[j])
  <2> TAKE j \in 1 .. Len(over)
  <2>1. ItemIn(m, over[j]).key # k /\ LinkOK(m, nw, b, over[j]) /\ over[j] # NoRef
    BY DEF InBucket, KeyIs
  <2>2. SameItem(m, m2, over[j])
    OBVIOUS
  <2> QED BY <2>1, <2>2, LinkSame DEF SameItem
<1>5. PICK L \in Nat : L = Len(over)
  OBVIOUS
\* Each place of over2 holds what was in over or, at most one, in slot i.
<1>6. PICK from \in [1 .. Len(over2) -> 0 .. L] :
          /\ \A j \in 1 .. Len(over2) : over2[j] = IF from[j] = 0 THEN slot[i] ELSE over[from[j]]
          /\ \A j \in 1 .. Len(over2) : from[j] = 0 => slot[i] # NoRef
          /\ \A j, l \in 1 .. Len(over2) : from[j] = from[l] => j = l
          /\ \A l \in 1 .. L : \E j \in 1 .. Len(over2) : from[j] = l
          /\ slot[i] # NoRef => \E j \in 1 .. Len(over2) : from[j] = 0
  <2>1. CASE slot[i] = NoRef
    <3> DEFINE f == [j \in 1 .. L |-> j]
    <3>1. over2 = over
      BY <2>1 DEF Pushed
    <3>2. /\ f \in [1 .. L -> 0 .. L] /\ \A j \in 1 .. L : f[j] = j
      OBVIOUS
    <3> HIDE DEF f
    <3>3. 0 \notin 1 .. L
      BY <1>5
    <3> QED BY <1>5, <2>1, <3>1, <3>2, <3>3
  <2>2. CASE slot[i] # NoRef
    <3> DEFINE f == [j \in 1 .. L + 1 |-> j - 1]
    <3>1. over2 = <<slot[i]>> \o over /\ slot[i] \in Refs
      BY <2>2 DEF Pushed
    <3>2. /\ Len(over2) = L + 1 /\ over2[1] = slot[i]
          /\ \A j \in 1 .. L + 1 : j # 1 => over2[j] = over[j - 1]
      BY <1>5, <3>1
    <3>3. /\ f \in [1 .. L + 1 -> 0 .. L] /\ \A j \in 1 .. L + 1 : f[j] = j - 1
      BY <1>5
    <3> HIDE DEF f
    <3>4. \A j \in 1 .. L + 1 : over2[j] = IF f[j] = 0 THEN slot[i] ELSE over[f[j]]
      BY <1>5, <3>2, <3>3
    <3>5. \A j, l \in 1 .. L + 1 : f[j] = f[l] => j = l
      BY <1>5, <3>3
    <3>6. \A l \in 1 .. L : \E j \in 1 .. L + 1 : f[j] = l
      <4> TAKE l \in 1 .. L
      <4>1. l + 1 \in 1 .. L + 1 /\ f[l + 1] = l
        BY <1>5, <3>3
      <4> QED BY <4>1
    <3>7. 1 \in 1 .. L + 1 /\ f[1] = 0
      BY <1>5, <3>3
    <3>8. PICK M : M = Len(over2) /\ M = L + 1
      BY <3>2
    <3>9. /\ f \in [1 .. M -> 0 .. L]
          /\ \A j \in 1 .. M : over2[j] = IF f[j] = 0 THEN slot[i] ELSE over[f[j]]
          /\ \A j \in 1 .. M : f[j] = 0 => slot[i] # NoRef
          /\ \A j, l \in 1 .. M : f[j] = f[l] => j = l
          /\ \A l \in 1 .. L : \E j \in 1 .. M : f[j] = l
          /\ slot[i] # NoRef => \E j \in 1 .. M : f[j] = 0
      <4> HIDE DEF Pushed
      <4> QED BY <2>2, <3>3, <3>4, <3>5, <3>6, <3>7, <3>8
    <3>10. M = Len(over2)
      BY <3>8
    <3> QED BY ONLY <3>9, <3>10, ZenonT(30)
  <2> QED BY <2>1, <2>2
<1>7. \A j \in 1 .. Len(over2) : from[j] # 0 => from[j] \in 1 .. Len(over)
  BY <1>5, <1>6
<1>8. \A j \in 1 .. Len(over2) :
         /\ ItemIn(m2, over2[j]).key = ItemIn(m, over2[j]).key /\ ItemIn(m, over2[j]).key # k
         /\ over2[j] # NoRef /\ LinkOK(m2, nw2, b, over2[j])
  <2> TAKE j \in 1 .. Len(over2)
  <2>1. CASE from[j] = 0
    <3>1. over2[j] = slot[i] /\ slot[i] # NoRef
      BY <1>6, <2>1
    <3> QED BY <1>3, <3>1
  <2>2. CASE from[j] # 0
    <3>1. over2[j] = over[from[j]] /\ from[j] \in 1 .. Len(over)
      BY <1>6, <1>7, <2>2
    <3> QED BY <1>4, <3>1
  <2> QED BY <2>1, <2>2
<1>9. \A x \in Slots : slot2[x] # NoRef => LinkOK(m2, nw2, b, slot2[x])
  BY <1>1, <1>2, <1>3
<1>10. \A x, y \in Slots : slot2[x] # NoRef /\ slot2[y] # NoRef
          /\ ItemIn(m2, slot2[x]).key = ItemIn(m2, slot2[y]).key => x = y
  <2> TAKE x \in Slots
  <2> TAKE y \in Slots
  <2>1. CASE x = i
    BY <1>1, <1>2, <1>3, <2>1
  <2>2. CASE y = i
    BY <1>1, <1>2, <1>3, <2>2
  <2>3. CASE x # i /\ y # i
    BY <1>1, <1>3, <2>3 DEF InBucket
  <2> QED BY <2>1, <2>2, <2>3
<1>11. \A x, y \in 1 .. Len(over2) : ItemIn(m2, over2[x]).key = ItemIn(m2, over2[y]).key => x = y
  <2> TAKE x \in 1 .. Len(over2)
  <2> TAKE y \in 1 .. Len(over2)
  <2>1. ItemIn(m, over2[x]).key = ItemIn(m, over2[y]).key => from[x] = from[y]
    <3>1. CASE from[x] = 0
      BY <1>6, <1>7, <3>1 DEF InBucket
    <3>2. CASE from[y] = 0
      BY <1>6, <1>7, <3>2 DEF InBucket
    <3>3. CASE from[x] # 0 /\ from[y] # 0
      BY <1>6, <1>7, <3>3 DEF InBucket
    <3> QED BY <3>1, <3>2, <3>3
  <2> QED BY <1>6, <1>8, <2>1
<1>12. \A x \in Slots : \A j \in 1 .. Len(over2) :
          slot2[x] # NoRef => ItemIn(m2, over2[j]).key # ItemIn(m2, slot2[x]).key
  <2> TAKE x \in Slots
  <2> TAKE j \in 1 .. Len(over2)
  <2>1. CASE x = i
    BY <1>1, <1>2, <1>8, <2>1
  <2>2. CASE x # i /\ from[j] = 0
    BY <1>1, <1>3, <1>6, <1>8, <2>2 DEF InBucket
  <2>3. CASE x # i /\ from[j] # 0
    BY <1>1, <1>3, <1>6, <1>7, <1>8, <2>3 DEF InBucket
  <2> QED BY <2>1, <2>2, <2>3
<1>13. \A q \in Keys : Bucket[q] = b /\ nw2[q] # NoValue =>
          \/ \E x \in Slots : slot2[x] # NoRef /\ KeyIs(m2, slot2[x], q)
          \/ \E j \in 1 .. Len(over2) : KeyIs(m2, over2[j], q)
  <2> SUFFICES ASSUME NEW q \in Keys, Bucket[q] = b, nw2[q] # NoValue
               PROVE  \/ \E x \in Slots : slot2[x] # NoRef /\ KeyIs(m2, slot2[x], q)
                      \/ \E j \in 1 .. Len(over2) : KeyIs(m2, over2[j], q)
    OBVIOUS
  <2>1. CASE q = k
    BY <1>1, <1>2, <2>1 DEF KeyIs
  <2>2. CASE q # k
    <3>1. nw[q] # NoValue
      BY <2>2 DEF NewIn
    <3>2. \/ \E x \in Slots : slot[x] # NoRef /\ KeyIs(m, slot[x], q)
          \/ \E j \in 1 .. L : KeyIs(m, over[j], q)
      BY <1>5, <3>1 DEF InBucket
    <3>3. ASSUME NEW x \in Slots, slot[x] # NoRef, KeyIs(m, slot[x], q), x # i
          PROVE  slot2[x] # NoRef /\ KeyIs(m2, slot2[x], q)
      BY <1>1, <1>3, <3>3 DEF KeyIs
    <3>4. ASSUME slot[i] # NoRef, KeyIs(m, slot[i], q)
          PROVE  \E j \in 1 .. Len(over2) : KeyIs(m2, over2[j], q)
      <4>1. PICK j \in 1 .. Len(over2) : from[j] = 0
        BY <1>6, <3>4
      <4> QED BY <1>6, <1>8, <3>4, <4>1 DEF KeyIs
    <3>5. ASSUME NEW l \in 1 .. L, KeyIs(m, over[l], q)
          PROVE  \E j \in 1 .. Len(over2) : KeyIs(m2, over2[j], q)
      <4>1. PICK j \in 1 .. Len(over2) : from[j] = l
        BY <1>6
      <4>2. l # 0
        BY <1>5
      <4> QED BY <1>6, <1>8, <3>5, <4>1, <4>2 DEF KeyIs
    <3> QED BY <3>2, <3>3, <3>4, <3>5
  <2> QED BY <2>1, <2>2
<1> QED BY <1>8, <1>9, <1>10, <1>11, <1>12, <1>13 DEF InBucket

\* What a worker does besides linking the item n, in the place of item down.
PutDone(w, n, down) ==
    /\ UNCHANGED <<free_segments, seg_alloced, segLock, ia, cq, mt, received, harm>>
    /\ newest' \in [Keys -> Values] /\ table' \in Tables
    /\ Recount(n, down) /\ down # n /\ (down # NoRef => Placed(table, down))
    /\ \A r \in Refs \ {NoRef} :
          /\ TableCount(table', r) + One(down, r) = TableCount(table, r) + One(n, r)
          /\ Placed(table', r) => Placed(table, r) \/ r = n

LEMMA PutFrame ==
    ASSUME IInv, NEW w \in Workers, th[w].pc = "put", NEW t \in Thread, Becomes(w, t), t.pc = "release",
           t.it = th[w].it, t.nit = th[w].nit, ~t.cleanup, NEW down \in Refs, PutDone(w, th[w].nit, down)
    PROVE  /\ Newest' => IInv'
           /\ \A r \in Refs \ {NoRef} : Placed(table', r) => SameItem(mem, mem', r)
<1> DEFINE n == th[w].nit
<1>0. /\ TypeOK /\ MemOK /\ table \in Tables /\ cq \in Queues /\ CountsOK /\ PcOf(w) /\ NewOK /\ CopyOK
      /\ table' \in Tables /\ Recount(n, down) /\ down # n
      /\ UNCHANGED <<free_segments, seg_alloced, segLock, ia, cq, mt, received, harm>>
  BY DEF IInv, PcOK, Items, TypeOK, Tables, Queues, PutDone
<1>1. th' \in [Workers -> Thread] /\ th'[w] = t /\ \A v \in Workers \ {w} : th'[v] = th[v]
  BY <1>0, Becoming
<1>2. n # NoRef /\ n \in Refs /\ InHand(w) = NULL /\ segLock # w
  BY <1>0 DEF PcOf, TypeOK, Thread, InHand
<1>3. (n # NoRef => CountIn(mem, n) > 0) /\ (down # NoRef => CountIn(mem, down) > 0)
  <2>1. UsedIn(table, cq, th, n) /\ (down # NoRef => UsedIn(table, cq, th, down))
    BY DEF UsedIn, PutDone, Placed
  <2> QED BY <1>2, <2>1, UsedIs
<1>4. /\ MemOK' /\ mem' \in [Segments -> SUBSET Header] /\ seg' \in [Segments -> SegHeader]
      /\ \A s \in Segments : seg'[s].offset = seg[s].offset /\ seg'[s].next = seg[s].next
      /\ \A s \in Segments : StillHolds(s)
      /\ \A r \in Refs \ {NoRef} :
            /\ CountIn(mem', r) = IF r = n THEN CountIn(mem, r) + 1
                                  ELSE IF r = down THEN CountIn(mem, r) - 1 ELSE CountIn(mem, r)
            /\ CountIn(mem', r) > 0 => CountIn(mem, r) > 0 /\ SameItem(mem, mem', r)
  <2> HIDE DEF n
  <2> QED BY <1>0, <1>2, <1>3, RecountIs
<1>5. TypeOK'
  BY <1>0, <1>1, <1>4 DEF TypeOK, SegHeader, PutDone, Tables
<1>6. PcOK'
  <2>1. Alone(w)
    BY <1>0, <1>1 DEF Alone
  <2>2. PcOf(w)'
    BY <1>0, <1>1, <1>2 DEF PcOf, Making, Reserving, Allocating
  <2> QED BY <2>1, <2>2, AlonePc DEF IInv
<1>7. LaidOut'
  <2>1. \A v \in Workers : InHand(v)' = InHand(v)
    BY <1>1 DEF InHand
  <2> QED BY <1>0, <1>4, <2>1, LaidOutStays
<1>8. ASSUME NEW r \in Refs \ {NoRef}
      PROVE  CountIn(mem', r) = UsesIn(table', cq', th', r)
  <2>1. CountIn(mem, r) = UsesIn(table, cq, th, r)
    BY <1>0, UsesAre DEF CountsOK
  <2>2. UsesIn(table, cq, th, r) = TableCount(table, r) + Cardinality(InQueues(cq, r)) + ThreadCount(th, r)
    BY <1>0, UsesSum
  <2>3. UsesIn(table', cq, th', r) = TableCount(table', r) + Cardinality(InQueues(cq, r)) + ThreadCount(th', r)
    BY <1>0, UsesSum
  <2>4. /\ TableCount(table, r) \in Nat /\ TableCount(table', r) \in Nat
        /\ Cardinality(InQueues(cq, r)) \in Nat /\ ThreadCount(th, r) \in Nat
    BY <1>0, UsesTyped
  <2>5. ThreadCount(th', r) = ThreadCount(th, r)
    <3>1. \A v \in Workers : th'[v].it = th[v].it /\ th'[v].nit = th[v].nit
      BY <1>1
    <3>2. AsIt(th', r) = AsIt(th, r) /\ AsNit(th', r) = AsNit(th, r)
      BY <3>1 DEF AsIt, AsNit
    <3> QED BY <3>2 DEF ThreadCount
  <2>6. PICK x \in Nat : x = TableCount(table, r)
    BY <2>4
  <2>7. PICK y \in Nat : y = TableCount(table', r)
    BY <2>4
  <2>8. PICK c \in Nat : c = Cardinality(InQueues(cq, r))
    BY <2>4
  <2>9. PICK d \in Nat : d = ThreadCount(th, r)
    BY <2>4
  <2>10. y + One(down, r) = x + One(n, r)
    BY <2>6, <2>7 DEF PutDone
  <2>11. CountIn(mem, r) = x + c + d
    BY <2>1, <2>2, <2>6, <2>8, <2>9
  <2>12. CountIn(mem', r) = x + c + d + One(n, r) - One(down, r)
    <3> HIDE DEF n
    <3> QED BY <1>0, <1>4, <2>11 DEF One
  <2>13. UsesIn(table', cq', th', r) = y + c + d
    BY <1>0, <2>3, <2>5, <2>7, <2>8, <2>9
  <2> HIDE DEF n
  <2> QED BY <2>10, <2>12, <2>13 DEF One
<1>9. ASSUME NEW r \in Refs \ {NoRef}, UsedIn(table', cq', th', r)
      PROVE  SameItem(mem, mem', r)
  <2>1. table' \in Tables /\ cq' \in Queues
    BY <1>0
  <2>2. CountIn(mem', r) > 0
    BY <1>8, <1>9, <2>1, UsedCounts
  <2> QED BY <1>4, <2>2
<1>10. \A r \in Refs \ {NoRef} : Placed(table', r) => SameItem(mem, mem', r)
  BY <1>9 DEF UsedIn, Placed
<1>11. CountsOK'
  BY <1>8, CountsNext
<1>12. NewOK'
  <2> SUFFICES ASSUME NEW v \in Workers, th'[v].pc = "put"
               PROVE  ~Placed(table', th'[v].nit) /\ \A u \in Workers \ {v} : th'[u].nit # th'[v].nit
    BY DEF NewOK
  <2>1. v # w /\ th'[v] = th[v]
    BY <1>1
  <2>2. ~Placed(table, th[v].nit) /\ \A u \in Workers \ {v} : th[u].nit # th[v].nit
    BY <1>0, <2>1 DEF NewOK
  <2>3. th[v].nit # NoRef /\ th[v].nit \in Refs
    BY <1>0, <2>1 DEF IInv, PcOK, PcOf, TypeOK, Thread
  <2>4. n # th[v].nit
    BY <2>1, <2>2
  <2>5. ~Placed(table', th[v].nit)
    BY <2>2, <2>3, <2>4 DEF PutDone
  <2>6. \A u \in Workers : th'[u].nit = th[u].nit
    BY <1>1
  <2> QED BY <2>1, <2>2, <2>5, <2>6
<1>13. CopyOK'
  <2>1. CopyOf(w)'
    BY <1>1 DEF CopyOf, Making, Allocating
  <2>2. ASSUME NEW v \in Workers \ {w} PROVE CopyOf(v)'
    <3>1. CopyOf(v) /\ th'[v] = th[v] /\ PcOf(v)
      BY <1>0, <1>1 DEF CopyOK, IInv, PcOK
    <3>2. th[v].it \in Refs /\ th[v].nit \in Refs
      BY <1>0 DEF TypeOK, Thread
    <3>3. Making(v) /\ th[v].cleanup => SameItem(mem, mem', th[v].it)
      <4>1. Making(v) /\ th[v].cleanup => th[v].it # NoRef
        BY <3>1 DEF PcOf
      <4> QED BY <1>9, <3>1, <3>2, <4>1 DEF UsedIn
    <3>4. th[v].pc = "put" => SameItem(mem, mem', th[v].nit)
      <4>1. th[v].pc = "put" => th[v].nit # NoRef
        BY <3>1 DEF PcOf
      <4> QED BY <1>9, <3>1, <3>2, <4>1 DEF UsedIn
    <3>5. Making(v)' <=> Making(v)
      BY <3>1 DEF Making
    <3> QED BY <3>1, <3>3, <3>4, <3>5 DEF CopyOf, SameItem
  <2> QED BY <2>1, <2>2 DEF CopyOK
<1> QED BY <1>4, <1>5, <1>6, <1>7, <1>10, <1>11, <1>12, <1>13 DEF IInv, Items

\* The other buckets are as they were.
LEMMA OtherBuckets ==
    ASSUME TypeOK, Newest, NEW b \in Buckets, NEW k \in Keys, Bucket[k] = b,
           \A q \in Keys \ {k} : newest'[q] = newest[q],
           \A c \in Buckets \ {b} : table'[c] = table[c],
           \A r \in Refs \ {NoRef} : Placed(table', r) => SameItem(mem, mem', r),
           InBucket(table'[b].slots, table'[b].over, mem', newest', b)
    PROVE  Newest'
<1>1. ASSUME NEW c \in Buckets \ {b}
      PROVE  InBucket(table[c].slots, table[c].over, mem', newest', c)
  <2> DEFINE slot == table[c].slots
             over == table[c].over
  <2>1. slot \in [Slots -> Refs] /\ over \in Seq(Refs) /\ InBucket(slot, over, mem, newest, c)
    BY DEF TypeOK, Newest, TableOK, BucketOK
  <2>2. \A i \in Slots : slot[i] # NoRef => SameItem(mem, mem', slot[i])
    <3> TAKE i \in Slots
    <3>1. slot[i] # NoRef => slot[i] \in Refs \ {NoRef} /\ Placed(table', slot[i])
      BY <2>1 DEF Placed
    <3> QED BY <3>1
  <2>3. \A j \in 1 .. Len(over) : SameItem(mem, mem', over[j])
    <3> TAKE j \in 1 .. Len(over)
    <3>1. over[j] # NoRef
      BY <2>1 DEF InBucket
    <3>2. over[j] \in Refs \ {NoRef} /\ Placed(table', over[j])
      BY <2>1, <3>1 DEF Placed
    <3> QED BY <3>2
  <2>4. \A q \in Keys : Bucket[q] = c => newest'[q] = newest[q]
    OBVIOUS
  <2> HIDE DEF slot, over
  <2>5. \A i \in Slots : slot[i] # NoRef =>
            /\ ItemIn(mem', slot[i]).key = ItemIn(mem, slot[i]).key
            /\ LinkOK(mem', newest', c, slot[i])
    BY <2>1, <2>2, <2>4 DEF InBucket, LinkOK, SameItem
  <2>6. \A j \in 1 .. Len(over) :
            /\ ItemIn(mem', over[j]).key = ItemIn(mem, over[j]).key
            /\ LinkOK(mem', newest', c, over[j])
    BY <2>1, <2>3, <2>4 DEF InBucket, LinkOK, SameItem
  <2>7. \A q \in Keys : Bucket[q] = c /\ newest'[q] # NoValue =>
          \/ \E i \in Slots : slot[i] # NoRef /\ KeyIs(mem', slot[i], q)
          \/ \E j \in 1 .. Len(over) : KeyIs(mem', over[j], q)
    BY <2>1, <2>4, <2>5, <2>6 DEF InBucket, KeyIs
  <2>8. \A i, j \in Slots : slot[i] # NoRef /\ slot[j] # NoRef
          /\ ItemIn(mem', slot[i]).key = ItemIn(mem', slot[j]).key => i = j
    BY <2>1, <2>5 DEF InBucket
  <2>9. \A i, j \in 1 .. Len(over) : ItemIn(mem', over[i]).key = ItemIn(mem', over[j]).key => i = j
    BY <2>1, <2>6 DEF InBucket
  <2>10. \A i \in Slots : \A j \in 1 .. Len(over) :
          slot[i] # NoRef => ItemIn(mem', over[j]).key # ItemIn(mem', slot[i]).key
    BY <2>1, <2>5, <2>6 DEF InBucket
  <2>11. \A j \in 1 .. Len(over) : over[j] # NoRef
    BY <2>1 DEF InBucket
  <2>12. InBucket(slot, over, mem', newest', c)
    BY <2>5, <2>6, <2>7, <2>8, <2>9, <2>10, <2>11 DEF InBucket
  <2> QED BY <2>12 DEF slot, over
<1> QED BY <1>1 DEF Newest, TableOK, BucketOK

\* What both ways of naming an item's key say.
LEMMA KeyOfIs == \A r : KeyOf(r) = ItemIn(mem, r).key
BY DEF KeyOf, ItemAt, ItemIn

LEMMA MaxIs ==
    ASSUME NEW S \in SUBSET Nat, S # {}, NEW n \in Nat, \A x \in S : x <= n
    PROVE  Max(S) \in S
<1> DEFINE R == {n - x : x \in S}
<1>1. R \in SUBSET Nat /\ R # {}
  <2>1. \A x \in S : n - x \in Nat
    <3> TAKE x \in S
    <3>1. x \in Nat /\ x <= n
      OBVIOUS
    <3> QED BY <3>1
  <2> QED BY <2>1
<1>2. PICK m \in R : \A j \in R : m <= j
  BY <1>1, LeastNumber
<1>3. PICK x \in S : m = n - x
  BY <1>2
<1>4. \A y \in S : x >= y
  <2> TAKE y \in S
  <2>1. n - x <= n - y
    BY <1>2, <1>3
  <2> QED BY <2>1
<1> QED BY <1>3, <1>4 DEF Max

\* The worker and the newest values, when the item is linked.
PutThread(w, t) ==
    /\ t \in Thread /\ t.pc = "release" /\ t.it = th[w].it /\ t.nit = th[w].nit /\ ~t.cleanup

LEMMA PutThreadIs ==
    ASSUME TypeOK, NEW w \in Workers, NEW t,
           t = [th[w] EXCEPT !.pc = "release", !.key = NoKey, !.val = NoValue, !.cleanup = FALSE]
    PROVE  PutThread(w, t)
BY IdleIs, ZenonT(30) DEF PutThread, TypeOK, Thread, Labels

NewestPut(w, k) ==
    newest' = IF th[w].cleanup THEN newest ELSE [newest EXCEPT ![k] = th[w].val]

LEMMA PutNewest ==
    ASSUME IInv, NEW w \in Workers, th[w].pc = "put", NewestPut(w, th[w].key),
           th[w].cleanup => newest[th[w].key] = th[w].val /\ th[w].val # NoValue,
           \A r \in Refs \ {NoRef} : Placed(table', r) => SameItem(mem, mem', r),
           Placed(table', th[w].nit)
    PROVE  NewIn(mem', newest, newest', th[w].key, Bucket[th[w].key], th[w].nit)
<1> DEFINE k == th[w].key
           n == th[w].nit
<1>1. /\ TypeOK /\ PcOf(w) /\ CopyOf(w) /\ Making(w)
  BY DEF IInv, PcOK, Items, CopyOK, Making
<1>2. k \in Keys /\ n \in Refs \ {NoRef} /\ newest \in [Keys -> Values]
  BY <1>1 DEF PcOf, TypeOK, Thread
<1>3. ItemIn(mem, n).key = k /\ ItemIn(mem, n).val = th[w].val /\ (~th[w].cleanup => th[w].val # NoValue)
  BY <1>1 DEF CopyOf
<1>4. SameItem(mem, mem', n)
  BY <1>2
<1>5. newest'[k] = th[w].val /\ th[w].val # NoValue /\ \A q \in Keys \ {k} : newest'[q] = newest[q]
  BY <1>2, <1>3 DEF NewestPut
<1> HIDE DEF k, n
<1>6. NewIn(mem', newest, newest', k, Bucket[k], n)
  BY <1>2, <1>3, <1>4, <1>5 DEF NewIn, SameItem
<1> QED BY <1>6 DEF k, n

LEMMA NewestTyped ==
    ASSUME TypeOK, NEW w \in Workers, NEW k \in Keys, NewestPut(w, k)
    PROVE  newest' \in [Keys -> Values] /\ \A q \in Keys \ {k} : newest'[q] = newest[q]
BY DEF NewestPut, TypeOK, Thread

\* The item takes the place of another in a slot,
LEMMA PutSlot ==
    ASSUME IInv, NEW w \in Workers, th[w].pc = "put", NEW t, PutThread(w, t), Becomes(w, t),
           UNCHANGED <<free_segments, seg_alloced, segLock, ia, cq, mt, received, harm>>,
           NewestPut(w, th[w].key), NEW b \in Buckets, b = Bucket[th[w].key], NEW i \in Slots,
           NEW old, old = table[b].slots[i], old # NoRef, KeyIs(mem, old, th[w].key),
           th[w].cleanup => old = th[w].it,
           table' = SetSlot(table, b, i, th[w].nit), Recount(th[w].nit, old)
    PROVE  IInv'
<1>0. /\ TypeOK /\ PcOf(w) /\ NewOK /\ CopyOf(w) /\ Newest /\ Making(w) /\ table \in Tables /\ t \in Thread
  BY DEF IInv, PcOK, Items, CopyOK, Making, TypeOK, Tables, PutThread
<1>1. PICK k \in Keys : k = th[w].key
  BY <1>0 DEF PcOf
<1>2. PICK n \in Refs \ {NoRef} : n = th[w].nit
  BY <1>0 DEF PcOf, TypeOK, Thread
<1>3. PICK slot \in [Slots -> Refs] : slot = table[b].slots
  BY <1>0 DEF Tables
<1>4. PICK over \in Seq(Refs) : over = table[b].over
  BY <1>0 DEF Tables
<1>5. old \in Refs /\ Placed(table, old) /\ ~Placed(table, n)
  BY <1>0, <1>2, <1>3, ZenonT(30) DEF Placed, NewOK
<1>6. /\ table' \in Tables
      /\ \A r \in Refs \ {NoRef} : TableCount(table', r) + One(old, r) = TableCount(table, r) + One(n, r)
  <2>1. PICK T2 : T2 = table'
    OBVIOUS
  <2>2. PICK T \in Tables : T = table
    BY <1>0
  <2>3. T2 = SetSlot(T, b, i, n)
    BY <1>2, <2>1, <2>2
  <2>4. n \in Refs
    OBVIOUS
  <2>5. T2 \in Tables /\ \A r : TableCount(T2, r) + One(T[b].slots[i], r) = TableCount(T, r) + One(n, r)
    BY ONLY <2>3, <2>4, T \in Tables, b \in Buckets, i \in Slots, SlotCount
  <2> QED BY <2>1, <2>2, <2>5
<1>7. /\ table'[b].slots = [slot EXCEPT ![i] = n] /\ table'[b].over = over
      /\ \A c \in Buckets \ {b} : table'[c] = table[c]
  BY <1>0, <1>2, <1>3, <1>4, ZenonT(30) DEF SetSlot, Tables
<1>8. \A r : Placed(table', r) => Placed(table, r) \/ r = n
  <2>1. \A c \in Buckets : \A x \in Slots : table'[c].slots[x] = table[c].slots[x] \/ table'[c].slots[x] = n
    <3> TAKE c \in Buckets
    <3> TAKE x \in Slots
    <3>1. CASE c = b
      <4>1. table'[b].slots[x] = IF x = i THEN n ELSE slot[x]
        BY <1>7, Zenon
      <4> QED BY <1>3, <3>1, <4>1
    <3>2. CASE c # b
      BY <1>7, <3>2, Zenon
    <3> QED BY <3>1, <3>2
  <2>2. \A c \in Buckets : table'[c].over = table[c].over
    BY <1>4, <1>7, Zenon
  <2> TAKE r
  <2> HAVE Placed(table', r)
  <2>3. CASE \E c \in Buckets : \E x \in Slots : table'[c].slots[x] = r
    <3>1. PICK c \in Buckets, x \in Slots : table'[c].slots[x] = r
      BY <2>3, Zenon
    <3>2. table[c].slots[x] = r \/ r = n
      BY <2>1, <3>1, Zenon
    <3> QED BY <3>1, <3>2, Zenon DEF Placed
  <2>4. CASE \E c \in Buckets : \E j \in 1 .. Len(table'[c].over) : table'[c].over[j] = r
    <3>1. PICK c \in Buckets : \E j \in 1 .. Len(table'[c].over) : table'[c].over[j] = r
      BY <2>4, ZenonT(30)
    <3>2. \E j \in 1 .. Len(table[c].over) : table[c].over[j] = r
      BY <2>2, <3>1
    <3> QED BY <3>1, <3>2, ZenonT(30) DEF Placed
  <2> QED BY <2>3, <2>4, ZenonT(30) DEF Placed
<1>9. newest' \in [Keys -> Values] /\ \A q \in Keys \ {k} : newest'[q] = newest[q]
  BY <1>0, <1>1, NewestTyped
<1>10. PutDone(w, n, old)
  BY <1>2, <1>5, <1>6, <1>8, <1>9, Zenon DEF PutDone
<1>11. /\ Newest' => IInv'
       /\ \A r \in Refs \ {NoRef} : Placed(table', r) => SameItem(mem, mem', r)
  BY <1>0, <1>2, <1>5, <1>10, PutFrame, Zenon DEF PutThread
<1>12. Placed(table', n)
  BY <1>7, ZenonT(30) DEF Placed
<1>13. NewIn(mem', newest, newest', k, b, n)
  <2>1. th[w].cleanup => newest[th[w].key] = th[w].val /\ th[w].val # NoValue
    <3>1. LinkOK(mem, newest, b, old)
      BY <1>0 DEF Newest, TableOK, BucketOK, InBucket
    <3> QED BY <1>0, <3>1 DEF LinkOK, KeyIs, CopyOf
  <2> QED BY <1>1, <1>2, <1>11, <1>12, <2>1, PutNewest
<1>14. InBucket(table'[b].slots, table'[b].over, mem', newest', b)
  <2>1. InBucket(slot, over, mem, newest, b)
    BY <1>0, <1>3, <1>4 DEF Newest, TableOK, BucketOK
  <2>2. \A x \in Slots \ {i} : slot[x] # NoRef => SameItem(mem, mem', slot[x])
    <3> TAKE x \in Slots \ {i}
    <3>1. slot[x] # NoRef => slot[x] \in Refs \ {NoRef} /\ Placed(table', slot[x])
      BY <1>7, Zenon DEF Placed
    <3> QED BY <1>11, <3>1
  <2>3. \A j \in 1 .. Len(over) : SameItem(mem, mem', over[j])
    <3> TAKE j \in 1 .. Len(over)
    <3>1. over[j] # NoRef
      BY <2>1 DEF InBucket
    <3>2. over[j] \in Refs \ {NoRef} /\ Placed(table', over[j])
      <4>1. over[j] = table'[b].over[j] /\ j \in 1 .. Len(table'[b].over)
        BY <1>7, Zenon
      <4>2. over \in Seq(Refs)
        BY <1>4
      <4>3. over[j] \in Refs
        BY ONLY <4>2, j \in 1 .. Len(over)
      <4> QED BY <3>1, <4>1, <4>3, Zenon DEF Placed
    <3> QED BY <1>11, <3>2
  <2>4. PICK m : m = mem
    OBVIOUS
  <2>5. PICK m2 : m2 = mem'
    OBVIOUS
  <2>6. PICK nw : nw = newest
    OBVIOUS
  <2>7. PICK nw2 : nw2 = newest'
    OBVIOUS
  <2>8. PICK slot2 : slot2 = [slot EXCEPT ![i] = n]
    BY Zenon
  <2>9. /\ InBucket(slot, over, m, nw, b) /\ slot[i] # NoRef /\ KeyIs(m, slot[i], k)
        /\ NewIn(m2, nw, nw2, k, b, n)
        /\ \A x \in Slots \ {i} : slot[x] # NoRef => SameItem(m, m2, slot[x])
        /\ \A j \in 1 .. Len(over) : SameItem(m, m2, over[j])
    BY <1>1, <1>3, <1>13, <2>1, <2>2, <2>3, <2>4, <2>5, <2>6, <2>7, Zenon
  <2>10. n \in Refs
    OBVIOUS
  <2>11. InBucket(slot2, over, m2, nw2, b)
    BY ONLY <2>8, <2>9, <2>10, slot \in [Slots -> Refs], i \in Slots, BucketSlot, Zenon
  <2> QED BY <1>7, <2>5, <2>7, <2>8, <2>11, ZenonT(30)
<1>15. Newest'
  BY <1>0, <1>1, <1>7, <1>9, <1>11, <1>14, OtherBuckets, Zenon
<1> QED BY <1>11, <1>15

\* of another in the overflow list,
LEMMA PutOver ==
    ASSUME IInv, NEW w \in Workers, th[w].pc = "put", NEW t, PutThread(w, t), Becomes(w, t),
           UNCHANGED <<free_segments, seg_alloced, segLock, ia, cq, mt, received, harm>>,
           NewestPut(w, th[w].key), NEW b \in Buckets, b = Bucket[th[w].key],
           NEW i \in 1 .. Len(table[b].over), NEW old, old = table[b].over[i], KeyIs(mem, old, th[w].key),
           ~th[w].cleanup,
           table' = SetOver(table, b, i, th[w].nit), Recount(th[w].nit, old)
    PROVE  IInv'
<1>0. /\ TypeOK /\ PcOf(w) /\ NewOK /\ CopyOf(w) /\ Newest /\ Making(w) /\ table \in Tables /\ t \in Thread
  BY DEF IInv, PcOK, Items, CopyOK, Making, TypeOK, Tables, PutThread
<1>1. PICK k \in Keys : k = th[w].key
  BY <1>0 DEF PcOf
<1>2. PICK n \in Refs \ {NoRef} : n = th[w].nit
  BY <1>0 DEF PcOf, TypeOK, Thread
<1>3. PICK slot \in [Slots -> Refs] : slot = table[b].slots
  BY <1>0 DEF Tables
<1>4. PICK over \in Seq(Refs) : over = table[b].over /\ i \in 1 .. Len(over)
  BY <1>0 DEF Tables
<1>5. old \in Refs /\ old # NoRef /\ Placed(table, old) /\ ~Placed(table, n)
  <2>0. over \in Seq(Refs) /\ i \in 1 .. Len(over)
    BY <1>4
  <2>1. over[i] \in Refs
    BY ONLY <2>0
  <2>2. InBucket(slot, over, mem, newest, b)
    BY <1>0, <1>3, <1>4 DEF Newest, TableOK, BucketOK
  <2>3. over[i] # NoRef
    BY <1>4, <2>2, Zenon DEF InBucket
  <2> QED BY <1>0, <1>2, <1>4, <2>1, <2>3, Zenon DEF Placed, NewOK
<1>6. /\ table' \in Tables
      /\ \A r \in Refs \ {NoRef} : TableCount(table', r) + One(old, r) = TableCount(table, r) + One(n, r)
  <2>1. PICK T2 : T2 = table'
    OBVIOUS
  <2>2. PICK T \in Tables : T = table
    BY <1>0
  <2>3. T2 = SetOver(T, b, i, n) /\ i \in 1 .. Len(T[b].over)
    BY <1>2, <2>1, <2>2
  <2>4. n \in Refs
    OBVIOUS
  <2>5. T2 \in Tables /\ \A r : TableCount(T2, r) + One(T[b].over[i], r) = TableCount(T, r) + One(n, r)
    BY ONLY <2>3, <2>4, T \in Tables, b \in Buckets, OverCount
  <2> QED BY <2>1, <2>2, <2>5, Zenon
<1>7. /\ table'[b].slots = slot /\ table'[b].over = [over EXCEPT ![i] = n]
      /\ \A c \in Buckets \ {b} : table'[c] = table[c]
  BY <1>0, <1>2, <1>3, <1>4, Zenon DEF SetOver, Tables
<1>8. \A r : Placed(table', r) => Placed(table, r) \/ r = n
  <2>1. \A c \in Buckets : \A x \in 1 .. Len(table'[c].over) :
           x \in 1 .. Len(table[c].over) /\ (table'[c].over[x] = table[c].over[x] \/ table'[c].over[x] = n)
    <3> TAKE c \in Buckets
    <3> TAKE x \in 1 .. Len(table'[c].over)
    <3>1. CASE c = b
      <4>1. over \in Seq(Refs)
        BY <1>4
      <4>2. PICK over2 : over2 = [over EXCEPT ![i] = n]
        OBVIOUS
      <4>3. over2 = table'[b].over
        BY <1>7, <4>2
      <4>4. Len(over2) = Len(over) /\ \A y \in 1 .. Len(over) : over2[y] = over[y] \/ over2[y] = n
        BY <4>1, <4>2
      <4> QED BY <1>4, <3>1, <4>3, <4>4, Zenon
    <3>2. CASE c # b
      BY <1>7, <3>2, Zenon
    <3> QED BY <3>1, <3>2, Zenon
  <2>2. \A c \in Buckets : table'[c].slots = table[c].slots
    BY <1>3, <1>7, Zenon
  <2> TAKE r
  <2> HAVE Placed(table', r)
  <2>3. CASE \E c \in Buckets : \E x \in Slots : table'[c].slots[x] = r
    <3>1. PICK c \in Buckets : \E x \in Slots : table'[c].slots[x] = r
      BY <2>3
    <3>2. \E x \in Slots : table[c].slots[x] = r
      BY <2>2, <3>1
    <3> QED BY <3>1, <3>2, ZenonT(30) DEF Placed
  <2>4. CASE \E c \in Buckets : \E j \in 1 .. Len(table'[c].over) : table'[c].over[j] = r
    <3>0. PICK c \in Buckets : \E j \in 1 .. Len(table'[c].over) : table'[c].over[j] = r
      BY <2>4, Zenon
    <3>1. PICK j \in 1 .. Len(table'[c].over) : table'[c].over[j] = r
      BY <3>0, Zenon
    <3>2. j \in 1 .. Len(table[c].over) /\ (table[c].over[j] = r \/ r = n)
      BY <2>1, <3>1, Zenon
    <3> QED BY <3>1, <3>2, Zenon DEF Placed
  <2> QED BY <2>3, <2>4, Zenon DEF Placed
<1>9. newest' \in [Keys -> Values] /\ \A q \in Keys \ {k} : newest'[q] = newest[q]
  BY <1>0, <1>1, NewestTyped
<1>10. PutDone(w, n, old)
  BY <1>2, <1>5, <1>6, <1>8, <1>9, Zenon DEF PutDone
<1>11. /\ Newest' => IInv'
       /\ \A r \in Refs \ {NoRef} : Placed(table', r) => SameItem(mem, mem', r)
  BY <1>0, <1>2, <1>5, <1>10, PutFrame, Zenon DEF PutThread
<1>12. Placed(table', n)
  <2>1. over \in Seq(Refs)
    BY <1>4
  <2>2. PICK over2 : over2 = [over EXCEPT ![i] = n]
    OBVIOUS
  <2>3. i \in 1 .. Len(over)
    BY <1>4
  <2>4. over2[i] = n /\ Len(over2) = Len(over)
    BY ONLY <2>1, <2>2, <2>3
  <2>5. table'[b].over = over2
    BY <1>7, <2>2
  <2> QED BY <2>3, <2>4, <2>5, Zenon DEF Placed
<1>13. NewIn(mem', newest, newest', k, b, n)
  BY <1>1, <1>2, <1>11, <1>12, PutNewest
<1>14. InBucket(table'[b].slots, table'[b].over, mem', newest', b)
  <2>1. InBucket(slot, over, mem, newest, b)
    BY <1>0, <1>3, <1>4 DEF Newest, TableOK, BucketOK
  <2>2. \A x \in Slots : slot[x] # NoRef => SameItem(mem, mem', slot[x])
    <3> TAKE x \in Slots
    <3>1. slot[x] # NoRef => slot[x] \in Refs \ {NoRef} /\ Placed(table', slot[x])
      BY <1>3, <1>7, Zenon DEF Placed
    <3> QED BY <1>11, <3>1
  <2>3. \A j \in (1 .. Len(over)) \ {i} : SameItem(mem, mem', over[j])
    <3> TAKE j \in (1 .. Len(over)) \ {i}
    <3>1. over[j] # NoRef
      BY <2>1 DEF InBucket
    <3>2. over[j] \in Refs \ {NoRef} /\ Placed(table', over[j])
      <4>1. over \in Seq(Refs)
        BY <1>4
      <4>2. over[j] \in Refs
        BY ONLY <4>1, j \in (1 .. Len(over)) \ {i}
      <4>3. PICK over2 : over2 = [over EXCEPT ![i] = n]
        BY Zenon
      <4>4. Len(over2) = Len(over) /\ over2[j] = over[j]
        BY ONLY <4>1, <4>3, j \in (1 .. Len(over)) \ {i}
      <4>5. over2 = table'[b].over
        BY <1>7, <4>3, Zenon
      <4> QED BY <3>1, <4>2, <4>4, <4>5, Zenon DEF Placed
    <3> QED BY <1>11, <3>2
  <2>4. PICK m : m = mem
    OBVIOUS
  <2>5. PICK m2 : m2 = mem'
    OBVIOUS
  <2>6. PICK nw : nw = newest
    OBVIOUS
  <2>7. PICK nw2 : nw2 = newest'
    OBVIOUS
  <2>8. PICK over2 : over2 = [over EXCEPT ![i] = n]
    OBVIOUS
  <2>9. /\ InBucket(slot, over, m, nw, b) /\ KeyIs(m, over[i], k)
        /\ NewIn(m2, nw, nw2, k, b, n)
        /\ \A x \in Slots : slot[x] # NoRef => SameItem(m, m2, slot[x])
        /\ \A j \in (1 .. Len(over)) \ {i} : SameItem(m, m2, over[j])
    BY <1>1, <1>4, <1>13, <2>1, <2>2, <2>3, <2>4, <2>5, <2>6, <2>7, Zenon
  <2>10. n \in Refs /\ i \in 1 .. Len(over) /\ over \in Seq(Refs) /\ slot \in [Slots -> Refs]
    BY <1>3, <1>4
  <2>11. InBucket(slot, over2, m2, nw2, b)
    BY ONLY <2>8, <2>9, <2>10, BucketOver, Zenon
  <2> QED BY <1>7, <2>5, <2>7, <2>8, <2>11, Zenon
<1>15. Newest'
  BY <1>0, <1>1, <1>7, <1>9, <1>11, <1>14, OtherBuckets, Zenon
<1> QED BY <1>11, <1>15

\* or a slot of its own.
LEMMA PutNew ==
    ASSUME IInv, NEW w \in Workers, th[w].pc = "put", NEW t, PutThread(w, t), Becomes(w, t),
           UNCHANGED <<free_segments, seg_alloced, segLock, ia, cq, mt, received, harm>>,
           NewestPut(w, th[w].key), NEW b \in Buckets, b = Bucket[th[w].key],
           NEW i \in Slots, ~th[w].cleanup,
           \A x \in Slots : table[b].slots[x] # NoRef => ~KeyIs(mem, table[b].slots[x], th[w].key),
           \A j \in 1 .. Len(table[b].over) : ~KeyIs(mem, table[b].over[j], th[w].key),
           table' = Insert(table, b, i, th[w].nit), Recount(th[w].nit, NoRef)
    PROVE  IInv'
<1>0. /\ TypeOK /\ PcOf(w) /\ NewOK /\ CopyOf(w) /\ Newest /\ Making(w) /\ table \in Tables /\ t \in Thread
      /\ NoRef \in Refs
  BY IdleIs DEF IInv, PcOK, Items, CopyOK, Making, TypeOK, Tables, PutThread
<1>1. PICK k \in Keys : k = th[w].key
  BY <1>0 DEF PcOf
<1>2. PICK n \in Refs \ {NoRef} : n = th[w].nit
  BY <1>0 DEF PcOf, TypeOK, Thread
<1>3. PICK slot \in [Slots -> Refs] : slot = table[b].slots
  BY <1>0 DEF Tables
<1>4. PICK over \in Seq(Refs) : over = table[b].over
  BY <1>0 DEF Tables
<1>6. /\ table' \in Tables
      /\ \A r \in Refs \ {NoRef} : TableCount(table', r) + One(NoRef, r) = TableCount(table, r) + One(n, r)
  <2>1. PICK T2 : T2 = table'
    OBVIOUS
  <2>2. PICK T \in Tables : T = table
    BY <1>0
  <2>3. T2 = Insert(T, b, i, n)
    BY <1>2, <2>1, <2>2
  <2>4. n \in Refs
    OBVIOUS
  <2>5. \A r : r # NoRef => T2 \in Tables /\ TableCount(T2, r) = TableCount(T, r) + One(n, r)
    BY ONLY <2>3, <2>4, T \in Tables, b \in Buckets, i \in Slots, InsertCount
  <2>6. \A r : r # NoRef => One(NoRef, r) = 0
    BY DEF One
  <2>7. n # NoRef
    OBVIOUS
  <2>8. T2 \in Tables
    BY <2>5, <2>7
  <2>9. \A r : TableCount(T2, r) \in Nat
    <3>1. PICK q \in Queues : q = cq
      BY <1>0 DEF TypeOK, Queues
    <3> QED BY ONLY <2>8, q \in Queues, UsesTyped
  <2>10. ASSUME NEW r \in Refs \ {NoRef}
         PROVE  TableCount(table', r) + One(NoRef, r) = TableCount(table, r) + One(n, r)
    <3>1. One(NoRef, r) = 0 /\ TableCount(T2, r) = TableCount(T, r) + One(n, r) /\ TableCount(T2, r) \in Nat
      BY <2>5, <2>6, <2>9
    <3> QED BY <2>1, <2>2, <3>1
  <2> QED BY <2>1, <2>8, <2>10
<1>7. /\ table'[b].slots = [slot EXCEPT ![i] = n] /\ table'[b].over = Pushed(slot[i], over)
      /\ \A c \in Buckets \ {b} : table'[c] = table[c]
  <2>1. PICK o : o = Pushed(slot[i], over)
    OBVIOUS
  <2>2. table' = [table EXCEPT ![b].slots[i] = n, ![b].over = o]
    BY <1>2, <1>3, <1>4, <2>1, Zenon DEF Insert, Pushed
  <2>3. \A c \in Buckets \ {b} : table'[c] = table[c]
    BY <1>0, <2>2, Zenon DEF Tables
  <2>4. PICK x \in [slots : [Slots -> Refs], over : Seq(Refs)] : x = table[b]
    BY <1>0 DEF Tables
  <2>5. PICK slot2 : slot2 = [slot EXCEPT ![i] = n]
    BY Zenon
  <2>6. table'[b] = [x EXCEPT !.slots = slot2, !.over = o]
    BY <1>0, <1>3, <2>2, <2>4, <2>5, Zenon DEF Tables
  <2>7. table'[b].slots = slot2 /\ table'[b].over = o
    BY <2>4, <2>6
  <2> QED BY <2>1, <2>3, <2>5, <2>7
<1>8. \A r : Placed(table', r) => Placed(table, r) \/ r = n
  <2>1. \A c \in Buckets : \A x \in Slots : table'[c].slots[x] = table[c].slots[x] \/ table'[c].slots[x] = n
    <3> TAKE c \in Buckets
    <3> TAKE x \in Slots
    <3>1. CASE c = b
      <4>1. table'[b].slots[x] = IF x = i THEN n ELSE slot[x]
        BY <1>7
      <4> QED BY <1>3, <3>1, <4>1
    <3>2. CASE c # b
      BY <1>7, <3>2
    <3> QED BY <3>1, <3>2
  <2>2. ASSUME NEW j \in 1 .. Len(Pushed(slot[i], over))
        PROVE  Pushed(slot[i], over)[j] = slot[i] \/ \E l \in 1 .. Len(over) : Pushed(slot[i], over)[j] = over[l]
    <3>1. over \in Seq(Refs) /\ slot[i] \in Refs
      BY <1>3, <1>4
    <3>2. CASE slot[i] = NoRef
      BY <2>2, <3>2 DEF Pushed
    <3>3. CASE slot[i] # NoRef
      <4>1. Pushed(slot[i], over) = <<slot[i]>> \o over
        BY <3>3 DEF Pushed
      <4>2. PICK o : o = <<slot[i]>> \o over
        OBVIOUS
      <4>3. Len(o) = Len(over) + 1 /\ o[1] = slot[i] /\ \A y \in 2 .. Len(over) + 1 : o[y] = over[y - 1]
        BY <3>1, <4>2
      <4>4. j \in 1 .. Len(over) + 1 /\ Len(over) \in Nat
        BY <3>1, <4>1, <4>2, <4>3
      <4>5. CASE j = 1
        BY <4>1, <4>2, <4>3, <4>5
      <4>6. CASE j # 1
        <5>1. j \in 2 .. Len(over) + 1 /\ j - 1 \in 1 .. Len(over)
          BY <4>4, <4>6
        <5> QED BY <4>1, <4>2, <4>3, <5>1
      <4> QED BY <4>5, <4>6
    <3> QED BY <3>2, <3>3
  <2> TAKE r
  <2> HAVE Placed(table', r)
  <2>3. CASE \E c \in Buckets : \E x \in Slots : table'[c].slots[x] = r
    <3>1. PICK c \in Buckets, x \in Slots : table'[c].slots[x] = r
      BY <2>3
    <3>2. table[c].slots[x] = r \/ r = n
      BY <2>1, <3>1
    <3> QED BY <3>1, <3>2, Zenon DEF Placed
  <2>4. CASE \E c \in Buckets : \E j \in 1 .. Len(table'[c].over) : table'[c].over[j] = r
    <3>1. PICK c \in Buckets : \E j \in 1 .. Len(table'[c].over) : table'[c].over[j] = r
      BY <2>4
    <3>2. CASE c # b
      <4>1. \E j \in 1 .. Len(table[c].over) : table[c].over[j] = r
        <5>1. table'[c] = table[c]
          BY <1>7, <3>2
        <5> QED BY <3>1, <5>1
      <4> QED BY <4>1, Zenon DEF Placed
    <3>3. CASE c = b
      <4>1. PICK j \in 1 .. Len(Pushed(slot[i], over)) : Pushed(slot[i], over)[j] = r
        BY <1>7, <3>1, <3>3
      <4>2. slot[i] = r \/ \E l \in 1 .. Len(over) : over[l] = r
        BY <2>2, <4>1
      <4> QED BY <1>3, <1>4, <4>2, ZenonT(30) DEF Placed
    <3> QED BY <3>2, <3>3
  <2> QED BY <2>3, <2>4, Zenon DEF Placed
<1>9. newest' \in [Keys -> Values] /\ \A q \in Keys \ {k} : newest'[q] = newest[q]
  BY <1>0, <1>1, NewestTyped
<1>10. PutDone(w, n, NoRef)
  <2>1. NoRef # n
    OBVIOUS
  <2> QED BY <1>2, <1>6, <1>8, <1>9, <2>1 DEF PutDone
<1>11. /\ Newest' => IInv'
       /\ \A r \in Refs \ {NoRef} : Placed(table', r) => SameItem(mem, mem', r)
  BY <1>0, <1>2, <1>10, PutFrame DEF PutThread
<1>12. Placed(table', n)
  BY <1>7, Zenon DEF Placed
<1>13. NewIn(mem', newest, newest', k, b, n)
  BY <1>1, <1>2, <1>11, <1>12, PutNewest
<1>14. InBucket(table'[b].slots, table'[b].over, mem', newest', b)
  <2>1. InBucket(slot, over, mem, newest, b)
    BY <1>0, <1>3, <1>4 DEF Newest, TableOK, BucketOK
  <2>8. PICK over2 : over2 = Pushed(slot[i], over)
    OBVIOUS
  <2>12. /\ \A l \in 1 .. Len(over) : \E j \in 1 .. Len(over2) : over2[j] = over[l]
         /\ slot[i] # NoRef => \E j \in 1 .. Len(over2) : over2[j] = slot[i]
    <3>1. over \in Seq(Refs)
      BY <1>4
    <3>2. CASE slot[i] = NoRef
      BY <2>8, <3>2 DEF Pushed
    <3>3. CASE slot[i] # NoRef
      <4>1. over2 = <<slot[i]>> \o over /\ slot[i] \in Refs
        BY <1>3, <2>8, <3>3 DEF Pushed
      <4>2. Len(over2) = Len(over) + 1 /\ over2[1] = slot[i] /\ Len(over) \in Nat
            /\ \A l \in 1 .. Len(over) : over2[l + 1] = over[l]
        BY <3>1, <4>1
      <4>3. 1 \in 1 .. Len(over2) /\ \A l \in 1 .. Len(over) : l + 1 \in 1 .. Len(over2)
        BY <4>2
      <4> QED BY <4>2, <4>3
    <3> QED BY <3>2, <3>3
  <2>2. \A x \in Slots : slot[x] # NoRef => SameItem(mem, mem', slot[x])
    <3> TAKE x \in Slots
    <3>1. slot[x] # NoRef => slot[x] \in Refs \ {NoRef} /\ Placed(table', slot[x])
      <4>1. CASE x = i
        <5> SUFFICES ASSUME slot[i] # NoRef PROVE slot[i] \in Refs \ {NoRef} /\ Placed(table', slot[i])
          BY <4>1
        <5>1. PICK j \in 1 .. Len(over2) : over2[j] = slot[i]
          BY <2>12
        <5>2. table'[b].over = over2
          BY <1>7, <2>8
        <5> QED BY <1>3, <5>1, <5>2 DEF Placed
      <4>2. CASE x # i
        BY <1>3, <1>7, <4>2, Zenon DEF Placed
      <4> QED BY <4>1, <4>2
    <3> QED BY <1>11, <3>1
  <2>3. \A j \in 1 .. Len(over) : SameItem(mem, mem', over[j])
    <3> TAKE j \in 1 .. Len(over)
    <3>1. over[j] # NoRef
      BY <2>1 DEF InBucket
    <3>2. over[j] \in Refs \ {NoRef} /\ Placed(table', over[j])
      <4>1. over \in Seq(Refs)
        BY <1>4
      <4>2. over[j] \in Refs
        BY ONLY <4>1, j \in 1 .. Len(over)
      <4>3. PICK l \in 1 .. Len(over2) : over2[l] = over[j]
        BY <2>12
      <4>4. table'[b].over = over2
        BY <1>7, <2>8
      <4> QED BY <3>1, <4>2, <4>3, <4>4 DEF Placed
    <3> QED BY <1>11, <3>2
  <2>4. PICK m : m = mem
    OBVIOUS
  <2>5. PICK m2 : m2 = mem'
    OBVIOUS
  <2>6. PICK nw : nw = newest
    OBVIOUS
  <2>7. PICK nw2 : nw2 = newest'
    OBVIOUS
  <2>13. PICK slot2 : slot2 = [slot EXCEPT ![i] = n]
    BY Zenon
  <2>9. /\ InBucket(slot, over, m, nw, b)
        /\ \A x \in Slots : slot[x] # NoRef => ~KeyIs(m, slot[x], k)
        /\ \A j \in 1 .. Len(over) : ~KeyIs(m, over[j], k)
        /\ NewIn(m2, nw, nw2, k, b, n)
        /\ \A x \in Slots : slot[x] # NoRef => SameItem(m, m2, slot[x])
        /\ \A j \in 1 .. Len(over) : SameItem(m, m2, over[j])
    BY <1>1, <1>3, <1>4, <1>13, <2>1, <2>2, <2>3, <2>4, <2>5, <2>6, <2>7, Zenon
  <2>10. n \in Refs /\ over \in Seq(Refs) /\ slot \in [Slots -> Refs]
    BY <1>3, <1>4
  <2>11. InBucket(slot2, over2, m2, nw2, b)
    BY ONLY <2>8, <2>9, <2>10, <2>13, i \in Slots, BucketInsert, Zenon
  <2> QED BY <1>7, <2>5, <2>7, <2>8, <2>11, <2>13
<1>15. Newest'
  BY <1>0, <1>1, <1>7, <1>9, <1>11, <1>14, OtherBuckets, Zenon
<1> QED BY <1>11, <1>15

LEMMA PutStep ==
    ASSUME IInv, NEW w \in Workers, Put(w)
    PROVE  IInv'
<1> DEFINE k == th[w].key
           b == Bucket[k]
           nit == th[w].nit
           cas == IF th[w].cleanup THEN th[w].it ELSE NoRef
           slot == InSlot(b, k)
           over == InOverflow(b, k)
           i == CHOOSE x \in slot : TRUE
           j == CHOOSE x \in over : TRUE
           di == IF Empty(b) = {} THEN NumSlots ELSE Max(Empty(b))
           displaced == table[b].slots[di]
           t == [th[w] EXCEPT !.pc = "release", !.key = NoKey, !.val = NoValue, !.cleanup = FALSE]
<1>0. /\ TypeOK /\ PcOf(w) /\ th[w].pc = "put" /\ Becomes(w, t) /\ NewestPut(w, k) /\ th[w] \in Thread
      /\ UNCHANGED <<free_segments, seg_alloced, segLock, ia, cq, mt, received, harm>>
  BY ZenonT(30) DEF IInv, PcOK, Put, At, TypeOK, pool, NewestPut
<1>1. k \in Keys /\ b \in Buckets /\ PutThread(w, t)
      /\ (th[w].cleanup => th[w].it # NoRef) /\ InHand(w) = NULL /\ segLock # w
  BY <1>0, Sizes, PutThreadIs, Zenon DEF PcOf, Making, InHand
<1>2. /\ \A x \in slot : x \in Slots /\ table[b].slots[x] # NoRef /\ KeyIs(mem, table[b].slots[x], k)
      /\ \A x \in Slots : table[b].slots[x] # NoRef /\ KeyIs(mem, table[b].slots[x], k) => x \in slot
      /\ \A x : x \in over <=> x \in 1 .. Len(table[b].over) /\ KeyIs(mem, table[b].over[x], k)
  BY KeyOfIs DEF InSlot, InOverflow, KeyIs
<1>3. \/ /\ slot # {} /\ Replaces(table[b].slots[i], cas)
         /\ table' = [table EXCEPT ![b].slots[i] = nit]
         /\ Recount(nit, table[b].slots[i])
      \/ /\ slot = {} /\ cas = NoRef /\ over # {}
         /\ table' = [table EXCEPT ![b].over[j] = nit]
         /\ Recount(nit, table[b].over[j])
      \/ /\ slot = {} /\ cas = NoRef /\ over = {}
         /\ table' = [table EXCEPT ![b].slots[di] = nit,
                ![b].over = IF displaced = NoRef THEN @ ELSE <<displaced>> \o @]
         /\ Recount(nit, NoRef)
      \/ /\ IF slot # {} THEN ~Replaces(table[b].slots[i], cas) ELSE cas # NoRef
         /\ UNCHANGED <<table, mem, seg>>
  BY Zenon DEF Put
<1> HIDE DEF slot, over, t
<1>4. CASE /\ slot # {} /\ Replaces(table[b].slots[i], cas)
           /\ table' = [table EXCEPT ![b].slots[i] = nit]
           /\ Recount(nit, table[b].slots[i])
  <2>1. i \in slot
    BY <1>4
  <2> HIDE DEF i
  <2>2. i \in Slots /\ table[b].slots[i] # NoRef /\ KeyIs(mem, table[b].slots[i], k)
    BY <1>2, <2>1
  <2>3. th[w].cleanup => table[b].slots[i] = th[w].it
    BY <1>1, <1>4 DEF Replaces
  <2>4. table' = SetSlot(table, b, i, nit)
    BY <1>4 DEF SetSlot
  <2> HIDE DEF b
  <2> QED BY <1>0, <1>1, <1>4, <2>2, <2>3, <2>4, PutSlot, Zenon DEF b
<1>5. CASE /\ slot = {} /\ cas = NoRef /\ over # {}
           /\ table' = [table EXCEPT ![b].over[j] = nit]
           /\ Recount(nit, table[b].over[j])
  <2>1. j \in over
    BY <1>5
  <2> HIDE DEF j
  <2>2. j \in 1 .. Len(table[b].over) /\ KeyIs(mem, table[b].over[j], k)
    BY <1>2, <2>1
  <2>3. ~th[w].cleanup
    BY <1>1, <1>5
  <2>4. table' = SetOver(table, b, j, nit)
    BY <1>5 DEF SetOver
  <2> QED BY <1>0, <1>1, <1>5, <2>2, <2>3, <2>4, PutOver, Zenon
<1>6. CASE /\ slot = {} /\ cas = NoRef /\ over = {}
           /\ table' = [table EXCEPT ![b].slots[di] = nit,
                  ![b].over = IF displaced = NoRef THEN @ ELSE <<displaced>> \o @]
           /\ Recount(nit, NoRef)
  <2>1. di \in Slots
    <3>1. CASE Empty(b) = {}
      BY <3>1, Sizes DEF Slots
    <3>2. CASE Empty(b) # {}
      <4>1. Empty(b) \in SUBSET Nat /\ (\A x \in Empty(b) : x <= NumSlots) /\ Empty(b) \subseteq Slots
        BY Sizes DEF Empty, Slots
      <4>2. NumSlots \in Nat
        BY Sizes
      <4>3. Max(Empty(b)) \in Empty(b)
        BY ONLY <3>2, <4>1, <4>2, MaxIs, Zenon
      <4> QED BY <3>2, <4>1, <4>3
    <3> QED BY <3>1, <3>2
  <2>2. table' = [table EXCEPT ![b].slots[di] = nit,
                    ![b].over = IF table[b].slots[di] = NoRef THEN table[b].over
                                ELSE <<table[b].slots[di]>> \o table[b].over]
    <3> HIDE DEF di, b
    <3> QED BY <1>6 DEF displaced
  <2> HIDE DEF di
  <2>3. table' = Insert(table, b, di, nit)
    BY <2>2, Zenon DEF Insert
  <2>4. ~th[w].cleanup
    BY <1>1, <1>6, Zenon
  <2>5. /\ \A x \in Slots : table[b].slots[x] # NoRef => ~KeyIs(mem, table[b].slots[x], k)
        /\ \A x \in 1 .. Len(table[b].over) : ~KeyIs(mem, table[b].over[x], k)
    BY <1>2, <1>6, Zenon
  <2> QED BY <1>0, <1>1, <1>6, <2>1, <2>3, <2>4, <2>5, PutNew, Zenon
<1>7. CASE /\ IF slot # {} THEN ~Replaces(table[b].slots[i], cas) ELSE cas # NoRef
           /\ UNCHANGED <<table, mem, seg>>
  <2>1. th[w].cleanup
    BY <1>7 DEF Replaces
  <2>2. newest' = newest
    BY <1>0, <2>1 DEF NewestPut
  <2>3. /\ t \in Thread /\ t.pc = "release" /\ t.it = th[w].it /\ t.nit = th[w].nit /\ ~t.cleanup
    BY <1>1 DEF PutThread
  <2>4. th'[w] = t
    BY <1>0, <2>3, Becoming
  <2>5. PcOf(w)' /\ CopyOf(w)'
    BY <1>0, <1>1, <2>3, <2>4 DEF PcOf, Making, Reserving, Allocating, CopyOf
  <2>6. segLock \in Workers \cup {Maint, Nobody} /\ harm \subseteq {"lock", "scan"}
        /\ received \in [Workers -> Nat] /\ \A v \in Workers : received[v] <= MaxRequests[v]
    BY <1>0 DEF TypeOK
  <2>7. (IF t.pc \in {"install", "reserve"} THEN t.h ELSE NULL) = InHand(w)
    BY <1>1, <2>3
  <2> HIDE DEF b, i, j, di, displaced, cas
  <2> QED BY <1>0, <1>7, <2>2, <2>3, <2>5, <2>6, <2>7, OnlyThread
<1> QED BY <1>3, <1>4, <1>5, <1>6, <1>7, ZenonT(30)

-----------------------------------------------------------------------------
(* The maintenance thread. *)

LEMMA MaintFrame ==
    ASSUME IInv, NEW w \in Workers, UNCHANGED <<mem, table, cq, th, newest>>,
           TypeOK', PcOfMaint', LaidOut', MemOK',
           \A v \in Workers : ia'[v].reserved = ia[v].reserved /\ (segLock' = v <=> segLock = v),
           free_segments' = free_segments \/ segLock = Maint
    PROVE  IInv'
<1>1. \A v \in Workers : PcOf(v)'
  <2> TAKE v \in Workers
  <2>1. PcOf(v) /\ (segLock = Maint => segLock # v)
    BY NamesAssumption DEF IInv, PcOK
  <2> QED BY <2>1 DEF PcOf, Making, Reserving
<1>2. PcOK'
  BY <1>1 DEF PcOK
<1>3. Items'
  <2>1. CopyOf(w)'
    BY DEF IInv, Items, CopyOK, CopyOf, Making
  <2> QED BY <2>1, ItemsStay DEF IInv
<1> QED BY <1>2, <1>3 DEF IInv

\* Where no segment changes places.
LEMMA WalkFrame ==
    ASSUME IInv, UNCHANGED <<mem, free_segments, seg_alloced, th>>, GivenBack = NULL, GivenBack' = NULL,
           \A s \in Segments : seg'[s].next = seg[s].next /\ seg'[s].offset = seg[s].offset
                               /\ seg'[s].freed = seg[s].freed,
           \A v \in Workers : /\ ia'[v].oldest = ia[v].oldest /\ ia'[v].cur = ia[v].cur
                              /\ ia'[v].reserved = ia[v].reserved,
           NEW home \in [Segments -> Places], NEW pos \in [Segments -> Nat], Laid(home, pos),
           Walked(home)', mt'.pc # "pushed"
    PROVE  LaidOut' /\ MemOK'
<1>1. TypeOK /\ PcOK /\ MemOK
  BY DEF IInv
<1>2. \A v \in Workers : InHand(v)' = InHand(v)
  BY DEF InHand
<1>3. Lists(home, pos)' /\ Held(home)'
  BY <1>1, <1>2, LaidStays
<1>4. Vacant(home)'
  <2>1. \A s \in Segments : StillHolds(s)
    BY DEF StillHolds
  <2>2. Vacant(home)
    BY DEF Laid
  <2> QED BY <1>1, <2>1, <2>2, VacantStays
<1>5. Laid(home, pos)'
  BY <1>3, <1>4 DEF Laid
<1>6. LaidOut'
  BY <1>5, Zenon DEF LaidOut
<1>7. MemOK'
  BY <1>1, MemStays
<1> QED BY <1>6, <1>7

LEMMA RestIs ==
    /\ Rest \in Walker /\ Rest.pc = "start" /\ Rest.w = Nobody /\ Rest.h = NULL /\ Rest.prev = NULL
    /\ Rest.next = NULL /\ Rest.cand = NULL /\ Rest.cand_freed = 0
BY Sizes DEF Rest, Walker

LEMMA StartWalkStep ==
    ASSUME IInv, NEW w \in Workers, StartWalk(w)
    PROVE  IInv'
<1>0. /\ TypeOK /\ PcOfMaint /\ mt.pc = "start" /\ ia[w].oldest \in Segments
      /\ mt' = [Rest EXCEPT !.pc = "walk", !.w = w, !.h = ia[w].oldest]
      /\ UNCHANGED <<seg, mem, free_segments, seg_alloced, segLock, table, ia, cq, th, received, newest, harm>>
  BY DEF IInv, PcOK, StartWalk, MAt, TypeOK, Allocator, pool
<1>1. /\ mt' \in Walker /\ mt'.pc = "walk" /\ mt'.w = w /\ mt'.h = ia[w].oldest /\ mt'.prev = NULL
  BY <1>0, RestIs DEF Walker
<1>2. PICK home \in [Segments -> Places], pos \in [Segments -> Nat] : Laid(home, pos)
  BY DEF IInv, LaidOut
<1>3. TypeOK'
  BY <1>0, <1>1 DEF TypeOK
<1>4. PcOfMaint'
  BY <1>0, <1>1 DEF PcOfMaint
<1>5. Walked(home)'
  <2>1. home[ia[w].oldest] = Chain(w) /\ ia[w].oldest # NULL
    BY <1>0, <1>2, NoSegment DEF Laid, Lists, ListAt, ListIn
  <2>2. GivenBack' = NULL
    BY <1>1 DEF GivenBack
  <2> QED BY <1>0, <1>1, <2>1, <2>2 DEF Walked
<1>6. GivenBack = NULL /\ GivenBack' = NULL /\ mt'.pc # "pushed"
  BY <1>0, <1>1 DEF GivenBack
<1>7. LaidOut' /\ MemOK'
  BY <1>0, <1>2, <1>5, <1>6, WalkFrame
<1> QED BY <1>0, <1>3, <1>4, <1>7, MaintFrame

LEMMA WeighSegmentStep ==
    ASSUME IInv, WeighSegment
    PROVE  IInv'
<1> DEFINE f == seg[mt.h].freed
           better == /\ "CLEANED" \notin seg[mt.h].flags
                     /\ 5 * f >= 4 * SegSize /\ f > mt.cand_freed
<1>0. /\ TypeOK /\ PcOfMaint /\ mt.pc = "weigh" /\ mt.w \in Workers /\ mt \in Walker
      /\ mt' = [mt EXCEPT !.pc = "walk", !.prev = mt.h, !.h = mt.next,
                          !.cand = IF better THEN mt.h ELSE mt.cand,
                          !.cand_freed = IF better THEN f ELSE mt.cand_freed]
      /\ UNCHANGED <<seg, mem, free_segments, seg_alloced, segLock, table, ia, cq, th, received, newest, harm>>
  BY DEF IInv, PcOK, PcOfMaint, WeighSegment, MAt, TypeOK, pool
<1>2. PICK home \in [Segments -> Places], pos \in [Segments -> Nat] : Laid(home, pos)
  BY DEF IInv, LaidOut
<1>3. /\ mt.h # NULL /\ home[mt.h] = Chain(mt.w) /\ mt.next # NULL /\ seg[mt.h].next = mt.next
      /\ mt.h \in Segments /\ mt.next \in Segments
  BY <1>0, <1>2 DEF Laid, Walked, GivenBack, Walker
<1>4. PICK c \in Segments \cup {NULL} : c = IF better THEN mt.h ELSE mt.cand
  BY <1>0, <1>3 DEF Walker
<1>5. PICK d \in 0 .. SegSize : d = IF better THEN f ELSE mt.cand_freed
  BY <1>0, <1>3 DEF Walker, TypeOK
<1>1. /\ mt' \in Walker /\ mt'.pc = "walk" /\ mt'.w = mt.w /\ mt'.h = mt.next /\ mt'.prev = mt.h
  <2> HIDE DEF better, f
  <2>1. mt' = [mt EXCEPT !.pc = "walk", !.prev = mt.h, !.h = mt.next, !.cand = c, !.cand_freed = d]
    BY <1>0, <1>4, <1>5
  <2> QED BY <1>0, <1>3, <2>1 DEF Walker
<1>6. TypeOK'
  BY <1>0, <1>1 DEF TypeOK
<1>7. PcOfMaint'
  BY <1>0, <1>1 DEF PcOfMaint
<1>8. Walked(home)'
  <2>1. home[mt.next] = Chain(mt.w)
    <3>1. ListIn(home, pos, Nexts, Chain(mt.w), ia[mt.w].oldest) /\ Nexts[mt.h] = mt.next
      BY <1>0, <1>2, <1>3 DEF Laid, Lists, ListAt, Nexts
    <3> QED BY <1>3, <3>1 DEF ListIn
  <2>2. GivenBack' = NULL
    BY <1>1 DEF GivenBack
  <2> QED BY <1>0, <1>1, <1>3, <2>1, <2>2 DEF Walked
<1>9. GivenBack = NULL /\ GivenBack' = NULL /\ mt'.pc # "pushed"
  BY <1>0, <1>1 DEF GivenBack
<1>10. LaidOut' /\ MemOK'
  BY <1>0, <1>2, <1>8, <1>9, WalkFrame
<1> QED BY <1>0, <1>6, <1>7, <1>10, MaintFrame

LEMMA EndScanStep ==
    ASSUME IInv, EndScan
    PROVE  IInv'
<1>0. /\ TypeOK /\ PcOfMaint /\ mt.pc = "scan" /\ mt.w \in Workers /\ mt' = Rest
      /\ UNCHANGED <<seg, mem, free_segments, seg_alloced, segLock, table, ia, cq, th, received, newest, harm>>
  BY DEF IInv, PcOK, PcOfMaint, EndScan, MAt, TypeOK, pool
<1>2. PICK home \in [Segments -> Places], pos \in [Segments -> Nat] : Laid(home, pos)
  BY DEF IInv, LaidOut
<1>3. TypeOK'
  BY <1>0, RestIs DEF TypeOK
<1>4. PcOfMaint'
  BY <1>0, RestIs DEF PcOfMaint
<1>5. Walked(home)' /\ GivenBack = NULL /\ GivenBack' = NULL /\ mt'.pc # "pushed"
  BY <1>0, RestIs DEF Walked, GivenBack
<1>6. LaidOut' /\ MemOK'
  BY <1>0, <1>2, <1>5, WalkFrame
<1> QED BY <1>0, <1>3, <1>4, <1>6, MaintFrame

LEMMA EndWalkStep ==
    ASSUME IInv, EndWalk
    PROVE  IInv'
<1> DEFINE w == mt.w
           go == ia[w].cleaning # NULL /\ ia[w].clean_offset # SegSize
<1>0. /\ TypeOK /\ PcOfMaint /\ mt.pc = "walk" /\ mt.w \in Workers /\ mt \in Walker
      /\ UNCHANGED <<mem, free_segments, seg_alloced, segLock, table, cq, th, received, newest, harm>>
      /\ seg \in [Segments -> SegHeader] /\ ia \in [Workers -> Allocator]
  BY SegTyped DEF IInv, PcOK, PcOfMaint, EndWalk, MAt, TypeOK, pool
<1>1. /\ IF go THEN ia' = ia /\ seg' = seg
         ELSE /\ ia' = [ia EXCEPT ![w].cleaning = mt.cand, ![w].clean_offset = 0]
              /\ seg' = IF mt.cand = NULL THEN seg
                        ELSE [seg EXCEPT ![mt.cand].flags = @ \cup {"CLEANED"}]
      /\ mt' = IF ~go /\ mt.cand = NULL THEN Rest ELSE [Rest EXCEPT !.pc = "scan", !.w = w]
  BY DEF EndWalk
<1>2. PICK home \in [Segments -> Places], pos \in [Segments -> Nat] : Laid(home, pos)
  BY DEF IInv, LaidOut
<1>3. /\ ia' \in [Workers -> Allocator] /\ ia'[w].cleaning = (IF go THEN ia[w].cleaning ELSE mt.cand)
      /\ \A v \in Workers : ia'[v].oldest = ia[v].oldest /\ ia'[v].cur = ia[v].cur
                            /\ ia'[v].reserved = ia[v].reserved
  <2>1. CASE go
    BY <1>0, <1>1, <2>1
  <2>2. CASE ~go
    <3>1. PICK a \in Allocator : a = ia[w]
      BY <1>0
    <3>2. ia' = [ia EXCEPT ![w] = [a EXCEPT !.cleaning = mt.cand, !.clean_offset = 0]]
      BY <1>1, <2>2, <3>1
    <3>3. PICK b : b = [a EXCEPT !.cleaning = mt.cand, !.clean_offset = 0]
      OBVIOUS
    <3>4. /\ b \in Allocator /\ b.cleaning = mt.cand /\ b.oldest = a.oldest /\ b.cur = a.cur
          /\ b.reserved = a.reserved
      <4>1. PICK c \in Segments \cup {NULL} : c = mt.cand
        BY <1>0 DEF Walker
      <4>2. 0 \in 0 .. SegSize
        BY Sizes
      <4>3. b = [a EXCEPT !.cleaning = c, !.clean_offset = 0]
        BY <3>3, <4>1
      <4> QED BY <4>1, <4>2, <4>3 DEF Allocator
    <3>5. ia' = [ia EXCEPT ![w] = b]
      BY <3>2, <3>3
    <3> HIDE DEF go
    <3> QED BY <1>0, <2>2, <3>1, <3>4, <3>5
  <2> QED BY <2>1, <2>2
<1>4. /\ seg' \in [Segments -> SegHeader]
      /\ \A s \in Segments : seg'[s].next = seg[s].next /\ seg'[s].offset = seg[s].offset
                             /\ seg'[s].freed = seg[s].freed
  <2>1. CASE seg' = seg
    BY <1>0, <2>1
  <2>2. CASE seg' # seg
    <3>1. mt.cand \in Segments /\ seg' = [seg EXCEPT ![mt.cand].flags = @ \cup {"CLEANED"}]
      BY <1>0, <1>1, <2>2 DEF Walker
    <3>2. PICK x \in SegHeader : x = seg[mt.cand]
      BY <1>0, <3>1
    <3>3. PICK fl \in SUBSET {"INACTIVE", "CLEANED"} : fl = x.flags \cup {"CLEANED"}
      BY <3>2 DEF SegHeader
    <3>4. PICK y : y = [x EXCEPT !.flags = fl]
      OBVIOUS
    <3>5. y \in SegHeader /\ y.next = x.next /\ y.offset = x.offset /\ y.freed = x.freed
      BY <3>2, <3>3, <3>4 DEF SegHeader
    <3>6. seg' = [seg EXCEPT ![mt.cand] = y]
      BY <3>1, <3>2, <3>3, <3>4
    <3> QED BY <1>0, <3>1, <3>2, <3>5, <3>6
  <2> QED BY <2>1, <2>2
<1>5. /\ mt' \in Walker /\ mt'.pc \in {"start", "scan"}
      /\ mt'.pc = "scan" => mt'.w = w /\ (go \/ mt.cand # NULL)
  <2>1. CASE ~go /\ mt.cand = NULL
    BY <1>1, <2>1, RestIs
  <2>2. CASE ~(~go /\ mt.cand = NULL)
    <3>1. mt' = [Rest EXCEPT !.pc = "scan", !.w = w]
      BY <1>1, <2>2
    <3> HIDE DEF go
    <3>2. mt' \in Walker /\ mt'.pc = "scan" /\ mt'.w = w
      BY <1>0, <3>1, RestIs DEF Walker
    <3> QED BY <2>2, <3>2
  <2> QED BY <2>1, <2>2
<1>6. mt'.pc = "scan" => ia'[w].cleaning # NULL
  BY <1>3, <1>5
<1> HIDE DEF go
<1>7. TypeOK'
  BY <1>0, <1>3, <1>4, <1>5 DEF TypeOK, SegHeader
<1>8. PcOfMaint'
  BY <1>0, <1>5, <1>6 DEF PcOfMaint
<1>9. Walked(home)' /\ GivenBack = NULL /\ GivenBack' = NULL /\ mt'.pc # "pushed"
  BY <1>0, <1>5 DEF Walked, GivenBack
<1>10. LaidOut' /\ MemOK'
  BY <1>0, <1>2, <1>3, <1>4, <1>9, WalkFrame
<1> QED BY <1>0, <1>3, <1>7, <1>8, <1>10, MaintFrame

\* A dead segment leaves the chain.
Leaving(w, h, n) ==
    /\ mt'.pc = "push" /\ mt'.next = n /\ mt'.h = h /\ mt'.prev = mt.prev /\ mt'.w = w
    /\ ia'[w].oldest = IF mt.prev = NULL THEN n ELSE ia[w].oldest
    /\ \A v \in Workers \ {w} : ia'[v].oldest = ia[v].oldest
    /\ \A v \in Workers : ia'[v].cur = ia[v].cur /\ ia'[v].reserved = ia[v].reserved
    /\ \A s \in Segments : seg'[s].offset = seg[s].offset /\ seg'[s].freed = seg[s].freed
    /\ \A s \in Segments \ {mt.prev} : seg'[s].next = seg[s].next
    /\ mt.prev # NULL => mt.prev \in Segments /\ seg'[mt.prev].next = n

LEMMA FromChain ==
    ASSUME IInv, mt.pc = "walk", NEW w \in Workers, w = mt.w, NEW h \in Segments, h = mt.h,
           NEW n \in Segments, n = seg[h].next, seg[h].freed = SegSize,
           UNCHANGED <<mem, free_segments, seg_alloced, th>>, Leaving(w, h, n)
    PROVE  LaidOut'
<1>1. /\ TypeOK /\ MemOK /\ seg \in [Segments -> SegHeader] /\ ia \in [Workers -> Allocator]
      /\ GivenBack = NULL /\ h # NULL /\ n # NULL
  BY SegTyped, NoSegment DEF IInv, TypeOK, GivenBack
<1>2. /\ mt'.pc = "push" /\ mt'.next = n /\ mt'.h = h /\ mt'.prev = mt.prev /\ mt'.w = w
      /\ ia'[w].oldest = IF mt.prev = NULL THEN n ELSE ia[w].oldest
      /\ \A v \in Workers \ {w} : ia'[v].oldest = ia[v].oldest
      /\ \A v \in Workers : ia'[v].cur = ia[v].cur /\ ia'[v].reserved = ia[v].reserved
      /\ \A s \in Segments : seg'[s].offset = seg[s].offset /\ seg'[s].freed = seg[s].freed
      /\ \A s \in Segments \ {mt.prev} : seg'[s].next = seg[s].next
      /\ mt.prev # NULL => mt.prev \in Segments /\ seg'[mt.prev].next = n
  BY DEF Leaving
<1>3. PICK home \in [Segments -> Places], pos \in [Segments -> Nat] : Laid(home, pos)
  BY DEF IInv, LaidOut
<1>4. /\ home[h] = Chain(w)
      /\ mt.prev = NULL => ia[w].oldest = h
      /\ mt.prev # NULL => home[mt.prev] = Chain(w) /\ seg[mt.prev].next = h
  BY <1>1, <1>3 DEF Laid, Walked
<1>5. /\ ListIn(home, pos, Nexts, Chain(w), ia[w].oldest) /\ Nexts \in [Segments -> Segments \cup {NULL}]
      /\ Nexts[h] = n
  <2>1. ListAt(home, pos, Chain(w), ia[w].oldest)
    BY <1>3 DEF Laid, Lists
  <2>2. Nexts \in [Segments -> Segments \cup {NULL}]
    BY <1>1 DEF Nexts, SegHeader
  <2> QED BY <2>1, <2>2 DEF Nexts, ListAt
<1>6. home[n] = Chain(w) /\ n # h
  <2>1. home[n] = Chain(w) /\ pos[h] < pos[n]
    BY <1>1, <1>4, <1>5 DEF ListIn
  <2> QED BY <2>1
<1>7. LiveIn(mem[h], seg[h].offset) = {}
  <2>1. PICK o \in 0 .. SegSize : o = seg[h].offset
    BY <1>1 DEF SegHeader
  <2>2. PICK items \in SUBSET Header : items = LiveIn(mem[h], o)
    BY <1>1 DEF TypeOK, LiveIn
  <2>3. o # 0
    <3>1. o = 0 => seg[h].freed = 0
      BY <1>1, <1>3, <1>4, <2>1 DEF Laid, Vacant
    <3> QED BY <3>1, Sizes
  <2>4. SegSize + Cardinality(Covered(items)) = o
    BY <1>1, <2>1, <2>2, <2>3 DEF MemOK, Tidy
  <2>5. PICK c \in Nat : c = Cardinality(Covered(items))
    BY CoveredFinite
  <2>6. c = 0
    BY <2>1, <2>4, <2>5, Sizes
  <2> QED BY <2>1, <2>2, <2>5, <2>6, CoveredNone
<1>8. PICK home2 : home2 = Moved(home, h, Given)
  OBVIOUS
<1>9. /\ home2 \in [Segments -> Places] /\ home2[h] = Given
      /\ \A s \in Segments \ {h} : home2[s] = home[s]
  BY <1>8 DEF Moved, Places
<1>10. \A p : p # Chain(w) /\ p # Given => \A s \in Segments : home[s] = p <=> home2[s] = p
  BY <1>4, <1>9
<1>11. Lists(home2, pos)'
  <2>1. PICK nxt : nxt = Nexts
    OBVIOUS
  <2>2. PICK nxt2 : nxt2 = Nexts'
    OBVIOUS
  <2>3. /\ \A s \in Segments : nxt[s] \in Segments \cup {NULL}
        /\ \A s \in Segments \ {mt.prev} : nxt2[s] = nxt[s]
        /\ mt.prev # NULL => nxt2[mt.prev] = n /\ nxt[mt.prev] = h
    BY <1>4, <1>5, <1>2, <2>1, <2>2 DEF Nexts
  <2>4. ASSUME NEW p, p # Chain(w), p # Given, NEW first \in Segments \cup {NULL},
               ListIn(home, pos, nxt, p, first)
        PROVE  ListIn(home2, pos, nxt2, p, first)
    <3>1. \A s \in Segments : home[s] = p <=> home2[s] = p
      BY <1>10, <2>4
    <3>2. \A s \in Segments : home[s] = p =>
              nxt[s] \in Segments \cup {NULL} /\ nxt2[s] = nxt[s] /\ pos[s] = pos[s]
      BY <1>4, <2>3, <2>4, NoSegment
    <3> QED BY <2>4, <3>1, <3>2, ListStays
  <2>5. ListAt(home2, pos, Free, free_segments)'
    <3>1. ListIn(home, pos, nxt, Free, free_segments) /\ free_segments \in Segments \cup {NULL}
      BY <1>1, <1>3, <2>1 DEF Laid, Lists, ListAt, TypeOK
    <3>2. ListIn(home2, pos, nxt2, Free, free_segments)
      BY <1>1, <2>4, <3>1, PlacesDiffer
    <3> QED BY <1>1, <2>2, <3>2 DEF ListAt
  <2>6. ASSUME NEW v \in Workers \ {w} PROVE ListAt(home2, pos, Chain(v), ia[v].oldest)'
    <3>1. ListIn(home, pos, nxt, Chain(v), ia[v].oldest) /\ ia[v].oldest \in Segments \cup {NULL}
      BY <1>1, <1>3, <2>1 DEF Laid, Lists, ListAt, Allocator
    <3>2. Chain(v) # Chain(w) /\ Chain(v) # Given
      BY <1>1, <2>6, PlacesDiffer
    <3>3. ListIn(home2, pos, nxt2, Chain(v), ia[v].oldest)
      BY <2>4, <3>1, <3>2
    <3> QED BY <1>2, <2>2, <3>3 DEF ListAt
  <2>7. ListAt(home2, pos, Chain(w), ia[w].oldest)'
    <3>0. ListIn(home, pos, nxt, Chain(w), ia[w].oldest) /\ Given # Chain(w)
          /\ home2 = [home EXCEPT ![h] = Given] /\ nxt[h] = n
      BY <1>1, <1>5, <1>8, <2>1, PlacesDiffer DEF Moved
    <3>1. CASE mt.prev = NULL
      <4>1. ia[w].oldest = h /\ ia'[w].oldest = n
        BY <1>4, <1>2, <3>1
      <4>2. \A s \in Segments : home[s] = Chain(w) /\ s # h => nxt2[s] = nxt[s]
        BY <2>3, <3>1, NoSegment
      <4>3. PICK hh \in Segments : hh = h
        OBVIOUS
      <4>4. ListIn(home, pos, nxt, Chain(w), hh)
        BY <3>0, <4>1, <4>3
      <4>5. \A s \in Segments : nxt[s] \in Segments \cup {NULL}
        BY <2>3
      <4>6. \A s \in Segments : home[s] = Chain(w) /\ s # hh => nxt2[s] = nxt[s]
        BY <4>2, <4>3
      <4>7. ListIn([home EXCEPT ![hh] = Given], pos, nxt2, Chain(w), nxt[hh])
        <5>1. PICK p : p = Chain(w)
          OBVIOUS
        <5>2. ListIn(home, pos, nxt, p, hh) /\ Given # p
              /\ \A s \in Segments : home[s] = p /\ s # hh => nxt2[s] = nxt[s]
          BY <3>0, <4>4, <4>6, <5>1
        <5>3. ListIn([home EXCEPT ![hh] = Given], pos, nxt2, p, nxt[hh])
          BY ONLY <4>5, <5>2, hh \in Segments, home \in [Segments -> Places],
                  pos \in [Segments -> Nat], ListPop
        <5> QED BY <5>1, <5>3
      <4> QED BY <2>2, <3>0, <4>1, <4>3, <4>7 DEF ListAt
    <3>2. CASE mt.prev # NULL
      <4>1. PICK prev \in Segments : prev = mt.prev
        BY <1>2, <3>2
      <4>2. PICK hh \in Segments : hh = h
        OBVIOUS
      <4>3. PICK p : p = Chain(w)
        OBVIOUS
      <4>4. PICK first \in Segments \cup {NULL} : first = ia[w].oldest
        BY <1>1 DEF Allocator
      <4>5. /\ ListIn(home, pos, nxt, p, first) /\ SkipsIn(home, nxt, nxt2, p, prev, hh)
            /\ \A s \in Segments : nxt[s] \in Segments \cup {NULL}
        BY <1>4, <2>3, <3>0, <3>2, <4>1, <4>2, <4>3, <4>4 DEF SkipsIn
      <4>6. ListIn(home2, pos, nxt2, p, first)
        <5>1. PICK q : q = Given
          OBVIOUS
        <5>2. q # p /\ home2 = Moved(home, hh, q)
          BY <1>8, <3>0, <4>2, <4>3, <5>1
        <5> QED BY ONLY <4>5, <5>2, hh \in Segments, prev \in Segments, first \in Segments \cup {NULL},
                  home \in [Segments -> Places], pos \in [Segments -> Nat], ListRemove
      <4>7. ia'[w].oldest = first
        BY <1>2, <3>2, <4>4
      <4> QED BY <2>2, <3>0, <4>2, <4>3, <4>6, <4>7 DEF ListAt
    <3> QED BY <3>1, <3>2
  <2> QED BY <2>5, <2>6, <2>7 DEF Lists
<1>12. /\ \A v \in Workers : InHand(v)' = InHand(v)
       /\ GivenBack' = h
  BY <1>1, <1>2 DEF InHand, GivenBack
<1>13. Held(home2)'
  <2>0. Held(home)
    BY <1>3 DEF Laid
  <2>1. \A s \in Segments : s > seg_alloced <=> home2[s] = Unused
    BY <1>1, <1>10, <2>0, PlacesDiffer DEF Held
  <2>2. ASSUME NEW v \in Workers PROVE home2[ia'[v].cur] = Chain(v) /\ seg'[ia'[v].cur].next = NULL
    <3>1. ia[v].cur \in Segments /\ home[ia[v].cur] = Chain(v) /\ seg[ia[v].cur].next = NULL
      BY <1>1, <2>0 DEF Allocator, Held
    <3>2. ia[v].cur # h
      BY <1>1, <3>1
    <3>3. ia[v].cur # mt.prev
      BY <1>1, <1>4, <1>2, <3>1, NoSegment
    <3> QED BY <1>2, <1>9, <3>1, <3>2, <3>3
  <2>3. ASSUME NEW v \in Workers, NEW s \in Segments
        PROVE  (home2[s] = Reserve(v) <=> s = ia'[v].reserved) /\ (home2[s] = Hand(v) <=> s = InHand(v))
    <3>1. (home[s] = Reserve(v) <=> s = ia[v].reserved) /\ (home[s] = Hand(v) <=> s = InHand(v))
      BY <2>0 DEF Held
    <3>2. Reserve(v) # Chain(w) /\ Reserve(v) # Given /\ Hand(v) # Chain(w) /\ Hand(v) # Given
      BY <1>1, PlacesDiffer
    <3> QED BY <1>2, <1>10, <3>1, <3>2
  <2>4. \A s \in Segments : home2[s] = Given <=> s = h
    BY <1>1, <1>9, <2>0, NoSegment DEF Held
  <2> QED BY <1>1, <1>12, <2>1, <2>2, <2>3, <2>4 DEF Held
<1>14. Walked(home2)'
  <2>1. home2[n] = Chain(w)
    BY <1>6, <1>9
  <2>2. mt.prev = NULL => ia'[w].oldest = n
    BY <1>2
  <2>3. mt.prev # NULL => home2[mt.prev] = Chain(w) /\ seg'[mt.prev].next = n
    <3>1. SUFFICES ASSUME mt.prev # NULL PROVE mt.prev # h
      BY <1>4, <1>2, <1>9
    <3>2. pos[mt.prev] < pos[h] /\ pos[h] \in Nat
      BY <1>1, <1>4, <1>5, <1>2, <3>1 DEF ListIn, Nexts
    <3> QED BY <3>2
  <2> QED BY <1>1, <1>2, <1>12, <2>1, <2>2, <2>3 DEF Walked
<1>15. Vacant(home2)'
  <2>0. Vacant(home)
    BY <1>3 DEF Laid
  <2>1. ASSUME NEW s \in Segments
        PROVE  /\ home2[s] \in {Free, Unused} => seg'[s].offset = 0
               /\ home2[s] = Given => LiveIn(mem'[s], seg'[s].offset) = {}
               /\ \A v \in Workers :
                    /\ home2[s] \in {Reserve(v), Hand(v)} => seg'[s].offset = 0 /\ seg'[s].freed = 0
                    /\ home2[s] = Chain(v) /\ seg'[s].offset = 0 => seg'[s].freed = 0
    <3>1. CASE s = h
      BY <1>1, <1>7, <1>2, <1>9, <3>1, PlacesDiffer
    <3>2. CASE s # h
      <4>1. home2[s] = home[s] /\ seg'[s].offset = seg[s].offset /\ seg'[s].freed = seg[s].freed
            /\ mem'[s] = mem[s]
        BY <1>1, <1>2, <1>9, <3>2
      <4> QED BY <2>0, <4>1 DEF Vacant
    <3> QED BY <3>1, <3>2
  <2> QED BY <1>2, <2>1 DEF Vacant
<1>16. LaidOut'
  <2>1. Laid(home2, pos)'
    BY <1>11, <1>13, <1>14, <1>15 DEF Laid
  <2> QED BY <1>9, <2>1, Zenon DEF LaidOut
<1> QED BY <1>16

LEMMA WalkSegmentStep ==
    ASSUME IInv, WalkSegment
    PROVE  IInv'
<1> DEFINE dead == seg[mt.h].freed = SegSize
<1>0. /\ TypeOK /\ PcOfMaint /\ MemOK /\ PcOK /\ mt.pc = "walk" /\ mt.w \in Workers /\ mt \in Walker
      /\ UNCHANGED <<mem, free_segments, seg_alloced, segLock, table, cq, th, received, newest, harm>>
      /\ seg \in [Segments -> SegHeader] /\ ia \in [Workers -> Allocator]
      /\ mt.h # NULL /\ seg[mt.h].next # NULL
      /\ GivenBack = NULL
  BY SegTyped DEF IInv, PcOK, PcOfMaint, WalkSegment, MAt, PastUse, TypeOK, pool, GivenBack
<1>1. /\ mt' = [mt EXCEPT !.pc = IF dead THEN "push" ELSE "weigh", !.next = seg[mt.h].next]
      /\ ia' = IF dead /\ mt.prev = NULL THEN [ia EXCEPT ![mt.w].oldest = seg[mt.h].next] ELSE ia
      /\ seg' = IF dead /\ mt.prev # NULL THEN [seg EXCEPT ![mt.prev].next = seg[mt.h].next] ELSE seg
  BY DEF WalkSegment
<1>2. mt.h \in Segments /\ seg[mt.h].next \in Segments
  <2>1. mt.h \in Segments
    BY <1>0 DEF Walker
  <2> QED BY <1>0, <2>1 DEF SegHeader
<1> SUFFICES ASSUME NEW w \in Workers, w = mt.w, NEW h \in Segments, h = mt.h,
                    NEW n \in Segments, n = seg[mt.h].next
             PROVE  IInv'
  BY <1>0, <1>2
<1>3. PICK home \in [Segments -> Places], pos \in [Segments -> Nat] : Laid(home, pos)
  BY DEF IInv, LaidOut
<1>4. /\ home[h] = Chain(w)
      /\ mt.prev = NULL => ia[w].oldest = h
      /\ mt.prev # NULL => home[mt.prev] = Chain(w) /\ seg[mt.prev].next = h
  BY <1>0, <1>3 DEF Laid, Walked
<1>5. CASE ~dead
  <2>1. ia' = ia /\ seg' = seg /\ mt' = [mt EXCEPT !.pc = "weigh", !.next = n]
    BY <1>1, <1>5
  <2> HIDE DEF dead
  <2>2. mt' \in Walker /\ mt'.pc = "weigh" /\ mt'.next = n /\ mt'.h = h /\ mt'.prev = mt.prev /\ mt'.w = w
    BY <1>0, <1>2, <2>1 DEF Walker
  <2>3. TypeOK'
    BY <1>0, <2>1, <2>2 DEF TypeOK
  <2>4. PcOfMaint'
    BY <1>0, <2>2 DEF PcOfMaint
  <2>5. GivenBack' = NULL /\ mt'.pc # "pushed"
    BY <2>2 DEF GivenBack
  <2>6. Walked(home)'
    BY <1>0, <1>2, <1>4, <2>1, <2>2, <2>5 DEF Walked
  <2>7. LaidOut' /\ MemOK'
    BY <1>0, <1>3, <2>1, <2>5, <2>6, WalkFrame
  <2> QED BY <1>0, <2>1, <2>3, <2>4, <2>7, MaintFrame
<1>6. CASE dead
  <2>1. mt' = [mt EXCEPT !.pc = "push", !.next = n]
    BY <1>1, <1>6
  <2> HIDE DEF dead
  <2>2. mt' \in Walker /\ mt'.pc = "push" /\ mt'.next = n /\ mt'.h = h /\ mt'.prev = mt.prev /\ mt'.w = w
    BY <1>0, <1>2, <2>1 DEF Walker
  <2>3. /\ ia' \in [Workers -> Allocator]
        /\ ia'[w].oldest = IF mt.prev = NULL THEN n ELSE ia[w].oldest
        /\ \A v \in Workers \ {w} : ia'[v].oldest = ia[v].oldest
        /\ \A v \in Workers : ia'[v].cur = ia[v].cur /\ ia'[v].reserved = ia[v].reserved
                              /\ ia'[v].cleaning = ia[v].cleaning
    <3>1. CASE mt.prev = NULL
      <4>1. PICK a \in Allocator : a = ia[w]
        BY <1>0
      <4>2. PICK b : b = [a EXCEPT !.oldest = n]
        OBVIOUS
      <4>3. ia' = [ia EXCEPT ![w] = b]
        BY <1>1, <1>6, <3>1, <4>1, <4>2
      <4>4. b \in Allocator /\ b.oldest = n /\ b.cur = a.cur /\ b.reserved = a.reserved
            /\ b.cleaning = a.cleaning
        BY <1>2, <4>1, <4>2 DEF Allocator
      <4> QED BY <1>0, <3>1, <4>1, <4>3, <4>4
    <3>2. CASE mt.prev # NULL
      BY <1>0, <1>1, <1>6, <3>2
    <3> QED BY <3>1, <3>2
  <2>4. /\ seg' \in [Segments -> SegHeader]
        /\ \A s \in Segments : seg'[s].offset = seg[s].offset /\ seg'[s].freed = seg[s].freed
        /\ \A s \in Segments \ {mt.prev} : seg'[s].next = seg[s].next
        /\ mt.prev # NULL => mt.prev \in Segments /\ seg'[mt.prev].next = n
    <3>1. CASE mt.prev = NULL
      BY <1>0, <1>1, <1>6, <3>1
    <3>2. CASE mt.prev # NULL
      <4>1. mt.prev \in Segments
        BY <1>0, <3>2 DEF Walker
      <4>2. PICK x \in SegHeader : x = seg[mt.prev]
        BY <1>0, <4>1
      <4>3. PICK y : y = [x EXCEPT !.next = n]
        OBVIOUS
      <4>4. y \in SegHeader /\ y.next = n /\ y.offset = x.offset /\ y.freed = x.freed
        BY <1>2, <4>2, <4>3 DEF SegHeader
      <4>5. seg' = [seg EXCEPT ![mt.prev] = y]
        BY <1>1, <1>6, <3>2, <4>2, <4>3
      <4> QED BY <1>0, <3>2, <4>1, <4>2, <4>4, <4>5
    <3> QED BY <3>1, <3>2
  <2>5. TypeOK'
    BY <1>0, <2>2, <2>3, <2>4 DEF TypeOK, SegHeader
  <2>6. PcOfMaint'
    BY <1>0, <2>2 DEF PcOfMaint
  <2>7. LaidOut'
    <3>1. Leaving(w, h, n)
      BY <1>0, <2>2, <2>3, <2>4 DEF Leaving
    <3>2. n = seg[h].next /\ seg[h].freed = SegSize
      BY <1>6 DEF dead
    <3> QED BY <1>0, <3>1, <3>2, FromChain
  <2>8. MemOK'
    BY <1>0, <2>4, MemStays
  <2> QED BY <1>0, <2>3, <2>5, <2>6, <2>7, <2>8, MaintFrame
<1> QED BY <1>5, <1>6

\* It is emptied under the lock,
LEMMA PushSegmentStep ==
    ASSUME IInv, PushSegment
    PROVE  IInv'
<1>0. /\ TypeOK /\ PcOfMaint /\ MemOK /\ PcOK /\ mt.pc = "push" /\ mt.w \in Workers /\ mt \in Walker
      /\ segLock = Nobody /\ segLock' = Maint /\ mt' = [mt EXCEPT !.pc = "pushed"]
      /\ seg' = [seg EXCEPT ![mt.h].offset = 0, ![mt.h].next = free_segments]
      /\ UNCHANGED <<mem, free_segments, seg_alloced, table, ia, cq, th, received, newest, harm>>
      /\ seg \in [Segments -> SegHeader] /\ ia \in [Workers -> Allocator]
      /\ free_segments \in Segments \cup {NULL} /\ GivenBack = mt.h
  BY SegTyped DEF IInv, PcOK, PcOfMaint, PushSegment, MAt, TypeOK, GivenBack
<1>1. PICK home \in [Segments -> Places], pos \in [Segments -> Nat] : Laid(home, pos)
  BY DEF IInv, LaidOut
<1>2. PICK h \in Segments : h = mt.h
  BY <1>0, <1>1 DEF Laid, Walked, Walker
<1>3. mt' \in Walker /\ mt'.pc = "pushed" /\ mt'.h = mt.h /\ mt'.next = mt.next /\ mt'.prev = mt.prev /\ mt'.w = mt.w
  BY <1>0 DEF Walker
<1>4. /\ seg' \in [Segments -> SegHeader] /\ seg'[h].offset = 0 /\ seg'[h].next = free_segments
      /\ seg'[h].freed = seg[h].freed
      /\ \A s \in Segments \ {h} : seg'[s] = seg[s]
  <2>1. PICK x \in SegHeader : x = seg[h]
    BY <1>0
  <2>2. PICK y : y = [x EXCEPT !.offset = 0, !.next = free_segments]
    OBVIOUS
  <2>3. 0 \in 0 .. SegSize
    BY Sizes
  <2>4. y \in SegHeader /\ y.offset = 0 /\ y.next = free_segments /\ y.freed = x.freed
    BY <1>0, <2>1, <2>2, <2>3 DEF SegHeader
  <2>5. seg' = [seg EXCEPT ![h] = y]
    BY <1>0, <1>2, <2>1, <2>2
  <2> QED BY <1>0, <2>1, <2>4, <2>5, ZenonT(30)
<1>5. TypeOK'
  <2>1. Maint \in Workers \cup {Maint, Nobody}
    OBVIOUS
  <2> QED BY <1>0, <1>3, <1>4, <2>1 DEF TypeOK, SegHeader
<1>6. PcOfMaint'
  BY <1>0, <1>3 DEF PcOfMaint
<1>7. /\ home[h] = Given /\ \A s \in Segments : home[s] = Given <=> s = h
  BY <1>0, <1>1, <1>2 DEF Laid, Held
<1>8. \A s \in Segments \ {h} : seg'[s].next = seg[s].next
  BY <1>4
<1>9. Lists(home, pos)'
  <2>1. PICK nxt : nxt = Nexts
    OBVIOUS
  <2>2. PICK nxt2 : nxt2 = Nexts'
    OBVIOUS
  <2>3. /\ \A s \in Segments : nxt[s] \in Segments \cup {NULL}
        /\ \A s \in Segments \ {h} : nxt2[s] = nxt[s]
    BY <1>0, <1>8, <2>1, <2>2 DEF Nexts, SegHeader
  <2>4. ASSUME NEW p, p # Given, NEW first \in Segments \cup {NULL}, ListIn(home, pos, nxt, p, first)
        PROVE  ListIn(home, pos, nxt2, p, first)
    <3>1. \A s \in Segments : home[s] = p =>
              nxt[s] \in Segments \cup {NULL} /\ nxt2[s] = nxt[s] /\ pos[s] = pos[s]
      BY <1>7, <2>3, <2>4
    <3>2. \A s \in Segments : home[s] = p <=> home[s] = p
      OBVIOUS
    <3> QED BY <2>4, <3>1, <3>2, ListStays
  <2>5. ListAt(home, pos, Free, free_segments)'
    <3>1. ListIn(home, pos, nxt, Free, free_segments)
      BY <1>1, <2>1 DEF Laid, Lists, ListAt
    <3>2. ListIn(home, pos, nxt2, Free, free_segments)
      BY <1>0, <2>4, <3>1, PlacesDiffer
    <3> QED BY <1>0, <2>2, <3>2 DEF ListAt
  <2>6. ASSUME NEW v \in Workers PROVE ListAt(home, pos, Chain(v), ia[v].oldest)'
    <3>1. ListIn(home, pos, nxt, Chain(v), ia[v].oldest) /\ ia[v].oldest \in Segments \cup {NULL}
      BY <1>0, <1>1, <2>1 DEF Laid, Lists, ListAt, Allocator
    <3>2. ListIn(home, pos, nxt2, Chain(v), ia[v].oldest)
      BY <2>4, <3>1, PlacesDiffer
    <3> QED BY <1>0, <2>2, <3>2 DEF ListAt
  <2> QED BY <2>5, <2>6 DEF Lists
<1>10. GivenBack' = h /\ \A v \in Workers : InHand(v)' = InHand(v)
  BY <1>0, <1>2, <1>3 DEF InHand, GivenBack
<1>11. Held(home)'
  <2>0. Held(home)
    BY <1>1 DEF Laid
  <2>1. ASSUME NEW v \in Workers PROVE seg'[ia[v].cur].next = NULL
    <3>1. ia[v].cur \in Segments /\ home[ia[v].cur] = Chain(v) /\ seg[ia[v].cur].next = NULL
      BY <1>0, <2>0 DEF Allocator, Held
    <3>2. ia[v].cur # h
      BY <1>7, <3>1, PlacesDiffer
    <3> QED BY <1>8, <3>1, <3>2
  <2> QED BY <1>0, <1>7, <1>10, <2>0, <2>1 DEF Held
<1>12. Walked(home)'
  <2>1. /\ mt.next # NULL /\ home[mt.next] = Chain(mt.w)
        /\ mt.prev = NULL => ia[mt.w].oldest = mt.next
        /\ mt.prev # NULL => home[mt.prev] = Chain(mt.w) /\ seg[mt.prev].next = mt.next
    BY <1>0, <1>1, <1>2, NoSegment DEF Laid, Walked
  <2>2. mt.prev # NULL => mt.prev # h /\ mt.prev \in Segments
    BY <1>0, <1>7, <2>1, PlacesDiffer DEF Walker
  <2>3. mt.prev # NULL => seg'[mt.prev].next = mt.next
    BY <1>8, <2>1, <2>2
  <2> QED BY <1>0, <1>2, <1>3, <1>4, <1>10, <2>1, <2>3, NoSegment DEF Walked
<1>13. LiveIn(mem[h], seg[h].offset) = {} /\ mem[h] \in SUBSET Header /\ seg[h].offset \in 0 .. SegSize
       /\ Tidy(mem[h], seg[h].offset, seg[h].freed)
  BY <1>0, <1>1, <1>7 DEF Laid, Vacant, TypeOK, SegHeader, MemOK
<1>14. Tidy(mem[h], 0, seg[h].freed) /\ LiveIn(mem[h], 0) = {}
  <2>1. PICK items \in SUBSET Header : items = mem[h]
    BY <1>13
  <2>2. PICK o \in 0 .. SegSize : o = seg[h].offset
    BY <1>13
  <2>3. PICK f : f = seg[h].freed
    OBVIOUS
  <2>4. Tidy(items, o, f) /\ LiveIn(items, o) = {}
    BY <1>13, <2>1, <2>2, <2>3
  <2>5. Tidy(items, 0, f) /\ LiveIn(items, 0) = {}
    BY ONLY <2>4, items \in SUBSET Header, o \in 0 .. SegSize, TidyReset
  <2> QED BY <2>1, <2>3, <2>5
<1>15. Vacant(home)'
  <2>0. Vacant(home)
    BY <1>1 DEF Laid
  <2>1. ASSUME NEW s \in Segments
        PROVE  /\ home[s] \in {Free, Unused} => seg'[s].offset = 0
               /\ home[s] = Given => LiveIn(mem[s], seg'[s].offset) = {} /\ seg'[s].offset = 0
               /\ \A v \in Workers :
                    /\ home[s] \in {Reserve(v), Hand(v)} => seg'[s].offset = 0 /\ seg'[s].freed = 0
                    /\ home[s] = Chain(v) /\ seg'[s].offset = 0 => seg'[s].freed = 0
    <3>1. CASE s = h
      BY <1>4, <1>7, <1>14, <3>1, PlacesDiffer
    <3>2. CASE s # h
      <4>1. seg'[s] = seg[s] /\ home[s] # Given
        BY <1>4, <1>7, <3>2
      <4> QED BY <2>0, <4>1 DEF Vacant
    <3> QED BY <3>1, <3>2
  <2> QED BY <1>0, <2>1 DEF Vacant
<1>16. LaidOut'
  <2>1. Laid(home, pos)'
    BY <1>9, <1>11, <1>12, <1>15 DEF Laid
  <2> QED BY <2>1, Zenon DEF LaidOut
<1>17. MemOK'
  <2>1. ASSUME NEW s \in Segments PROVE Tidy(mem[s], seg'[s].offset, seg'[s].freed)
    BY <1>0, <1>4, <1>14 DEF MemOK
  <2> QED BY <1>0, <2>1 DEF MemOK
<1>18. \A v \in Workers : segLock' = v <=> segLock = v
  BY <1>0, NamesAssumption
<1> QED BY <1>0, <1>5, <1>6, <1>16, <1>17, <1>18, MaintFrame

\* and is the first on the free list when the lock is dropped.
LEMMA PushedSegmentStep ==
    ASSUME IInv, PushedSegment
    PROVE  IInv'
<1>0. /\ TypeOK /\ PcOfMaint /\ MemOK /\ PcOK /\ mt.pc = "pushed" /\ mt.w \in Workers /\ mt \in Walker
      /\ segLock = Maint /\ segLock' = Nobody /\ mt' = [mt EXCEPT !.pc = "walk", !.h = mt.next]
      /\ free_segments' = mt.h
      /\ UNCHANGED <<seg, mem, seg_alloced, table, ia, cq, th, received, newest, harm>>
      /\ seg \in [Segments -> SegHeader] /\ ia \in [Workers -> Allocator]
      /\ free_segments \in Segments \cup {NULL} /\ GivenBack = mt.h
  BY SegTyped DEF IInv, PcOK, PcOfMaint, PushedSegment, MAt, TypeOK, GivenBack
<1>1. PICK home \in [Segments -> Places], pos \in [Segments -> Nat] : Laid(home, pos)
  BY DEF IInv, LaidOut
<1>2. PICK h \in Segments : h = mt.h
  BY <1>0, <1>1 DEF Laid, Walked, Walker
<1>3. mt' \in Walker /\ mt'.pc = "walk" /\ mt'.h = mt.next /\ mt'.prev = mt.prev /\ mt'.w = mt.w
  BY <1>0 DEF Walker
<1>4. TypeOK'
  <2>1. Nobody \in Workers \cup {Maint, Nobody} /\ free_segments' \in Segments \cup {NULL}
    BY <1>0, <1>2
  <2> QED BY <1>0, <1>3, <2>1 DEF TypeOK
<1>5. PcOfMaint'
  BY <1>0, <1>3, NamesAssumption DEF PcOfMaint
<1>6. home[h] = Given /\ \A s \in Segments : home[s] = Given <=> s = h
  BY <1>0, <1>1, <1>2 DEF Laid, Held
<1>7. PICK home2 : home2 = Moved(home, h, Free)
  OBVIOUS
<1>8. /\ home2 \in [Segments -> Places] /\ home2[h] = Free
      /\ \A s \in Segments \ {h} : home2[s] = home[s]
  BY <1>7 DEF Moved, Places
<1>9. \A p : p # Free /\ p # Given => \A s \in Segments : home[s] = p <=> home2[s] = p
  BY <1>6, <1>8
<1>10. PICK pos2 \in [Segments -> Nat] :
           /\ pos2[h] = 0
           /\ \A s \in Segments \ {h} : pos2[s] = IF home[s] = Free THEN pos[s] + 1 ELSE pos[s]
  <2> DEFINE q == [s \in Segments |-> IF s = h THEN 0 ELSE IF home[s] = Free THEN pos[s] + 1 ELSE pos[s]]
  <2>1. q \in [Segments -> Nat]
    OBVIOUS
  <2>2. q[h] = 0 /\ \A s \in Segments \ {h} : q[s] = IF home[s] = Free THEN pos[s] + 1 ELSE pos[s]
    OBVIOUS
  <2> HIDE DEF q
  <2> QED BY <2>1, <2>2
<1>11. Lists(home2, pos2)'
  <2>1. PICK nxt : nxt = Nexts
    OBVIOUS
  <2>2. Nexts' = nxt /\ \A s \in Segments : nxt[s] \in Segments \cup {NULL}
    BY <1>0, <2>1 DEF Nexts, SegHeader
  <2>3. ListAt(home2, pos2, Free, free_segments)'
    <3>1. PICK p : p = Free
      OBVIOUS
    <3>2. PICK first \in Segments \cup {NULL} : first = free_segments
      BY <1>0
    <3>3. ListIn(home, pos, nxt, p, first)
      BY <1>1, <2>1, <3>1, <3>2 DEF Laid, Lists, ListAt
    <3>4. nxt[h] = first
      BY <1>0, <1>1, <1>2, <2>1, <3>2 DEF Laid, Walked, Nexts
    <3>5. PushesIn(home, pos, pos2, nxt, nxt, p, first, h)
      <4>1. home[h] # p
        BY <1>0, <1>6, <3>1, PlacesDiffer
      <4>2. \A s \in Segments : home[s] = p => pos2[s] = pos[s] + 1
        BY <1>10, <3>1, <4>1
      <4> QED BY <1>10, <3>4, <4>1, <4>2 DEF PushesIn
    <3>6. home2 = Moved(home, h, p)
      BY <1>7, <3>1
    <3>7. ListIn(home2, pos2, nxt, p, h)
      BY ONLY <2>2, <3>3, <3>5, <3>6, home \in [Segments -> Places], pos \in [Segments -> Nat],
              pos2 \in [Segments -> Nat], first \in Segments \cup {NULL}, h \in Segments, ListPush
    <3> QED BY <1>0, <1>2, <2>2, <3>1, <3>7 DEF ListAt
  <2>4. ASSUME NEW v \in Workers PROVE ListAt(home2, pos2, Chain(v), ia[v].oldest)'
    <3>1. ListIn(home, pos, nxt, Chain(v), ia[v].oldest) /\ ia[v].oldest \in Segments \cup {NULL}
      BY <1>0, <1>1, <2>1 DEF Laid, Lists, ListAt, Allocator
    <3>2. Chain(v) # Free /\ Chain(v) # Given
      BY PlacesDiffer
    <3>3. \A s \in Segments : home[s] = Chain(v) <=> home2[s] = Chain(v)
      BY <1>9, <3>2
    <3>4. \A s \in Segments : home[s] = Chain(v) =>
              nxt[s] \in Segments \cup {NULL} /\ nxt[s] = nxt[s] /\ pos2[s] = pos[s]
      BY <1>6, <1>10, <2>2, <3>2
    <3>5. ListIn(home2, pos2, nxt, Chain(v), ia[v].oldest)
      BY <3>1, <3>3, <3>4, ListStays
    <3> QED BY <1>0, <2>2, <3>5 DEF ListAt
  <2> QED BY <2>3, <2>4 DEF Lists
<1>12. GivenBack' = NULL /\ \A v \in Workers : InHand(v)' = InHand(v)
  BY <1>0, <1>3 DEF InHand, GivenBack
<1>13. Held(home2)'
  <2>0. Held(home)
    BY <1>1 DEF Laid
  <2>1. \A s \in Segments : s > seg_alloced <=> home2[s] = Unused
    BY <1>0, <1>9, <2>0, PlacesDiffer DEF Held
  <2>2. ASSUME NEW v \in Workers PROVE home2[ia[v].cur] = Chain(v) /\ seg[ia[v].cur].next = NULL
    <3>1. ia[v].cur \in Segments /\ home[ia[v].cur] = Chain(v) /\ seg[ia[v].cur].next = NULL
      BY <1>0, <2>0 DEF Allocator, Held
    <3> QED BY <1>9, <3>1, PlacesDiffer
  <2>3. ASSUME NEW v \in Workers, NEW s \in Segments
        PROVE  (home2[s] = Reserve(v) <=> s = ia[v].reserved) /\ (home2[s] = Hand(v) <=> s = InHand(v))
    <3>1. (home[s] = Reserve(v) <=> s = ia[v].reserved) /\ (home[s] = Hand(v) <=> s = InHand(v))
      BY <2>0 DEF Held
    <3>2. Reserve(v) # Free /\ Reserve(v) # Given /\ Hand(v) # Free /\ Hand(v) # Given
      BY PlacesDiffer
    <3> QED BY <1>9, <3>1, <3>2
  <2>4. \A s \in Segments : home2[s] # Given /\ s # NULL
    BY <1>0, <1>6, <1>8, PlacesDiffer, NoSegment
  <2> QED BY <1>0, <1>12, <2>1, <2>2, <2>3, <2>4 DEF Held
<1>14. Walked(home2)'
  <2>1. /\ mt.next # NULL /\ home[mt.next] = Chain(mt.w)
        /\ mt.prev = NULL => ia[mt.w].oldest = mt.next
        /\ mt.prev # NULL => home[mt.prev] = Chain(mt.w) /\ seg[mt.prev].next = mt.next
    BY <1>0, <1>1, <1>2, NoSegment DEF Laid, Walked
  <2>2. mt.next \in Segments /\ (mt.prev # NULL => mt.prev \in Segments)
    BY <1>0, <2>1 DEF Walker
  <2>3. home2[mt.next] = Chain(mt.w) /\ (mt.prev # NULL => home2[mt.prev] = Chain(mt.w))
    <3>1. Chain(mt.w) # Free /\ Chain(mt.w) # Given
      BY <1>0, PlacesDiffer
    <3> QED BY <1>9, <2>1, <2>2, <3>1
  <2> QED BY <1>0, <1>3, <1>12, <2>1, <2>3 DEF Walked
<1>15. Vacant(home2)'
  <2>0. Vacant(home)
    BY <1>1 DEF Laid
  <2>1. ASSUME NEW s \in Segments
        PROVE  /\ home2[s] \in {Free, Unused} => seg[s].offset = 0
               /\ home2[s] # Given
               /\ \A v \in Workers :
                    /\ home2[s] \in {Reserve(v), Hand(v)} => seg[s].offset = 0 /\ seg[s].freed = 0
                    /\ home2[s] = Chain(v) /\ seg[s].offset = 0 => seg[s].freed = 0
    <3>1. CASE s = h
      <4>1. seg[h].offset = 0
        BY <1>0, <1>6, <2>0 DEF Vacant
      <4> QED BY <1>0, <1>8, <3>1, <4>1, PlacesDiffer
    <3>2. CASE s # h
      <4>1. home2[s] = home[s] /\ home[s] # Given
        BY <1>6, <1>8, <3>2
      <4> QED BY <2>0, <4>1 DEF Vacant
    <3> QED BY <3>1, <3>2
  <2> QED BY <1>0, <1>3, <2>1 DEF Vacant
<1>16. LaidOut'
  <2>1. Laid(home2, pos2)'
    BY <1>11, <1>13, <1>14, <1>15 DEF Laid
  <2> QED BY <1>8, <2>1, Zenon DEF LaidOut
<1>17. MemOK'
  BY <1>0, MemStays
<1>18. \A v \in Workers : segLock' = v <=> segLock = v
  BY <1>0, NamesAssumption
<1> QED BY <1>0, <1>4, <1>5, <1>16, <1>17, <1>18, MaintFrame

\* What keeps its place through a scan.
LEMMA ScanFrame ==
    ASSUME IInv, mt.pc = "scan", mt' \in Walker, mt'.pc \in {"scan", "astray"}, mt'.w = mt.w,
           UNCHANGED <<free_segments, seg_alloced, segLock, table, th, received, newest>>,
           mem' \in [Segments -> SUBSET Header], seg' \in [Segments -> SegHeader],
           ia' \in [Workers -> Allocator], cq' \in Queues, harm' \subseteq {"lock", "scan"},
           \A v \in Workers : /\ ia'[v].oldest = ia[v].oldest /\ ia'[v].cur = ia[v].cur
                              /\ ia'[v].reserved = ia[v].reserved /\ ia'[v].cleaning = ia[v].cleaning,
           \A s \in Segments : seg'[s].next = seg[s].next /\ StillHolds(s),
           MemOK', Items'
    PROVE  IInv'
<1>0. TypeOK /\ PcOfMaint /\ PcOK /\ mt.w \in Workers
  BY DEF IInv, PcOK, PcOfMaint
<1>1. TypeOK'
  BY <1>0 DEF TypeOK, SegHeader, Queues
<1>2. PcOK'
  <2>1. PcOfMaint'
    BY <1>0 DEF PcOfMaint
  <2>2. ASSUME NEW v \in Workers PROVE PcOf(v)'
    BY <1>0 DEF PcOK, PcOf, Making, Reserving
  <2> QED BY <2>1, <2>2 DEF PcOK
<1>3. LaidOut'
  <2>1. PICK home \in [Segments -> Places], pos \in [Segments -> Nat] : Laid(home, pos)
    BY DEF IInv, LaidOut
  <2>2. GivenBack = NULL /\ GivenBack' = NULL /\ \A v \in Workers : InHand(v)' = InHand(v)
    BY DEF GivenBack, InHand
  <2>3. Lists(home, pos)' /\ Held(home)'
    BY <1>0, <2>1, <2>2, LaidStays
  <2>4. Walked(home)'
    BY DEF Walked
  <2>5. Vacant(home)'
    <3>1. Vacant(home)
      BY <2>1 DEF Laid
    <3> QED BY <1>0, <3>1, VacantStays
  <2>6. Laid(home, pos)'
    BY <2>3, <2>4, <2>5 DEF Laid
  <2> QED BY <2>6, Zenon DEF LaidOut
<1> QED BY <1>1, <1>2, <1>3 DEF IInv

\* A live item is queued, and has one reference more.
LEMMA QueueItem ==
    ASSUME IInv, NEW w \in Workers, NEW r \in Refs \ {NoRef}, CountIn(mem, r) > 0,
           Recount(r, NoRef), cq' = [cq EXCEPT ![w] = Append(@, r)],
           UNCHANGED <<table, th, newest>>
    PROVE  /\ Items' /\ MemOK' /\ cq' \in Queues
           /\ mem' \in [Segments -> SUBSET Header] /\ seg' \in [Segments -> SegHeader]
           /\ \A s \in Segments : seg'[s].next = seg[s].next /\ StillHolds(s)
<1>0. TypeOK /\ MemOK /\ table \in Tables /\ cq \in Queues /\ CountsOK /\ NoRef \in Refs
  BY IdleIs DEF IInv, Items, TypeOK, Tables, Queues
<1>1. /\ MemOK' /\ mem' \in [Segments -> SUBSET Header] /\ seg' \in [Segments -> SegHeader]
      /\ \A s \in Segments : seg'[s].offset = seg[s].offset /\ seg'[s].next = seg[s].next
      /\ \A s \in Segments : StillHolds(s)
      /\ \A q \in Refs \ {NoRef} :
            /\ CountIn(mem', q) = IF q = r THEN CountIn(mem, q) + 1
                                  ELSE IF q = NoRef THEN CountIn(mem, q) - 1 ELSE CountIn(mem, q)
            /\ CountIn(mem', q) > 0 => CountIn(mem, q) > 0 /\ SameItem(mem, mem', q)
  BY <1>0, RecountIs
<1>2. PICK q2 : q2 = cq'
  OBVIOUS
<1>3. PICK q1 \in Queues : q1 = cq
  BY <1>0
<1>4. q2 = LineUp(q1, w, r)
  BY <1>2, <1>3 DEF LineUp
<1>5. ASSUME NEW q PROVE q2 \in Queues
                         /\ Cardinality(InQueues(q2, q)) = Cardinality(InQueues(q1, q)) + One(r, q)
  <2>1. r \in Refs
    OBVIOUS
  <2> QED BY ONLY <1>4, <2>1, q1 \in Queues, w \in Workers, AppendCount
<1>6. cq' \in Queues
  BY <1>2, <1>5
<1>7. ASSUME NEW q \in Refs \ {NoRef}
      PROVE  CountIn(mem', q) = UsesIn(table', cq', th', q)
  <2>1. CountIn(mem, q) = UsesIn(table, cq, th, q)
    BY <1>0, UsesAre DEF CountsOK
  <2>2. UsesIn(table, cq, th, q) = TableCount(table, q) + Cardinality(InQueues(cq, q)) + ThreadCount(th, q)
    BY <1>0, UsesSum
  <2>3. UsesIn(table, cq', th, q) = TableCount(table, q) + Cardinality(InQueues(cq', q)) + ThreadCount(th, q)
    BY <1>0, <1>6, UsesSum
  <2>4. Cardinality(InQueues(cq', q)) = Cardinality(InQueues(cq, q)) + One(r, q)
    BY <1>2, <1>3, <1>5
  <2>5. PICK a \in Nat : a = TableCount(table, q)
    BY <1>0, UsesTyped
  <2>6. PICK b \in Nat : b = ThreadCount(th, q)
    BY <1>0, UsesTyped
  <2>7. PICK c \in Nat : c = Cardinality(InQueues(cq, q))
    BY <1>0, UsesTyped
  <2>8. CountIn(mem, q) = a + c + b
    BY <2>1, <2>2, <2>5, <2>6, <2>7
  <2>9. CountIn(mem', q) = a + c + b + One(r, q)
    BY <1>1, <2>8 DEF One
  <2>10. UsesIn(table, cq', th, q) = a + (c + One(r, q)) + b
    BY <2>3, <2>4, <2>5, <2>6, <2>7
  <2>11. One(r, q) \in Nat
    BY DEF One
  <2> QED BY <2>9, <2>10, <2>11
<1>8. Items'
  <2>1. Kept(w)
    <3> SUFFICES ASSUME NEW q \in Refs \ {NoRef}, Elsewhere(w, q) PROVE SameItem(mem, mem', q)
      BY DEF Kept
    <3>1. UsedIn(table', cq', th', q)
      BY DEF Elsewhere, Placed, UsedIn
    <3>2. table' \in Tables
      BY <1>0
    <3>3. CountIn(mem', q) > 0
      BY <1>6, <1>7, <3>1, <3>2, UsedCounts
    <3> QED BY <1>1, <3>3
  <2>2. CopyOf(w) /\ PcOf(w) /\ NewOK /\ th[w] \in Thread
    BY <1>0 DEF IInv, Items, CopyOK, PcOK, TypeOK
  <2>3. CopyOf(w)'
    <3>1. ASSUME NEW q \in Refs \ {NoRef}, th[w].it = q \/ th[w].nit = q PROVE SameItem(mem, mem', q)
      <4>1. UsedIn(table', cq', th', q)
        BY <3>1 DEF UsedIn
      <4>2. table' \in Tables
        BY <1>0
      <4>3. CountIn(mem', q) > 0
        BY <1>6, <1>7, <4>1, <4>2, UsedCounts
      <4> QED BY <1>1, <4>3
    <3>2. th[w].it \in Refs /\ th[w].nit \in Refs
      BY <2>2 DEF Thread
    <3>3. Making(w) /\ th[w].cleanup => SameItem(mem, mem', th[w].it)
      BY <2>2, <3>1, <3>2 DEF PcOf
    <3>4. th[w].pc = "put" => SameItem(mem, mem', th[w].nit)
      BY <2>2, <3>1, <3>2 DEF PcOf
    <3>5. Making(w)' <=> Making(w)
      BY DEF Making
    <3> QED BY <2>2, <3>3, <3>4, <3>5 DEF CopyOf, SameItem
  <2>4. th'[w].pc = "put" => ~Placed(table, th'[w].nit) /\ \A v \in Workers \ {w} : th[v].nit # th'[w].nit
    BY <2>2 DEF NewOK
  <2> QED BY <1>7, <2>1, <2>3, <2>4, ItemsKept
<1> QED BY <1>1, <1>6, <1>8

LEMMA ScanItemStep ==
    ASSUME IInv, ScanItem
    PROVE  IInv'
<1>0. /\ TypeOK /\ PcOfMaint /\ MemOK /\ mt.pc = "scan" /\ mt.w \in Workers /\ mt \in Walker
      /\ UNCHANGED <<free_segments, seg_alloced, segLock, table, th, received, newest>>
      /\ seg \in [Segments -> SegHeader] /\ ia \in [Workers -> Allocator]
      /\ mem \in [Segments -> SUBSET Header] /\ cq \in Queues /\ harm \subseteq {"lock", "scan"}
      /\ ia[mt.w].cleaning # NULL
  BY SegTyped DEF IInv, PcOK, PcOfMaint, ScanItem, MAt, TypeOK, pool, Queues
<1> SUFFICES ASSUME NEW w \in Workers, w = mt.w, NEW s \in Segments, s = ia[w].cleaning,
                    NEW o \in 0 .. SegSize - 1, o = ia[w].clean_offset
             PROVE  IInv'
  <2>1. ia[mt.w].cleaning \in Segments /\ ia[mt.w].clean_offset \in 0 .. SegSize
    BY <1>0 DEF Allocator
  <2>2. ia[mt.w].clean_offset < SegSize
    BY DEF ScanItem
  <2>3. ia[mt.w].clean_offset \in 0 .. SegSize - 1
    BY <2>1, <2>2, Sizes
  <2> QED BY <1>0, <2>1, <2>3
<1> DEFINE here == {y \in mem[s] : y.at = o}
           x == CHOOSE y \in here : TRUE
           tooShort == SegSize - o < HeaderSize
           lost == ~tooShort /\ here = {}
           queued == ~tooShort /\ ~lost /\ Queued(x)
<1>1. /\ mt' = IF lost THEN [mt EXCEPT !.pc = "astray"] ELSE mt
      /\ ia' = IF lost THEN ia
               ELSE [ia EXCEPT ![w].clean_offset = IF tooShort THEN SegSize ELSE ia[w].clean_offset + x.size]
      /\ IF queued
         THEN Recount(<<s, o>>, NoRef) /\ cq' = [cq EXCEPT ![w] = Append(@, <<s, o>>)]
         ELSE UNCHANGED <<seg, mem, cq>>
      /\ harm' = harm \/ harm' = harm \cup {"scan"}
  BY DEF ScanItem
<1>2. ~tooShort /\ ~lost => x \in Header /\ x \in mem[s] /\ x.at = o
  BY <1>0
<1>3. mt' \in Walker /\ mt'.pc \in {"scan", "astray"} /\ mt'.w = w
  <2>1. CASE lost
    BY <1>0, <1>1, <2>1 DEF Walker
  <2>2. CASE ~lost
    BY <1>0, <1>1, <2>2
  <2> QED BY <2>1, <2>2
<1>4. harm' \subseteq {"lock", "scan"}
  BY <1>0, <1>1
<1>5. /\ ia' \in [Workers -> Allocator]
      /\ \A v \in Workers : /\ ia'[v].oldest = ia[v].oldest /\ ia'[v].cur = ia[v].cur
                            /\ ia'[v].reserved = ia[v].reserved /\ ia'[v].cleaning = ia[v].cleaning
  <2>1. CASE lost
    BY <1>0, <1>1, <2>1
  <2>2. CASE ~lost
    <3>1. PICK o2 \in 0 .. SegSize : o2 = IF tooShort THEN SegSize ELSE ia[w].clean_offset + x.size
      <4>1. SegSize \in 0 .. SegSize
        BY Sizes
      <4>2. ~tooShort => ia[w].clean_offset + x.size \in 0 .. SegSize
        <5>1. SUFFICES ASSUME ~tooShort PROVE o + x.size \in 0 .. SegSize
          OBVIOUS
        <5>2. x.at + x.size <= SegSize /\ x.at = o /\ x.size \in 1 .. SegSize
          BY <1>0, <1>2, <2>2, <5>1 DEF MemOK, Tidy, Header
        <5> HIDE DEF x
        <5> QED BY <5>2, Sizes
      <4> HIDE DEF x, tooShort
      <4> QED BY <4>1, <4>2
    <3>2. PICK a \in Allocator : a = ia[w]
      BY <1>0
    <3>3. PICK b : b = [a EXCEPT !.clean_offset = o2]
      OBVIOUS
    <3>4. ia' = [ia EXCEPT ![w] = b]
      BY <1>1, <2>2, <3>1, <3>2, <3>3
    <3>5. b \in Allocator /\ b.oldest = a.oldest /\ b.cur = a.cur /\ b.reserved = a.reserved
          /\ b.cleaning = a.cleaning
      BY <3>1, <3>2, <3>3 DEF Allocator
    <3> QED BY <1>0, <3>2, <3>4, <3>5
  <2> QED BY <2>1, <2>2
<1>6. /\ Items' /\ MemOK' /\ cq' \in Queues
      /\ mem' \in [Segments -> SUBSET Header] /\ seg' \in [Segments -> SegHeader]
      /\ \A u \in Segments : seg'[u].next = seg[u].next /\ StillHolds(u)
  <2>1. CASE queued
    <3>1. PICK r : r = <<s, o>>
      OBVIOUS
    <3>2. r \in Refs \ {NoRef}
      BY <3>1, NoSegment DEF Refs, NoRef
    <3>3. CountIn(mem, r) > 0
      <4>1. x.refs > 0 /\ x \in mem[s] /\ x.at = o
        BY <1>2, <2>1 DEF Queued
      <4>2. Distinct(mem)
        BY <1>0 DEF Distinct, MemOK, Tidy
      <4> HIDE DEF x
      <4>3. CountIn(mem, <<s, x.at>>) = x.refs
        BY <4>1, <4>2, ItemIs
      <4> QED BY <3>1, <4>1, <4>3
    <3>4. Recount(r, NoRef) /\ cq' = [cq EXCEPT ![w] = Append(@, r)]
      BY <1>1, <2>1, <3>1
    <3> QED BY <1>0, <3>2, <3>3, <3>4, QueueItem
  <2>2. CASE ~queued
    <3>1. UNCHANGED <<seg, mem, cq>>
      BY <1>1, <2>2
    <3>2. Items
      BY DEF IInv
    <3>3. CopyOf(w)'
      BY <1>0, <3>1, <3>2 DEF Items, CopyOK, CopyOf, Making
    <3>4. Items'
      BY <1>0, <3>1, <3>2, <3>3, ItemsStay
    <3>5. MemOK'
      BY <1>0, <3>1, MemStays
    <3>6. \A u \in Segments : StillHolds(u)
      BY <3>1 DEF StillHolds
    <3> QED BY <1>0, <3>1, <3>4, <3>5, <3>6
  <2> QED BY <2>1, <2>2
<1> HIDE DEF here, x, tooShort, lost, queued
<1> QED BY <1>0, <1>3, <1>4, <1>5, <1>6, ScanFrame

-----------------------------------------------------------------------------
(* The first state. *)

LEMMA NumberIs ==
    LET C == Cardinality(Workers)
    IN  /\ C \in Nat /\ Number \in [Workers -> 1 .. C]
        /\ \A v, w \in Workers : Number[v] = Number[w] => v = w
        /\ \A n \in 1 .. C : \E w \in Workers : Number[w] = n
<1>0. PICK C : C = Cardinality(Workers)
  OBVIOUS
<1>1. C \in Nat /\ IsFiniteSet(Workers)
  BY <1>0, Sizes, FS_CardinalityType
<1>2. PICK f \in Bijection(Workers, 1 .. C) : TRUE
  <2>1. ExistsBijection(1 .. C, Workers)
    BY <1>0, <1>1, FS_CardinalityType
  <2>2. ExistsBijection(Workers, 1 .. C)
    BY <2>1, Fun_ExistsBijSymmetric
  <2> QED BY <2>2 DEF ExistsBijection
<1>3. f \in [Workers -> 1 .. C] /\ \A v, w \in Workers : f[v] = f[w] => v = w
  BY Fun_BijectionProperties
<1>4. Number \in [Workers -> 1 .. C] /\ \A v, w \in Workers : Number[v] = Number[w] => v = w
  BY <1>0, <1>3 DEF Number
<1>5. \A n \in 1 .. C : \E w \in Workers : Number[w] = n
  <2>1. PICK g : g = Number
    OBVIOUS
  <2>2. g \in Injection(Workers, 1 .. C)
    BY <1>4, <2>1 DEF Injection, IsInjective
  <2>3. IsFiniteSet(1 .. C) /\ Cardinality(1 .. C) = C
    BY <1>1, FS_Interval
  <2>4. g \in Surjection(Workers, 1 .. C)
    BY <1>0, <2>2, <2>3, FS_Injection
  <2> QED BY <2>1, <2>4 DEF Surjection
<1> QED BY <1>0, <1>1, <1>4, <1>5

LEMMA InitLaidOut ==
    ASSUME Init
    PROVE  LaidOut
<1>0. PICK C \in Nat : C = Cardinality(Workers)
  BY NumberIs
<1>1. PICK N \in [Workers -> 1 .. C] : N = Number
  BY <1>0, NumberIs
<1>2. /\ \A v, w \in Workers : N[v] = N[w] => v = w
      /\ \A n \in 1 .. C : \E w \in Workers : N[w] = n
  BY <1>0, <1>1, NumberIs
<1>3. /\ \A w \in Workers : ia[w].oldest = 2 * N[w] - 1 /\ ia[w].cur = 2 * N[w] - 1
                            /\ ia[w].reserved = 2 * N[w]
      /\ seg_alloced = 2 * C /\ free_segments = NULL /\ mt = Rest
      /\ \A s \in Segments : /\ seg[s].next = NULL /\ seg[s].offset = 0 /\ seg[s].freed = 0
                             /\ mem[s] = {}
      /\ \A w \in Workers : th[w] = Idle
  BY <1>0, <1>1 DEF Init, Allocators, EmptyPool
<1>4. \A w \in Workers : 2 * N[w] - 1 \in Segments /\ 2 * N[w] \in Segments
  BY <1>0, <1>1, BoundsAssumption DEF Segments
<1> DEFINE first(s) == {w \in Workers : s = 2 * N[w] - 1}
           second(s) == {w \in Workers : s = 2 * N[w]}
           home0 == [s \in Segments |-> IF first(s) # {} THEN Chain(CHOOSE w \in first(s) : TRUE)
                                        ELSE IF second(s) # {} THEN Reserve(CHOOSE w \in second(s) : TRUE)
                                        ELSE Unused]
<1>5. PICK home \in [Segments -> Places] : home = home0
  <2>1. ASSUME NEW s \in Segments
        PROVE  (IF first(s) # {} THEN Chain(CHOOSE w \in first(s) : TRUE)
                ELSE IF second(s) # {} THEN Reserve(CHOOSE w \in second(s) : TRUE)
                ELSE Unused) \in Places
    <3>1. PICK F \in SUBSET Workers : F = first(s)
      OBVIOUS
    <3>2. PICK G \in SUBSET Workers : G = second(s)
      OBVIOUS
    <3>3. Unused \in Places /\ \A w \in Workers : Chain(w) \in Places /\ Reserve(w) \in Places
      BY DEF Places
    <3>4. F # {} => Chain(CHOOSE w \in F : TRUE) \in Places
      BY <3>3
    <3>5. G # {} => Reserve(CHOOSE w \in G : TRUE) \in Places
      BY <3>3
    <3> HIDE DEF first, second
    <3> QED BY <3>1, <3>2, <3>3, <3>4, <3>5
  <2> HIDE DEF first, second
  <2> QED BY <2>1
<1>6. ASSUME NEW s \in Segments
      PROVE  /\ \A w \in Workers : home[s] = Chain(w) <=> s = 2 * N[w] - 1
             /\ \A w \in Workers : home[s] = Reserve(w) <=> s = 2 * N[w]
             /\ home[s] = Unused <=> s > 2 * C
             /\ home[s] # Free /\ home[s] # Given /\ \A w \in Workers : home[s] # Hand(w)
  <2>0. s \in Nat /\ 1 <= s
    BY DEF Segments
  <2>1. CASE \E v \in Workers : s = 2 * N[v] - 1
    <3>1. PICK v \in Workers : s = 2 * N[v] - 1
      BY <2>1
    <3>2. first(s) = {v}
      BY <1>2, <3>1
    <3>3. home[s] = Chain(v)
      BY <1>5, <3>2
    <3>4. \A w \in Workers : s = 2 * N[w] - 1 <=> w = v
      BY <1>2, <3>1
    <3>5. \A w \in Workers : s # 2 * N[w]
      BY <3>1
    <3>6. ~(s > 2 * C)
      BY <3>1
    <3> QED BY <3>3, <3>4, <3>5, <3>6, PlacesDiffer
  <2>2. CASE ~(\E v \in Workers : s = 2 * N[v] - 1) /\ \E v \in Workers : s = 2 * N[v]
    <3>1. PICK v \in Workers : s = 2 * N[v]
      BY <2>2
    <3>2. first(s) = {}
      BY <2>2
    <3>3. \A w \in Workers : s = 2 * N[w] => w = v
      BY <1>2, <3>1
    <3>4. second(s) = {v}
      BY <3>1, <3>3
    <3>5. home[s] = Reserve(v)
      BY <1>5, <3>2, <3>4
    <3>6. \A w \in Workers : s = 2 * N[w] <=> w = v
      BY <3>1, <3>3
    <3>7. ~(s > 2 * C)
      BY <3>1
    <3> QED BY <2>2, <3>5, <3>6, <3>7, PlacesDiffer
  <2>3. CASE ~(\E v \in Workers : s = 2 * N[v] - 1) /\ ~(\E v \in Workers : s = 2 * N[v])
    <3>1. first(s) = {} /\ second(s) = {}
      BY <2>3
    <3>2. home[s] = Unused
      BY <1>5, <3>1
    <3>3. s > 2 * C
      <4>1. SUFFICES ASSUME s <= 2 * C PROVE FALSE
        BY <2>0
      <4>2. PICK n \in 1 .. C : s = 2 * n - 1 \/ s = 2 * n
        <5>1. PICK m \in Nat : s = 2 * m \/ s = 2 * m + 1
          <6>1. s \div 2 \in Nat /\ s % 2 \in 0 .. 1 /\ s = (2 * (s \div 2)) + (s % 2)
            BY <2>0
          <6> QED BY <6>1
        <5>2. CASE s = 2 * m
          BY <2>0, <4>1, <5>2
        <5>3. CASE s = 2 * m + 1
          <6>1. m + 1 \in 1 .. C /\ s = 2 * (m + 1) - 1
            BY <4>1, <5>3
          <6> QED BY <6>1
        <5> QED BY <5>1, <5>2, <5>3
      <4> QED BY <1>2, <2>3, <4>2
    <3>4. Unused # Free /\ Unused # Given
      BY DEF Unused, Free, Given
    <3> QED BY <2>3, <3>2, <3>3, <3>4, PlacesDiffer
  <2> QED BY <2>1, <2>2, <2>3
<1> HIDE DEF home0, first, second
<1>7. PICK pos \in [Segments -> Nat] : \A s \in Segments : pos[s] = 0
  <2>1. [s \in Segments |-> 0] \in [Segments -> Nat]
    OBVIOUS
  <2> QED BY <2>1
<1>8. \A s \in Segments : Nexts[s] = NULL
  BY <1>3 DEF Nexts
<1>9. Lists(home, pos)
  <2>1. ListAt(home, pos, Free, free_segments)
    BY <1>3, <1>6 DEF ListAt, ListIn
  <2>2. ASSUME NEW w \in Workers PROVE ListAt(home, pos, Chain(w), ia[w].oldest)
    <3>1. PICK o \in Segments : o = ia[w].oldest /\ o = 2 * N[w] - 1
      BY <1>3, <1>4
    <3>2. \A s \in Segments : home[s] = Chain(w) <=> s = o
      BY <1>6, <3>1
    <3>3. o # NULL
      BY NoSegment
    <3> QED BY <1>7, <1>8, <3>1, <3>2, <3>3 DEF ListAt, ListIn
  <2> QED BY <2>1, <2>2 DEF Lists
<1>10. GivenBack = NULL /\ \A w \in Workers : InHand(w) = NULL
  BY <1>3, RestIs, IdleIs DEF GivenBack, InHand
<1>11. Held(home)
  <2>1. \A s \in Segments : s > seg_alloced <=> home[s] = Unused
    BY <1>3, <1>6
  <2>2. \A w \in Workers : home[ia[w].cur] = Chain(w) /\ seg[ia[w].cur].next = NULL
    BY <1>3, <1>4, <1>6
  <2>3. \A w \in Workers : \A s \in Segments : home[s] = Reserve(w) <=> s = ia[w].reserved
    BY <1>3, <1>6
  <2>4. \A w \in Workers : \A s \in Segments : home[s] = Hand(w) <=> s = InHand(w)
    BY <1>6, <1>10, NoSegment
  <2>5. \A s \in Segments : home[s] = Given <=> s = GivenBack
    BY <1>6, <1>10, NoSegment
  <2> QED BY <2>1, <2>2, <2>3, <2>4, <2>5 DEF Held
<1>12. Walked(home)
  BY <1>3, RestIs DEF Walked
<1>13. Vacant(home)
  BY <1>3, <1>6 DEF Vacant, LiveIn
<1>14. Laid(home, pos)
  BY <1>9, <1>11, <1>12, <1>13 DEF Laid
<1> QED BY <1>14, Zenon DEF LaidOut

LEMMA InitTyped ==
    ASSUME Init
    PROVE  TypeOK
<1>0. PICK C \in Nat : C = Cardinality(Workers) /\ 2 * C <= SegMaxNum
  BY NumberIs, BoundsAssumption
<1>1. PICK N \in [Workers -> 1 .. C] : N = Number
  BY <1>0, NumberIs
<1>2. ASSUME NEW w \in Workers
      PROVE  /\ [cur |-> 2 * Number[w] - 1, oldest |-> 2 * Number[w] - 1, reserved |-> 2 * Number[w],
                 cleaning |-> NULL, clean_offset |-> 0] \in Allocator
  <2>1. PICK a \in Segments : a = 2 * N[w] - 1
    BY <1>0, BoundsAssumption DEF Segments
  <2>2. PICK b \in Segments : b = 2 * N[w]
    BY <1>0, BoundsAssumption DEF Segments
  <2>3. 0 \in 0 .. SegSize /\ NULL \in Segments \cup {NULL}
    BY Sizes
  <2> QED BY <1>1, <2>1, <2>2, <2>3 DEF Allocator
<1>3. ia \in [Workers -> Allocator]
  BY <1>2 DEF Init, Allocators
<1>4. seg \in [Segments -> SegHeader]
  <2>1. 0 \in 0 .. SegSize
    BY Sizes
  <2> QED BY <2>1 DEF Init, EmptyPool, SegHeader
<1>5. table \in Tables
  <2>1. << >> \in Seq(Refs) /\ [i \in Slots |-> NoRef] \in [Slots -> Refs]
    BY IdleIs
  <2> QED BY <2>1 DEF Init, EmptyTable, Tables
<1>6. cq \in [Workers -> Seq(Refs)] /\ th \in [Workers -> Thread] /\ mt \in Walker
  BY IdleIs, RestIs DEF Init, Allocators
<1>7. seg_alloced \in 0 .. SegMaxNum /\ free_segments \in Segments \cup {NULL}
      /\ segLock \in Workers \cup {Maint, Nobody}
  BY <1>0, BoundsAssumption DEF Init, Allocators, EmptyPool
<1>8. newest \in [Keys -> Values] /\ received \in [Workers -> Nat] /\ harm \subseteq {"lock", "scan"}
      /\ \A w \in Workers : received[w] <= MaxRequests[w]
  BY IdleIs, BoundsAssumption DEF Init
<1>9. mem \in [Segments -> SUBSET Header]
  BY DEF Init, EmptyPool
<1> QED BY <1>3, <1>4, <1>5, <1>6, <1>7, <1>8, <1>9 DEF TypeOK, SegHeader, Tables

LEMMA InitOK == Init => IInv
<1> SUFFICES ASSUME Init PROVE IInv
  OBVIOUS
<1>1. TypeOK /\ LaidOut
  BY InitTyped, InitLaidOut
<1>2. /\ \A w \in Workers : th[w] = Idle /\ cq[w] = << >>
      /\ mt = Rest /\ segLock = Nobody
      /\ \A s \in Segments : mem[s] = {} /\ seg[s].offset = 0
      /\ \A b \in Buckets : table[b].over = << >> /\ \A i \in Slots : table[b].slots[i] = NoRef
      /\ \A k \in Keys : newest[k] = NoValue
  BY DEF Init, EmptyPool, EmptyTable, Allocators
<1>3. PcOK
  <2>1. PcOfMaint
    BY <1>2, RestIs, NamesAssumption DEF PcOfMaint
  <2>2. ASSUME NEW w \in Workers PROVE PcOf(w)
    BY <1>2, IdleIs, NamesAssumption DEF PcOf, Making, Reserving, Allocating
  <2> QED BY <2>1, <2>2 DEF PcOK
<1>4. MemOK
  <2>1. \A f : Tidy({}, 0, f)
    BY DEF Tidy, LiveIn, Apart
  <2> QED BY <1>2, <2>1 DEF MemOK
<1>5. CountsOK
  <2> SUFFICES ASSUME NEW r \in Refs \ {NoRef} PROVE CountIn(mem, r) = Uses(r)
    BY DEF CountsOK
  <2>1. r[1] \in Segments
    BY DEF Refs
  <2>2. CountIn(mem, r) = 0
    BY <1>2, <2>1 DEF CountIn
  <2>3. ~UsedIn(table, cq, th, r)
    BY <1>2, IdleIs DEF UsedIn
  <2>4. table \in Tables /\ cq \in Queues
    BY <1>1 DEF TypeOK, Tables, Queues
  <2>5. UsesIn(table, cq, th, r) \in Nat /\ ~(UsesIn(table, cq, th, r) > 0)
    BY <2>3, <2>4, UsesTyped, UsedCounts
  <2> QED BY <2>2, <2>5, UsesAre
<1>6. NewOK /\ CopyOK
  BY <1>2, IdleIs DEF NewOK, CopyOK, CopyOf, Making, Allocating
<1>7. Newest
  BY <1>2 DEF Newest, TableOK, BucketOK, InBucket
<1> QED BY <1>1, <1>3, <1>4, <1>5, <1>6, <1>7 DEF IInv, Items

-----------------------------------------------------------------------------
(* The invariant. *)

LEMMA StutterStep ==
    ASSUME IInv, UNCHANGED vars
    PROVE  IInv'
<1>0. UNCHANGED <<seg, mem, free_segments, seg_alloced, segLock, table, ia, cq, th, mt, received, newest, harm>>
  BY DEF vars, pool
<1>1. TypeOK'
  BY <1>0 DEF IInv, TypeOK
<1>2. PcOK'
  BY <1>0 DEF IInv, PcOK, PcOfMaint, PcOf, Making, Reserving
<1>3. LaidOut'
  <2>1. PICK home \in [Segments -> Places], pos \in [Segments -> Nat] : Laid(home, pos)
    BY DEF IInv, LaidOut
  <2>2. Lists(home, pos)'
    BY <1>0, <2>1 DEF Laid, Lists, ListAt, Nexts
  <2>3. Held(home)' /\ Walked(home)' /\ Vacant(home)'
    BY <1>0, <2>1 DEF Laid, Held, Walked, Vacant, InHand, GivenBack
  <2>4. Laid(home, pos)'
    BY <2>2, <2>3 DEF Laid
  <2> QED BY <2>4, Zenon DEF LaidOut
<1>4. MemOK'
  BY <1>0 DEF IInv, MemOK
<1>5. CountsOK'
  BY <1>0, UsesAre, UsesAreNext DEF IInv, Items, CountsOK
<1>6. NewOK' /\ CopyOK' /\ Newest'
  BY <1>0 DEF IInv, Items, NewOK, CopyOK, CopyOf, Making, Newest
<1> QED BY <1>1, <1>2, <1>3, <1>4, <1>5, <1>6 DEF IInv, Items

LEMMA NextOK ==
    ASSUME IInv, [Next]_vars, Calm'
    PROVE  IInv'
<1>1. CASE UNCHANGED vars
  BY <1>1, StutterStep
<1>2. ASSUME NEW w \in Workers, Serve(w) PROVE IInv'
  <2>1. ASSUME NEW k \in Keys, BeginSet(w, k) PROVE IInv'
    BY <2>1, BeginSetStep
  <2>2. ASSUME NEW k \in Keys, Get(w, k) PROVE IInv'
    BY <2>2, GetStep
  <2>3. CASE RefuseSet(w)
    BY <2>3, RefuseSetStep
  <2>4. CASE AllocHere(w)
    BY <2>4, AllocHereStep
  <2>5. CASE SegmentFull(w)
    BY <2>5, SegmentFullStep
  <2>6. CASE Install(w)
    BY <2>6, InstallStep
  <2>7. CASE Put(w)
    BY <2>7, PutStep
  <2>8. CASE Release(w)
    BY <2>8, ReleaseStep
  <2> QED BY <1>2, <2>1, <2>2, <2>3, <2>4, <2>5, <2>6, <2>7, <2>8 DEF Serve
<1>3. ASSUME NEW w \in Workers, SegmentAlloc(w) PROVE IInv'
  <2>1. CASE LookAtFreeList(w)
    BY <2>1, LookAtFreeListStep
  <2>2. CASE PopSegment(w)
    BY <2>2, PopSegmentStep
  <2>3. CASE PoppedSegment(w)
    BY <2>3, PoppedSegmentStep
  <2>4. CASE CheckSegments(w)
    BY <2>4, CheckSegmentsStep
  <2>5. CASE AnotherSegment(w)
    BY <2>5, AnotherSegmentStep
  <2> QED BY <1>3, <2>1, <2>2, <2>3, <2>4, <2>5 DEF SegmentAlloc
<1>4. ASSUME NEW w \in Workers, CleanLog(w) PROVE IInv'
  <2>1. CASE CleanIdle(w)
    BY <2>1, CleanIdleStep
  <2>2. CASE CleanEnough(w)
    BY <2>2, CleanEnoughStep
  <2>3. CASE CleanItem(w)
    BY <2>3, CleanItemStep
  <2>4. CASE NewReserve(w)
    BY <2>4, NewReserveStep
  <2>5. CASE CopyItem(w)
    BY <2>5, CopyItemStep
  <2> QED BY <1>4, <2>1, <2>2, <2>3, <2>4, <2>5 DEF CleanLog
<1>5. CASE Maintenance
  <2>1. ASSUME NEW w \in Workers, StartWalk(w) PROVE IInv'
    BY <2>1, StartWalkStep
  <2>2. CASE WalkSegment
    BY <2>2, WalkSegmentStep
  <2>3. CASE WeighSegment
    BY <2>3, WeighSegmentStep
  <2>4. CASE PushSegment
    BY <2>4, PushSegmentStep
  <2>5. CASE PushedSegment
    BY <2>5, PushedSegmentStep
  <2>6. CASE EndWalk
    BY <2>6, EndWalkStep
  <2>7. CASE EndScan
    BY <2>7, EndScanStep
  <2>8. CASE ScanItem
    BY <2>8, ScanItemStep
  <2> QED BY <1>5, <2>1, <2>2, <2>3, <2>4, <2>5, <2>6, <2>7, <2>8 DEF Maintenance
<1> QED BY <1>1, <1>2, <1>3, <1>4, <1>5 DEF Next

\* Once the lock has failed it counts as failed.
LEMMA CalmBefore == [Next]_vars => (Calm' => Calm)
<1> SUFFICES ASSUME [Next]_vars PROVE harm \subseteq harm'
  BY DEF Calm
<1>1. CASE UNCHANGED vars
  BY <1>1 DEF vars
<1>2. ASSUME NEW w \in Workers, Serve(w) \/ SegmentAlloc(w) \/ CleanLog(w) PROVE harm \subseteq harm'
  BY <1>2, Zenon DEF Serve, SegmentAlloc, CleanLog, BeginSet, Get, RefuseSet, AllocHere, SegmentFull, Install,
              Put, Release, LookAtFreeList, PopSegment, PoppedSegment, CheckSegments, AnotherSegment,
              CleanIdle, CleanEnough, CleanItem, NewReserve, CopyItem
<1>3. CASE Maintenance
  BY <1>3, Zenon DEF Maintenance, StartWalk, WalkSegment, WeighSegment, PushSegment, PushedSegment, EndWalk,
              EndScan, ScanItem
<1> QED BY <1>1, <1>2, <1>3 DEF Next

\* The invariant that the properties rest on: it holds until segalloc_lock is
\* dropped by a worker that does not have it (ialloc.c:103).
THEOREM Invariant == Spec => [](Calm => IInv)
<1>1. Init => (Calm => IInv)
  BY InitOK
<1>2. (Calm => IInv) /\ [Next]_vars => (Calm => IInv)'
  BY NextOK, CalmBefore
<1> QED BY <1>1, <1>2, PTL DEF Spec

-----------------------------------------------------------------------------
(* The properties. *)

\* While the lock works the variables have their types: no segment holds more
\* than fits, nothing is freed twice, no request comes after the last.
THEOREM TypesHold == Spec => [](Calm => TypeOK)
<1>1. IInv => TypeOK
  BY DEF IInv
<1> QED BY <1>1, Invariant, PTL

\* The segments of a place are those that home puts there.
LEMMA HoldingsAre ==
    ASSUME IInv, NEW home \in [Segments -> Places], NEW pos \in [Segments -> Nat], Laid(home, pos),
           NEW s \in Segments
    PROVE  {h \in Holdings : h[2] = s} = IF s <= seg_alloced THEN {<<home[s], s>>} ELSE {}
<1>0. TypeOK /\ NextTyped /\ free_segments \in Segments \cup {NULL} /\ ia \in [Workers -> Allocator]
      /\ seg_alloced \in Nat
  BY Sizes DEF IInv, TypeOK, NextTyped
<1>1. ListFrom(free_segments) = {u \in Segments : home[u] = Free}
  BY <1>0, ListIsFrom DEF Laid, Lists
<1>2. ASSUME NEW w \in Workers PROVE ListFrom(ia[w].oldest) = {u \in Segments : home[u] = Chain(w)}
  <2>1. ia[w].oldest \in Segments \cup {NULL} /\ ListAt(home, pos, Chain(w), ia[w].oldest)
    BY <1>0 DEF Allocator, Laid, Lists
  <2> QED BY <1>0, <2>1, ListIsFrom
<1>3. /\ \A u \in Segments : u > seg_alloced <=> home[u] = Unused
      /\ \A w \in Workers : home[s] = Reserve(w) <=> s = ia[w].reserved
      /\ \A w \in Workers : home[s] = Hand(w) <=> s = InHand(w)
      /\ home[s] = Given <=> s = GivenBack
  BY DEF Laid, Held
<1>4. ASSUME NEW h
      PROVE  h \in Holdings /\ h[2] = s <=> h = <<home[s], s>> /\ home[s] # Unused
  <2>1. h \in Holdings <=>
            \/ \E u \in Segments : h = <<Free, u>> /\ home[u] = Free
            \/ \E w \in Workers : \E u \in Segments : h = <<Chain(w), u>> /\ home[u] = Chain(w)
            \/ \E w \in Workers : h = <<Reserve(w), ia[w].reserved>>
            \/ \E w \in Workers : h = <<Hand(w), InHand(w)>>
            \/ h = <<Given, GivenBack>>
    <3>0. PICK F : F = ListFrom(free_segments)
      OBVIOUS
    <3>1. PICK c : c = [w \in Workers |-> ListFrom(ia[w].oldest)]
      OBVIOUS
    <3> DEFINE freed == {Free} \X F
               chained == UNION {{Chain(w)} \X c[w] : w \in Workers}
               reserved == {<<Reserve(w), ia[w].reserved>> : w \in Workers}
               inHand == {<<Hand(w), InHand(w)>> : w \in Workers}
               given == {<<Given, GivenBack>>}
    <3>2. Holdings = freed \cup chained \cup reserved \cup inHand \cup given
      BY <3>0, <3>1 DEF Holdings, Free, Chain, Reserve, Hand, Given, GivenBack
    <3>3. h \in freed <=> \E u \in Segments : h = <<Free, u>> /\ home[u] = Free
      BY <1>1, <3>0
    <3>4. h \in chained <=>
              \E w \in Workers : \E u \in Segments : h = <<Chain(w), u>> /\ home[u] = Chain(w)
      <4>1. \A w \in Workers : c[w] = {u \in Segments : home[u] = Chain(w)}
        BY <1>2, <3>1
      <4>2. h \in chained <=> \E w \in Workers : h \in {Chain(w)} \X c[w]
        OBVIOUS
      <4>3. ASSUME NEW w \in Workers
            PROVE  h \in {Chain(w)} \X c[w] <=> \E u \in Segments : h = <<Chain(w), u>> /\ home[u] = Chain(w)
        BY <4>1
      <4> QED BY <4>2, <4>3
    <3>5. h \in reserved <=> \E w \in Workers : h = <<Reserve(w), ia[w].reserved>>
      OBVIOUS
    <3>6. h \in inHand <=> \E w \in Workers : h = <<Hand(w), InHand(w)>>
      OBVIOUS
    <3>7. h \in given <=> h = <<Given, GivenBack>>
      OBVIOUS
    <3> HIDE DEF freed, chained, reserved, inHand, given
    <3>8. h \in Holdings <=> h \in freed \/ h \in chained \/ h \in reserved \/ h \in inHand \/ h \in given
      BY ONLY <3>2
    <3> QED BY ONLY <3>3, <3>4, <3>5, <3>6, <3>7, <3>8, Zenon
  <2>2. ASSUME h \in Holdings, h[2] = s PROVE h = <<home[s], s>> /\ home[s] # Unused
    <3>1. CASE \E u \in Segments : h = <<Free, u>> /\ home[u] = Free
      BY <2>2, <3>1 DEF Free, Unused
    <3>2. CASE \E w \in Workers : \E u \in Segments : h = <<Chain(w), u>> /\ home[u] = Chain(w)
      BY <2>2, <3>2, PlacesDiffer
    <3>3. CASE \E w \in Workers : h = <<Reserve(w), ia[w].reserved>>
      BY <1>3, <2>2, <3>3, PlacesDiffer
    <3>4. CASE \E w \in Workers : h = <<Hand(w), InHand(w)>>
      BY <1>3, <2>2, <3>4, PlacesDiffer
    <3>5. CASE h = <<Given, GivenBack>>
      <4>1. Given # Unused
        BY DEF Given, Unused
      <4>2. GivenBack = s
        BY <2>2, <3>5
      <4> QED BY ONLY <1>3, <3>5, <4>1, <4>2
    <3> QED BY <2>1, <2>2, <3>1, <3>2, <3>3, <3>4, <3>5
  <2>3. ASSUME h = <<home[s], s>>, home[s] # Unused PROVE h \in Holdings /\ h[2] = s
    <3>1. home[s] \in Places
      OBVIOUS
    <3> QED BY <1>3, <2>1, <2>3, <3>1 DEF Places
  <2> QED BY <2>2, <2>3
<1>5. s <= seg_alloced <=> home[s] # Unused
  BY <1>0, <1>3, NoSegment
<1> QED BY <1>4, <1>5

\* A segment is on the free list, in the chain of one worker, a reserve or in one
\* thread's hands: no two threads ever take, link or free the same segment, and
\* none gets lost (segment_alloc, segment_free, ialloc_maintenance).
THEOREM SegmentsOnceHolds == Spec => []SegmentsOnce
<1>1. (Calm => IInv) => SegmentsOnce
  <2> SUFFICES ASSUME IInv, NEW s \in Segments
               PROVE  Cardinality({h \in Holdings : h[2] = s}) = IF s <= seg_alloced THEN 1 ELSE 0
    BY DEF SegmentsOnce, Calm
  <2>1. PICK home \in [Segments -> Places], pos \in [Segments -> Nat] : Laid(home, pos)
    BY DEF IInv, LaidOut
  <2>2. {h \in Holdings : h[2] = s} = IF s <= seg_alloced THEN {<<home[s], s>>} ELSE {}
    BY <2>1, HoldingsAre
  <2>3. Cardinality({<<home[s], s>>}) = 1 /\ Cardinality({}) = 0
    BY FS_Singleton, FS_EmptySet
  <2> QED BY <2>2, <2>3
<1> QED BY <1>1, Invariant, PTL

\* What is in use is what somebody refers to.
LEMMA InUseIs ==
    ASSUME NEW r
    PROVE  r \in InUse <=> r # NoRef /\ UsedIn(table, cq, th, r)
<1> DEFINE linked == {table[x[1]].slots[x[2]] : x \in Buckets \X Slots}
           overflowed == {table[x[1]].over[x[2]] : x \in Overflow}
           queued == {cq[x[1]][x[2]] : x \in Queue}
           its == {th[w].it : w \in Workers}
           nits == {th[w].nit : w \in Workers}
<1>1. InUse = (linked \cup overflowed \cup queued \cup its \cup nits) \ {NoRef}
  BY DEF InUse
<1>2. r \in linked <=> \E b \in Buckets : \E i \in Slots : table[b].slots[i] = r
  <2>1. r \in linked <=> \E x \in Buckets \X Slots : r = table[x[1]].slots[x[2]]
    OBVIOUS
  <2>2. ASSUME NEW b \in Buckets, NEW i \in Slots, table[b].slots[i] = r PROVE r \in linked
    <3>1. <<b, i>> \in Buckets \X Slots /\ <<b, i>>[1] = b /\ <<b, i>>[2] = i
      OBVIOUS
    <3> QED BY <2>1, <2>2, <3>1
  <2> QED BY <2>1, <2>2
<1>3. r \in overflowed <=> \E b \in Buckets : \E j \in 1 .. Len(table[b].over) : table[b].over[j] = r
  <2>1. r \in overflowed <=> \E x \in Overflow : r = table[x[1]].over[x[2]]
    OBVIOUS
  <2>2. \A x : x \in Overflow <=> \E b \in Buckets : \E j \in 1 .. Len(table[b].over) : x = <<b, j>>
    BY DEF Overflow
  <2>3. ASSUME r \in overflowed
        PROVE  \E b \in Buckets : \E j \in 1 .. Len(table[b].over) : table[b].over[j] = r
    <3>1. PICK x \in Overflow : r = table[x[1]].over[x[2]]
      BY <2>1, <2>3
    <3>2. PICK b \in Buckets : \E j \in 1 .. Len(table[b].over) : x = <<b, j>>
      BY <2>2, <3>1
    <3> QED BY <3>1, <3>2
  <2>4. ASSUME NEW b \in Buckets, NEW j \in 1 .. Len(table[b].over), table[b].over[j] = r
        PROVE  r \in overflowed
    <3>1. PICK x : x = <<b, j>>
      OBVIOUS
    <3>2. x \in Overflow /\ x[1] = b /\ x[2] = j
      BY <2>2, <3>1
    <3> QED BY <2>1, <2>4, <3>2
  <2> QED BY <2>3, <2>4
<1>4. r \in queued <=> \E w \in Workers : \E j \in 1 .. Len(cq[w]) : cq[w][j] = r
  <2>1. r \in queued <=> \E x \in Queue : r = cq[x[1]][x[2]]
    OBVIOUS
  <2>2. \A x : x \in Queue <=> \E w \in Workers : \E j \in 1 .. Len(cq[w]) : x = <<w, j>>
    BY DEF Queue
  <2>3. ASSUME r \in queued PROVE \E w \in Workers : \E j \in 1 .. Len(cq[w]) : cq[w][j] = r
    <3>1. PICK x \in Queue : r = cq[x[1]][x[2]]
      BY <2>1, <2>3
    <3>2. PICK w \in Workers : \E j \in 1 .. Len(cq[w]) : x = <<w, j>>
      BY <2>2, <3>1
    <3> QED BY <3>1, <3>2
  <2>4. ASSUME NEW w \in Workers, NEW j \in 1 .. Len(cq[w]), cq[w][j] = r PROVE r \in queued
    <3>1. PICK x : x = <<w, j>>
      OBVIOUS
    <3>2. x \in Queue /\ x[1] = w /\ x[2] = j
      BY <2>2, <3>1
    <3> QED BY <2>1, <2>4, <3>2
  <2> QED BY <2>3, <2>4
<1>5. (r \in its <=> \E w \in Workers : th[w].it = r) /\ (r \in nits <=> \E w \in Workers : th[w].nit = r)
  OBVIOUS
<1> HIDE DEF linked, overflowed, queued, its, nits
<1>6. r \in InUse <=> /\ r # NoRef
                      /\ r \in linked \/ r \in overflowed \/ r \in queued \/ r \in its \/ r \in nits
  BY ONLY <1>1
<1> QED BY ONLY <1>2, <1>3, <1>4, <1>5, <1>6, Zenon DEF UsedIn

LEMMA UsedTyped ==
    ASSUME TypeOK, NEW r, UsedIn(table, cq, th, r)
    PROVE  r \in Refs
<1>1. CASE \E b \in Buckets : \E i \in Slots : table[b].slots[i] = r
  <2>1. \A b \in Buckets : table[b].slots \in [Slots -> Refs]
    BY DEF TypeOK
  <2> QED BY <1>1, <2>1
<1>2. CASE \E b \in Buckets : \E j \in 1 .. Len(table[b].over) : table[b].over[j] = r
  <2>1. \A b \in Buckets : table[b].over \in Seq(Refs)
    BY DEF TypeOK
  <2> QED BY <1>2, <2>1
<1>3. CASE \E w \in Workers : \E j \in 1 .. Len(cq[w]) : cq[w][j] = r
  <2>1. \A w \in Workers : cq[w] \in Seq(Refs)
    BY DEF TypeOK
  <2> QED BY <1>3, <2>1
<1>4. CASE \E w \in Workers : th[w].it = r \/ th[w].nit = r
  <2>1. \A w \in Workers : th[w].it \in Refs /\ th[w].nit \in Refs
    BY DEF TypeOK, Thread
  <2> QED BY <1>4, <2>1
<1> QED BY <1>1, <1>2, <1>3, <1>4 DEF UsedIn

LEMMA LiveRefsAre ==
    ASSUME IInv
    PROVE  LiveRefs = InUse
<1>1. Distinct(mem) /\ table \in Tables /\ cq \in Queues
  BY DEF IInv, TypeOK, MemOK, Tidy, Distinct, Tables, Queues
<1>2. ASSUME NEW r
      PROVE  r \in LiveRefs <=> \E s \in Segments : \E x \in Live(s) : r = <<s, x.at>>
  BY DEF LiveRefs
<1>3. ASSUME NEW s \in Segments, NEW x \in Live(s) PROVE <<s, x.at>> \in InUse
  <2>1. x \in mem[s] /\ x \in Header /\ x.refs > 0
    BY DEF Live, IInv, TypeOK
  <2>2. PICK r : r = <<s, x.at>>
    OBVIOUS
  <2>3. r \in Refs \ {NoRef}
    BY <2>1, <2>2, NoSegment DEF Refs, Header, NoRef
  <2>4. CountIn(mem, r) > 0
    BY <1>1, <2>1, <2>2, ItemIs
  <2>5. UsesIn(table, cq, th, r) > 0
    BY <2>3, <2>4, UsesAre DEF IInv, Items, CountsOK
  <2>6. UsedIn(table, cq, th, r)
    BY <1>1, <2>5, UsedCounts
  <2> QED BY <2>2, <2>3, <2>6, InUseIs
<1>4. ASSUME NEW r \in InUse PROVE r \in LiveRefs
  <2>1. r \in Refs \ {NoRef} /\ UsedIn(table, cq, th, r)
    BY InUseIs, UsedTyped DEF IInv
  <2>2. r[1] \in Segments /\ r = <<r[1], r[2]>> /\ ItemIn(mem, r) \in Live(r[1]) /\ ItemIn(mem, r).at = r[2]
    BY <2>1, UsedIs DEF Live, LiveIn
  <2> QED BY <1>2, <2>2
<1> QED BY <1>2, <1>3, <1>4

\* While the lock works and no scan has gone on in a segment given back, a segment's
\* memory is given back exactly when nothing in it can be reached: item_ref,
\* item_unref and ialloc_free count right through every SET, GET, copy and scan.
THEOREM RefsExactHolds == Spec => []RefsExact
<1>1. (Calm => IInv) => RefsExact
  <2> SUFFICES ASSUME IInv
               PROVE  /\ LiveRefs = InUse
                      /\ \A r \in InUse : RefsOf(r) = Uses(r)
                      /\ \A s \in Segments : Apart(Live(s))
                      /\ \A s \in Segments : seg[s].offset > 0 =>
                            seg[s].freed + Cardinality(Covered(Live(s))) = seg[s].offset
    BY DEF RefsExact, Calm
  <2>1. ASSUME NEW r \in InUse PROVE RefsOf(r) = Uses(r)
    <3>1. r \in Refs \ {NoRef} /\ UsedIn(table, cq, th, r)
      BY InUseIs, UsedTyped DEF IInv
    <3>2. ItemIn(mem, r).refs = CountIn(mem, r)
      BY <3>1, UsedIs
    <3>3. CountIn(mem, r) = Uses(r)
      BY <3>1 DEF IInv, Items, CountsOK
    <3> QED BY <3>2, <3>3 DEF RefsOf, ItemAt, ItemIn
  <2>2. ASSUME NEW s \in Segments
        PROVE  /\ Apart(Live(s))
               /\ seg[s].offset > 0 => seg[s].freed + Cardinality(Covered(Live(s))) = seg[s].offset
    <3>1. Tidy(mem[s], seg[s].offset, seg[s].freed)
      BY DEF IInv, MemOK
    <3>2. Live(s) = LiveIn(mem[s], seg[s].offset)
      BY DEF Live, LiveIn
    <3> QED BY <3>1, <3>2 DEF Tidy
  <2> QED BY <2>1, <2>2, LiveRefsAre
<1> QED BY <1>1, Invariant, PTL

LEMMA LinkedAre ==
    ASSUME NEW b, NEW k, NEW slot, NEW over, slot = table[b].slots, over = table[b].over, NEW q
    PROVE  q \in Linked(b, k) <=>
               \/ \E i \in Slots : q = slot[i] /\ slot[i] # NoRef /\ ItemIn(mem, slot[i]).key = k
               \/ \E j \in 1 .. Len(over) : q = over[j] /\ ItemIn(mem, over[j]).key = k
<1> DEFINE I == InSlot(b, k)
           J == InOverflow(b, k)
           A == {slot[i] : i \in I}
           B == {over[j] : j \in J}
<1>1. Linked(b, k) = A \cup B
  BY DEF Linked
<1>2. /\ \A i : i \in I <=> i \in Slots /\ slot[i] # NoRef /\ ItemIn(mem, slot[i]).key = k
      /\ \A j : j \in J <=> j \in 1 .. Len(over) /\ ItemIn(mem, over[j]).key = k
  BY DEF InSlot, InOverflow, KeyOf, ItemAt, ItemIn
<1> HIDE DEF I, J
<1>3. q \in A <=> \E i \in I : q = slot[i]
  OBVIOUS
<1>4. q \in B <=> \E j \in J : q = over[j]
  OBVIOUS
<1> HIDE DEF A, B
<1> QED BY ONLY <1>1, <1>2, <1>3, <1>4

\* Two linked items of one key are one item.
LEMMA LinkedOnce ==
    ASSUME TypeOK, Newest, NEW k \in Keys, NEW r \in Linked(Bucket[k], k)
    PROVE  /\ r \in Refs \ {NoRef} /\ ItemIn(mem, r).val = newest[k] /\ newest[k] # NoValue
           /\ \A q \in Linked(Bucket[k], k) : q = r
<1>1. PICK b \in Buckets : b = Bucket[k]
  BY Sizes
<1>2. PICK slot, over : slot = table[b].slots /\ over = table[b].over
  OBVIOUS
<1>3. InBucket(slot, over, mem, newest, b)
  BY <1>1, <1>2 DEF Newest, TableOK, BucketOK
<1>4. \A q : q \in Linked(b, k) <=>
         \/ \E i \in Slots : q = slot[i] /\ slot[i] # NoRef /\ ItemIn(mem, slot[i]).key = k
         \/ \E j \in 1 .. Len(over) : q = over[j] /\ ItemIn(mem, over[j]).key = k
  BY <1>2, LinkedAre
<1>5. ItemIn(mem, r).val = newest[k] /\ newest[k] # NoValue
  BY <1>1, <1>3, <1>4 DEF InBucket, LinkOK
<1>6. ASSUME NEW q \in Linked(b, k) PROVE q = r
  BY <1>1, <1>3, <1>4, <1>6 DEF InBucket
<1> QED BY <1>1, <1>5, <1>6, LinkedIs

\* A GET finds one item of its key, that of the newest SET, and none of a key that was
\* never set: hasht_put with cas_it lets a copy in only while its original is linked.
THEOREM TableHoldsNewestHolds == Spec => []TableHoldsNewest
<1>1. (Calm => IInv) => TableHoldsNewest
  <2> SUFFICES ASSUME IInv, NEW k \in Keys
               PROVE  IF newest[k] = NoValue THEN Linked(Bucket[k], k) = {}
                      ELSE \E r \in Refs : Linked(Bucket[k], k) = {r} /\ ItemAt(r).val = newest[k]
    BY DEF TableHoldsNewest, Calm
  <2>1. TypeOK /\ Newest
    BY DEF IInv, Items
  <2>2. CASE newest[k] = NoValue
    BY <2>1, <2>2, LinkedOnce
  <2>3. CASE newest[k] # NoValue
    <3>1. PICK b \in Buckets : b = Bucket[k]
      BY Sizes
    <3>2. \/ \E i \in Slots : table[b].slots[i] # NoRef /\ KeyIs(mem, table[b].slots[i], k)
          \/ \E j \in 1 .. Len(table[b].over) : KeyIs(mem, table[b].over[j], k)
      BY <2>1, <2>3, <3>1 DEF Newest, TableOK, BucketOK, InBucket
    <3>3. PICK r : r \in Linked(b, k)
      BY <3>2, LinkedAre DEF KeyIs
    <3>4. r \in Refs /\ ItemIn(mem, r).val = newest[k] /\ \A q \in Linked(b, k) : q = r
      BY <2>1, <3>1, <3>3, LinkedOnce
    <3>5. ItemAt(r).val = newest[k]
      BY <3>4 DEF ItemAt, ItemIn
    <3>6. Linked(b, k) = {r}
      BY <3>3, <3>4
    <3> QED BY <2>3, <3>1, <3>4, <3>5, <3>6
  <2> QED BY <2>2, <2>3
<1> QED BY <1>1, Invariant, PTL
=============================================================================
