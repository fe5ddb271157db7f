------------------------------ MODULE NvRingProofs -----------------------------
(***************************************************************************)
(* The byte layout of the log, for every size of the buffer, of a header   *)
(* and of the items: items share no byte, their headers chain, capacity is *)
(* exact, next is on an item, and the layout implements LogQueue.          *)
(***************************************************************************)
EXTENDS NvRing, FiniteSetTheorems, SequenceTheorems, TLAPS

-----------------------------------------------------------------------------
(* The inductive invariant. *)

Item == [at : 0 .. BufSize - Header, keylen : Nat, vallen : Nat]

Total(i) == Header + i.keylen + i.vallen

\* Offsets counted on from the oldest item, past the end of the buffer.
Along(p) == IF p >= items[1].at THEN p ELSE p + BufSize

TailAlong == IF tail > items[1].at THEN tail ELSE tail + BufSize

\* Types, and that no header promises more than the buffer holds.
Typed ==
    /\ TypeOK
    /\ items \in Seq(Item) /\ behind \in 0 .. Len(items)
    /\ \A n \in 1 .. Len(items) : Total(items[n]) <= BufSize
    /\ \A p \in Offset : Total(mem[p]) <= BufSize

\* Items lie one after the other between the oldest one and tail, and capacity is
\* what is left of the buffer.
InLine ==
    /\ \A m, n \in 1 .. Len(items) :
         m < n => Along(items[m].at) + Total(items[m]) <= Along(items[n].at)
    /\ \A n \in 1 .. Len(items) : Along(items[n].at) + Total(items[n]) <= TailAlong
    /\ \A n \in 1 .. Len(items) - 1 :
         Following(items[n].at, items[n]) = items[n + 1].at
    /\ items # << >> =>
         /\ tail = EndOf(items[Len(items)].at, items[Len(items)])
         /\ capacity = BufSize + items[1].at - TailAlong
         /\ capacity > 0
    /\ items = << >> => capacity = BufSize + Gap(tail)

Claimed == {"WRITING_TO_SSD", "CONSUMED"}
Active == {"WRITING", "WAITING", "WRITING_TO_SSD"}

\* The header of each item is there, those behind next are claimed, and no other
\* bytes look like an item in use.
Headed ==
    /\ \A n \in 1 .. Len(items) :
         /\ mem[items[n].at].keylen = items[n].keylen
         /\ mem[items[n].at].vallen = items[n].vallen
         /\ StateOf(items[n]) \in Active \cup {"CONSUMED"}
         /\ n <= behind => StateOf(items[n]) \in Claimed
    /\ \A p \in Offset :
         mem[p].state \in Active => \E n \in 1 .. Len(items) : items[n].at = p

Front == IF items = << >> THEN Placement ELSE items[1].at

\* head, or a walk of invalidate, is at the oldest item, and next at the one after
\* those it has passed.
Pointed ==
    /\ IF walk.op = "invalidate" THEN walk.at = Front ELSE head = Front
    /\ IF walk.op = "invalidate" /\ walk.pastNext
       THEN behind = 0
       ELSE next = IF behind = Len(items) THEN Placement ELSE items[behind + 1].at

RInv == Typed /\ InLine /\ Headed /\ Pointed /\ AccountingExact

-----------------------------------------------------------------------------
(* A queue of booleans that grows by FALSE. *)

LEMMA AppendIs ==
    ASSUME NEW R \in Seq(BOOLEAN), NEW L \in Nat, Len(R) = L
    PROVE  Append(R, FALSE) = [n \in 1 .. L + 1 |-> IF n = L + 1 THEN FALSE ELSE R[n]]
<1>1. FALSE \in BOOLEAN
  OBVIOUS
<1>2. /\ Append(R, FALSE) \in Seq(BOOLEAN) /\ Len(Append(R, FALSE)) = L + 1
      /\ \A n \in 1 .. L : Append(R, FALSE)[n] = R[n]
      /\ Append(R, FALSE)[L + 1] = FALSE
  <2>1. Append(R, FALSE) \in Seq(BOOLEAN) /\ Len(Append(R, FALSE)) = Len(R) + 1
    BY <1>1, AppendProperties, ZenonT(40)
  <2>2. \A n \in 1 .. Len(R) : Append(R, FALSE)[n] = R[n]
    BY <1>1, AppendProperties, ZenonT(40)
  <2>3. Append(R, FALSE)[Len(R) + 1] = FALSE
    BY <1>1, AppendProperties, ZenonT(40)
  <2> QED BY <2>1, <2>2, <2>3, Zenon
<1>3. Append(R, FALSE) \in [1 .. L + 1 -> BOOLEAN]
  BY <1>2, LenProperties
<1>4. ASSUME NEW n \in 1 .. L + 1
      PROVE  Append(R, FALSE)[n] = IF n = L + 1 THEN FALSE ELSE R[n]
  <2>1. CASE n = L + 1
    BY <1>2, <2>1, Zenon
  <2>2. CASE n # L + 1
    <3>1. n \in 1 .. L
      BY <2>2
    <3> QED BY <1>2, <2>2, <3>1, Zenon
  <2> QED BY <2>1, <2>2
<1> QED BY <1>3, <1>4

-----------------------------------------------------------------------------
(* Offsets and sizes. *)

USE SizesAssumption

LEMMA ModOnce ==
    ASSUME NEW a \in 0 .. 2 * BufSize - 1
    PROVE  a % BufSize = IF a < BufSize THEN a ELSE a - BufSize
OBVIOUS

\* An item that the buffer can hold.
Placed(i) == i \in Item /\ Total(i) <= BufSize

LEMMA ItemFacts ==
    ASSUME NEW i, Placed(i)
    PROVE  /\ i.at \in Nat /\ i.keylen \in Nat /\ i.vallen \in Nat
           /\ i.at \in Offset /\ i.at + Header <= BufSize
           /\ Total(i) \in Nat /\ Header <= Total(i) /\ Total(i) <= BufSize
BY DEF Placed, Item, Total, Offset

\* The bytes of an item are the offsets from its header on, counted past the end of
\* the buffer.
LEMMA FootprintIs ==
    ASSUME NEW i, Placed(i)
    PROVE  Footprint(i) = {x \in Offset : \/ i.at <= x /\ x < i.at + Total(i)
                                          \/ x + BufSize < i.at + Total(i)}
<1> DEFINE In(x) == \/ i.at <= x /\ x < i.at + Total(i)
                    \/ x + BufSize < i.at + Total(i)
<1>1. ASSUME NEW x \in Footprint(i) PROVE x \in Offset /\ In(x)
  <2>1. CASE x \in HeaderOf(i)
    BY <2>1, ItemFacts DEF HeaderOf, Offset
  <2>2. CASE x \in PayloadOf(i)
    <3>1. PICK j \in 0 .. i.keylen + i.vallen - 1 : x = (i.at + Header + j) % BufSize
      BY <2>2 DEF PayloadOf
    <3>2. PICK a \in Nat : a = i.at + Header + j
      BY <3>1, ItemFacts
    <3>3. a \in 0 .. 2 * BufSize - 1 /\ i.at <= a /\ a < i.at + Total(i)
      BY <3>1, <3>2, ItemFacts DEF Total
    <3>4. x = IF a < BufSize THEN a ELSE a - BufSize
      BY <3>1, <3>2, <3>3, ModOnce
    <3> QED BY <3>3, <3>4, ItemFacts DEF Offset
  <2> QED BY <2>1, <2>2 DEF Footprint
<1>2. ASSUME NEW x \in Offset, In(x) PROVE x \in Footprint(i)
  <2>1. PICK a \in Nat : /\ a = IF i.at <= x THEN x ELSE x + BufSize
                         /\ i.at <= a /\ a < i.at + Total(i)
    <3>1. CASE i.at <= x
      BY <1>2, <3>1, ItemFacts DEF Offset
    <3>2. CASE ~(i.at <= x)
      BY <1>2, <3>2, ItemFacts DEF Offset
    <3> QED BY <3>1, <3>2
  <2>2. CASE a < i.at + Header
    BY <2>1, <2>2, ItemFacts DEF Footprint, HeaderOf, Offset
  <2>3. CASE ~(a < i.at + Header)
    <3>1. PICK j \in 0 .. i.keylen + i.vallen - 1 : a = i.at + Header + j
      <4>1. a - (i.at + Header) \in 0 .. i.keylen + i.vallen - 1
        BY <2>1, <2>3, ItemFacts DEF Total
      <4> QED BY <2>1, <4>1, ItemFacts
    <3>2. a \in 0 .. 2 * BufSize - 1
      BY <2>1, ItemFacts DEF Offset
    <3>3. a % BufSize = x
      BY <2>1, <3>2, ModOnce DEF Offset
    <3> QED BY <3>1, <3>3 DEF Footprint, PayloadOf
  <2> QED BY <2>2, <2>3
<1> QED BY <1>1, <1>2

LEMMA IntervalCount ==
    ASSUME NEW a \in Int, NEW n \in Nat, NEW b, b = a + n - 1
    PROVE  IsFiniteSet(a .. b) /\ Cardinality(a .. b) = n
<1>1. b \in Int
  OBVIOUS
<1>2. IsFiniteSet(a .. b) /\ Cardinality(a .. b) = IF a > b THEN 0 ELSE b - a + 1
  BY <1>1, FS_Interval
<1>3. CASE n = 0
  BY <1>2, <1>3
<1>4. CASE n # 0
  <2>1. ~(a > b) /\ b - a + 1 = n
    BY <1>4
  <2> QED BY <1>2, <2>1
<1> QED BY <1>3, <1>4

LEMMA FootprintCount ==
    ASSUME NEW i, Placed(i)
    PROVE  IsFiniteSet(Footprint(i)) /\ Cardinality(Footprint(i)) = Total(i)
<1>1. PICK a \in Nat, s \in Nat : /\ a = i.at /\ s = Total(i)
                                  /\ a < BufSize /\ s <= BufSize /\ s > 0
  BY ItemFacts DEF Offset
<1>2. Footprint(i) = {x \in Offset : (a <= x /\ x < a + s) \/ x + BufSize < a + s}
  BY <1>1, FootprintIs
<1>3. CASE a + s <= BufSize
  <2>1. Footprint(i) = a .. a + s - 1
    BY <1>1, <1>2, <1>3 DEF Offset
  <2>2. IsFiniteSet(a .. a + s - 1) /\ Cardinality(a .. a + s - 1) = s
    BY IntervalCount
  <2> QED BY <1>1, <2>1, <2>2
<1>4. CASE ~(a + s <= BufSize)
  <2> DEFINE U == a .. BufSize - 1
             L == 0 .. a + s - BufSize - 1
  <2>1. Footprint(i) = U \cup L /\ U \cap L = {}
    BY <1>1, <1>2, <1>4 DEF Offset
  <2>2. IsFiniteSet(U) /\ Cardinality(U) = BufSize - a
    <3>1. PICK n \in Nat : n = BufSize - a
      BY <1>1
    <3>2. BufSize - 1 = a + n - 1
      BY <3>1
    <3> QED BY <3>1, <3>2, IntervalCount
  <2>3. IsFiniteSet(L) /\ Cardinality(L) = a + s - BufSize
    <3>1. PICK n \in Nat : n = a + s - BufSize
      BY <1>1, <1>4
    <3>2. a + s - BufSize - 1 = 0 + n - 1
      BY <1>1, <3>1
    <3> QED BY <3>1, <3>2, IntervalCount
  <2> HIDE DEF U, L
  <2>4. IsFiniteSet(U \cup L)
        /\ Cardinality(U \cup L) = Cardinality(U) + Cardinality(L) - Cardinality(U \cap L)
    BY <2>2, <2>3, FS_Union
  <2>5. Cardinality(U \cap L) = 0
    BY <2>1, FS_EmptySet
  <2> QED BY <1>1, <2>1, <2>2, <2>3, <2>4, <2>5
<1> QED BY <1>3, <1>4

LEMMA EndFacts ==
    ASSUME NEW i, Placed(i)
    PROVE  /\ EndOf(i.at, i) = IF i.at + Total(i) > BufSize THEN i.at + Total(i) - BufSize
                               ELSE i.at + Total(i)
           /\ EndOf(i.at, i) \in 1 .. BufSize
           /\ Following(i.at, i) = IF BufSize - EndOf(i.at, i) < Header THEN 0
                                   ELSE EndOf(i.at, i)
           /\ Following(i.at, i) \in 0 .. BufSize - Header
<1>1. /\ EndOf(i.at, i) = IF i.at + Total(i) > BufSize THEN i.at + Total(i) - BufSize
                          ELSE i.at + Total(i)
  BY ItemFacts DEF EndOf, Total
<1>2. EndOf(i.at, i) \in 1 .. BufSize
  BY <1>1, ItemFacts
<1> QED BY <1>1, <1>2 DEF Following, Gap

\* Where the next item goes is where a walk goes from an item that ends at tail.
LEMMA PlacementFacts ==
    ASSUME tail \in 0 .. BufSize
    PROVE  /\ Placement \in 0 .. BufSize - Header
           /\ Placement = IF BufSize - tail < Header THEN 0 ELSE tail
           /\ Gap(tail) = IF BufSize - tail < Header THEN BufSize - tail ELSE 0
           /\ Gap(tail) \in Nat
BY DEF Placement, Gap

-----------------------------------------------------------------------------
(* Items of the log. *)

LEMMA ItemsPlaced ==
    ASSUME Typed, NEW n \in 1 .. Len(items)
    PROVE  /\ Placed(items[n]) /\ items[n].at \in Offset
           /\ Len(items) \in Nat /\ 1 \in 1 .. Len(items) /\ items # << >>
<1>1. items \in Seq(Item) /\ Total(items[n]) <= BufSize
  BY DEF Typed
<1>2. items[n] \in Item /\ Len(items) \in Nat /\ items # << >>
  BY <1>1
<1> QED BY <1>1, <1>2, ItemFacts DEF Placed

\* What Along and TailAlong are for offsets.
LEMMA AlongFacts ==
    ASSUME Typed, items # << >>
    PROVE  /\ 1 \in 1 .. Len(items) /\ Len(items) \in 1 .. Len(items)
           /\ items[1].at \in Nat /\ items[1].at + Header <= BufSize
           /\ \A p \in Offset : /\ Along(p) \in Nat /\ items[1].at <= Along(p)
                                /\ Along(p) < items[1].at + BufSize
                                /\ p = IF Along(p) < BufSize THEN Along(p)
                                       ELSE Along(p) - BufSize
           /\ \A p, q \in Offset : Along(p) = Along(q) => p = q
           /\ TailAlong \in Nat /\ items[1].at < TailAlong
           /\ TailAlong <= items[1].at + BufSize
           /\ tail = IF TailAlong <= BufSize /\ tail > items[1].at THEN TailAlong
                     ELSE TailAlong - BufSize
<1>1. Len(items) \in Nat /\ Len(items) # 0 /\ tail \in 0 .. BufSize
  BY DEF Typed, TypeOK
<1>2. 1 \in 1 .. Len(items) /\ Len(items) \in 1 .. Len(items)
  BY <1>1
<1>3. PICK f \in Nat : f = items[1].at /\ f + Header <= BufSize
  BY <1>2, ItemsPlaced, ItemFacts
<1>4. \A p \in Offset : Along(p) = IF p >= f THEN p ELSE p + BufSize
  BY <1>3 DEF Along
<1>5. TailAlong = IF tail > f THEN tail ELSE tail + BufSize
  BY <1>3 DEF TailAlong
<1>6. \A p \in Offset : /\ Along(p) \in Nat /\ f <= Along(p) /\ Along(p) < f + BufSize
                        /\ p = IF Along(p) < BufSize THEN Along(p) ELSE Along(p) - BufSize
  BY <1>3, <1>4 DEF Offset
<1>7. \A p, q \in Offset : Along(p) = Along(q) => p = q
  BY <1>6
<1>8. /\ TailAlong \in Nat /\ f < TailAlong /\ TailAlong <= f + BufSize
      /\ tail = IF TailAlong <= BufSize /\ tail > f THEN TailAlong ELSE TailAlong - BufSize
  BY <1>1, <1>3, <1>5
<1> QED BY <1>2, <1>3, <1>6, <1>7, <1>8

\* The bytes of an item lie along from its header.
LEMMA SpanOf ==
    ASSUME Typed, items # << >>, NEW i, Placed(i), NEW x \in Footprint(i),
           Along(i.at) + Total(i) <= items[1].at + BufSize
    PROVE  x \in Offset /\ Along(i.at) <= Along(x) /\ Along(x) < Along(i.at) + Total(i)
<1>2. PICK a \in Offset, s \in Nat, f \in Nat :
        /\ a = i.at /\ s = Total(i) /\ f = items[1].at
        /\ a + Header <= BufSize /\ f < BufSize
  BY ItemFacts, AlongFacts
<1>3. x \in Offset /\ ((a <= x /\ x < a + s) \/ x + BufSize < a + s)
  BY <1>2, FootprintIs
<1>4. /\ Along(a) = IF a >= f THEN a ELSE a + BufSize
      /\ Along(x) = IF x >= f THEN x ELSE x + BufSize
  BY <1>2 DEF Along
<1>5. Along(a) + s <= f + BufSize
  BY <1>2
<1>6. Along(a) <= Along(x) /\ Along(x) < Along(a) + s
  <2>0. /\ BufSize \in Nat /\ x \in Nat /\ a \in Nat
        /\ a < BufSize /\ x < BufSize
    BY <1>3 DEF Offset
  <2>1. CASE a >= f
    BY <1>2, <1>3, <1>4, <1>5, <2>0, <2>1
  <2>2. CASE ~(a >= f)
    <3>0. Along(a) = a + BufSize
      BY <1>4, <2>2
    <3>1. Along(a) = a + BufSize /\ a + s <= f
      <4>1. f \in Nat /\ s \in Nat
        OBVIOUS
      <4> QED BY <1>5, <2>0, <3>0, <4>1
    <3>2. a <= x /\ x < a + s
      BY <1>2, <1>3, <2>0, <3>1
    <3>3. Along(x) = x + BufSize
      BY <1>2, <1>4, <2>0, <3>1, <3>2
    <3> QED BY <1>2, <2>0, <3>1, <3>2, <3>3
  <2> QED BY <2>1, <2>2
<1> QED BY <1>2, <1>3, <1>6

LEMMA ItemSpan ==
    ASSUME Typed, InLine, NEW n \in 1 .. Len(items)
    PROVE  /\ Along(items[n].at) \in Nat /\ Total(items[n]) \in Nat /\ TailAlong \in Nat
           /\ Along(items[n].at) + Total(items[n]) <= TailAlong
           /\ \A x \in Footprint(items[n]) :
                 /\ x \in Offset /\ Along(x) \in Nat /\ Along(items[n].at) <= Along(x)
                 /\ Along(x) < Along(items[n].at) + Total(items[n])
<1>1. Placed(items[n]) /\ items[n].at \in Offset /\ items # << >>
  BY ItemsPlaced
<1>2. /\ Along(items[n].at) \in Nat /\ Total(items[n]) \in Nat /\ TailAlong \in Nat
      /\ TailAlong <= items[1].at + BufSize /\ items[1].at \in Nat
  BY <1>1, ItemFacts, AlongFacts
<1>3. Along(items[n].at) + Total(items[n]) <= TailAlong
  BY DEF InLine
<1>4. Along(items[n].at) + Total(items[n]) <= items[1].at + BufSize
  BY <1>2, <1>3
<1>5. ASSUME NEW x \in Footprint(items[n])
      PROVE  /\ x \in Offset /\ Along(x) \in Nat /\ Along(items[n].at) <= Along(x)
             /\ Along(x) < Along(items[n].at) + Total(items[n])
  BY <1>1, <1>4, SpanOf, AlongFacts
<1> QED BY <1>2, <1>3, <1>5

LEMMA ItemsApart ==
    ASSUME Typed, InLine, NEW m \in 1 .. Len(items), NEW n \in 1 .. Len(items), m # n
    PROVE  /\ Footprint(items[m]) \cap Footprint(items[n]) = {}
           /\ items[m].at # items[n].at /\ items[m].at \notin PayloadOf(items[n])
<1>1. ASSUME NEW j \in 1 .. Len(items), NEW k \in 1 .. Len(items), j < k
      PROVE  Footprint(items[j]) \cap Footprint(items[k]) = {}
  <2> SUFFICES ASSUME NEW x \in Footprint(items[j]), x \in Footprint(items[k])
               PROVE  FALSE
    OBVIOUS
  <2>1. /\ Along(items[j].at) \in Nat /\ Along(items[k].at) \in Nat /\ Along(x) \in Nat
        /\ Total(items[j]) \in Nat /\ Total(items[k]) \in Nat
    BY ItemSpan
  <2>2. Along(items[j].at) + Total(items[j]) <= Along(items[k].at)
    BY <1>1 DEF InLine
  <2>3. Along(x) < Along(items[j].at) + Total(items[j]) /\ Along(items[k].at) <= Along(x)
    BY ItemSpan
  <2> QED BY <2>1, <2>2, <2>3
<1>2. Footprint(items[m]) \cap Footprint(items[n]) = {}
  <2>1. CASE m < n
    BY <1>1, <2>1
  <2>2. CASE n < m
    BY <1>1, <2>2
  <2>3. m < n \/ n < m
    OBVIOUS
  <2> QED BY <2>1, <2>2, <2>3
<1>3. ASSUME NEW k \in 1 .. Len(items) PROVE items[k].at \in HeaderOf(items[k])
  BY ItemsPlaced, ItemFacts DEF HeaderOf
<1> QED BY <1>2, <1>3 DEF Footprint

LEMMA Disjoint ==
    ASSUME Typed, InLine
    PROVE  NoOverlap
<1>1. ASSUME NEW n \in 1 .. Len(items) PROVE HeaderOf(items[n]) \subseteq Offset
  BY ItemsPlaced, ItemFacts DEF HeaderOf, Offset
<1> QED BY <1>1, ItemsApart DEF NoOverlap

-----------------------------------------------------------------------------
(* Steps that leave the items where they are. *)

LEMMA SamePlaces ==
    ASSUME RInv, UNCHANGED <<items, tail, capacity>>
    PROVE  InLine' /\ AccountingExact'
<1>1. InLine'
  BY DEF RInv, InLine, Along, TailAlong
<1>2. Used' = Used /\ SkippedGap' = SkippedGap
  BY DEF Used, SkippedGap
<1> QED BY <1>1, <1>2 DEF RInv, AccountingExact

LEMMA SamePoints ==
    ASSUME RInv, UNCHANGED <<head, next, tail, walk, items, behind>>
    PROVE  Pointed'
BY DEF RInv, Pointed, Front, Placement

\* A step that changes the state of one item in use, and bytes of its payload.
LEMMA ItemStep ==
    ASSUME RInv, NEW n \in 1 .. Len(items), NEW s \in Active \cup {"CONSUMED"},
           UNCHANGED <<items, tail, capacity>>,
           behind' \in 0 .. Len(items),
           n <= behind' => s \in Claimed,
           \A m \in 1 .. Len(items) : m # n => (m <= behind' => m <= behind),
           mem' \in [Offset -> [keylen : Nat, vallen : Nat, state : States \cup {"BYTES"}]],
           mem'[items[n].at] = NvLine(items[n].keylen, items[n].vallen, s),
           \A p \in Offset \ {items[n].at} :
              mem'[p] = mem[p] \/ (p \in PayloadOf(items[n]) /\ mem'[p] = Bytes)
    PROVE  /\ InLine' /\ AccountingExact' /\ Headed'
           /\ \A p \in Offset : Total(mem'[p]) <= BufSize
<1>1. ASSUME NEW m \in 1 .. Len(items), m # n PROVE mem'[items[m].at] = mem[items[m].at]
  BY <1>1, ItemsPlaced, ItemsApart DEF RInv
<1>2. ASSUME NEW m \in 1 .. Len(items)
      PROVE  /\ mem'[items[m].at].keylen = items[m].keylen
             /\ mem'[items[m].at].vallen = items[m].vallen
             /\ mem'[items[m].at].state \in Active \cup {"CONSUMED"}
             /\ m <= behind' => mem'[items[m].at].state \in Claimed
  <2>1. CASE m = n
    BY <2>1 DEF NvLine
  <2>2. CASE m # n
    BY <1>1, <2>2 DEF RInv, Headed, StateOf
  <2> QED BY <2>1, <2>2
<1>3. ASSUME NEW p \in Offset, mem'[p].state \in Active
      PROVE  \E m \in 1 .. Len(items) : items[m].at = p
  <2>1. CASE p # items[n].at
    <3>1. mem'[p] # Bytes
      BY <1>3 DEF Bytes, Active
    <3> QED BY <1>3, <2>1, <3>1 DEF RInv, Headed
  <2> QED BY <2>1
<1>4. Headed'
  BY <1>2, <1>3 DEF Headed, StateOf
<1>5. ASSUME NEW p \in Offset PROVE Total(mem'[p]) <= BufSize
  <2>1. CASE p = items[n].at
    BY <2>1 DEF RInv, Typed, NvLine, Total
  <2>2. CASE mem'[p] = Bytes
    BY <2>2 DEF Bytes, Total
  <2>3. CASE mem'[p] = mem[p]
    BY <2>3 DEF RInv, Typed
  <2> QED BY <2>1, <2>2, <2>3
<1> QED BY <1>4, <1>5, SamePlaces

-----------------------------------------------------------------------------
(* Writing, consuming and claiming an item. *)

Line == [keylen : Nat, vallen : Nat, state : States \cup {"BYTES"}]

LEMMA TypedFacts ==
    ASSUME Typed
    PROVE  /\ head \in Offset /\ next \in 0 .. BufSize /\ tail \in 0 .. BufSize
           /\ capacity \in Nat /\ mem \in [Offset -> Line]
           /\ walk \in [op : {"none", "find", "invalidate"}, at : Offset, pastNext : BOOLEAN]
           /\ items \in Seq(Item) /\ Len(items) \in Nat /\ behind \in 0 .. Len(items)
BY DEF Typed, TypeOK, Line

LEMMA LineIs ==
    ASSUME NEW l \in Line, NEW s
    PROVE  [l EXCEPT !.state = s] = NvLine(l.keylen, l.vallen, s)
BY DEF Line, NvLine

LEMMA SameFollowing ==
    ASSUME NEW p, NEW l, NEW i, l.keylen = i.keylen, l.vallen = i.vallen
    PROVE  /\ Following(p, l) = Following(p, i) /\ EndOf(p, l) = EndOf(p, i)
           /\ Total(l) = Total(i)
<1>1. EndOf(p, l) = EndOf(p, i) /\ Total(l) = Total(i)
  BY DEF EndOf, Total
<1> QED BY <1>1 DEF Following

\* A walk goes on from an item to the next one, or to where the next one will be.
LEMMA FollowingItem ==
    ASSUME Typed, InLine, NEW n \in 1 .. Len(items)
    PROVE  Following(items[n].at, items[n]) =
              IF n = Len(items) THEN Placement ELSE items[n + 1].at
<1>1. CASE n = Len(items)
  <2>1. tail = EndOf(items[n].at, items[n]) /\ tail \in 0 .. BufSize
    BY <1>1, ItemsPlaced, TypedFacts DEF InLine
  <2>2. Following(items[n].at, items[n]) = IF BufSize - tail < Header THEN 0 ELSE tail
    BY <2>1, ItemsPlaced, EndFacts
  <2> QED BY <1>1, <2>1, <2>2, PlacementFacts
<1>2. CASE n # Len(items)
  <2>1. n \in 1 .. Len(items) - 1
    BY <1>2, ItemsPlaced
  <2> QED BY <1>2, <2>1 DEF InLine
<1> QED BY <1>1, <1>2

LEMMA NvLineTyped ==
    ASSUME Typed, NEW n \in 1 .. Len(items), NEW s \in States
    PROVE  NvLine(items[n].keylen, items[n].vallen, s) \in Line
BY ItemsPlaced, ItemFacts DEF NvLine, Line

LEMMA WriteKeeps ==
    ASSUME RInv, NEW n \in 1 .. Len(items), Write(items[n])
    PROVE  RInv'
<1> DEFINE i == items[n]
           l == NvLine(i.keylen, i.vallen, "WAITING")
<1>1. /\ StateOf(i) = "WRITING"
      /\ UNCHANGED <<head, next, tail, capacity, walk, items, behind, lost>>
      /\ mem' = [p \in Offset |-> IF p = i.at THEN l
                                  ELSE IF p \in PayloadOf(i) THEN Bytes ELSE mem[p]]
  BY DEF Write
<1>2. i.at \in Offset /\ l \in Line /\ Bytes \in Line
  BY ItemsPlaced, NvLineTyped DEF RInv, States, Bytes, Line
<1>3. /\ mem' \in [Offset -> Line] /\ mem'[i.at] = l
      /\ \A p \in Offset \ {i.at} :
            mem'[p] = mem[p] \/ (p \in PayloadOf(i) /\ mem'[p] = Bytes)
  <2>1. mem \in [Offset -> Line]
    BY TypedFacts DEF RInv
  <2> HIDE DEF i, l
  <2> QED BY <1>1, <1>2, <2>1
<1>4. ~(n <= behind)
  BY <1>1 DEF RInv, Headed, Claimed
<1>5. exited' \in BOOLEAN
  BY DEF Write, WriteReachesHead
<1>6. /\ InLine' /\ AccountingExact' /\ Headed'
      /\ \A p \in Offset : Total(mem'[p]) <= BufSize
  <2>1. behind' \in 0 .. Len(items) /\ "WAITING" \in Active \cup {"CONSUMED"}
    BY <1>1, TypedFacts DEF RInv, Active
  <2> QED BY <1>1, <1>3, <1>4, <2>1, ItemStep DEF Line
<1>7. TypeOK'
  BY <1>1, <1>3, <1>5 DEF RInv, Typed, TypeOK, Line
<1>8. Typed'
  BY <1>1, <1>6, <1>7 DEF RInv, Typed
<1> QED BY <1>1, <1>6, <1>8, SamePoints DEF RInv

LEMMA ConsumeKeeps ==
    ASSUME RInv, NEW n \in 1 .. Len(items), Consume(items[n])
    PROVE  RInv'
<1> DEFINE i == items[n]
           l == NvLine(i.keylen, i.vallen, "CONSUMED")
<1>1. /\ UNCHANGED <<head, next, tail, capacity, walk, exited, items, behind, lost>>
      /\ mem' = [mem EXCEPT ![i.at] = [mem[i.at] EXCEPT !.state = "CONSUMED"]]
  BY DEF Consume
<1>2. i.at \in Offset /\ l \in Line /\ mem \in [Offset -> Line]
  BY ItemsPlaced, NvLineTyped, TypedFacts DEF RInv, States
<1>3. [mem[i.at] EXCEPT !.state = "CONSUMED"] = l
  <2>1. PICK h \in Line : h = mem[i.at]
    BY <1>2
  <2>2. h.keylen = i.keylen /\ h.vallen = i.vallen
    BY <2>1 DEF RInv, Headed
  <2> QED BY <2>1, <2>2, LineIs
<1>4. /\ mem' \in [Offset -> Line] /\ mem'[i.at] = l
      /\ \A p \in Offset \ {i.at} : mem'[p] = mem[p]
  <2> HIDE DEF i, l
  <2> QED BY <1>1, <1>2, <1>3
<1>5. /\ InLine' /\ AccountingExact' /\ Headed'
      /\ \A p \in Offset : Total(mem'[p]) <= BufSize
  <2>1. behind' \in 0 .. Len(items) /\ "CONSUMED" \in Active \cup {"CONSUMED"}
        /\ "CONSUMED" \in Claimed
    BY <1>1, TypedFacts DEF RInv, Claimed
  <2> QED BY <1>1, <1>4, <2>1, ItemStep DEF Line
<1>6. TypeOK'
  BY <1>1, <1>4 DEF RInv, Typed, TypeOK, Line
<1>7. Typed'
  BY <1>1, <1>5, <1>6 DEF RInv, Typed
<1> QED BY <1>1, <1>5, <1>7, SamePoints DEF RInv

\* The item at next, if it looks as if it waited, is the first that was not claimed.
LEMMA NextIsWaiting ==
    ASSUME RInv, walk.op = "none", next \in Offset, mem[next].state = "WAITING"
    PROVE  behind < Len(items) /\ behind + 1 \in 1 .. Len(items)
           /\ items[behind + 1].at = next
<1>1. PICK n \in 1 .. Len(items) : items[n].at = next
  BY DEF RInv, Headed, Active
<1>2. ~(n <= behind)
  BY <1>1 DEF RInv, Headed, StateOf, Claimed
<1>3. behind \in 0 .. Len(items) /\ Len(items) \in Nat
  BY TypedFacts DEF RInv
<1> QED BY <1>1, <1>2, <1>3 DEF RInv, Pointed

LEMMA ClaimKeeps ==
    ASSUME RInv, Claim
    PROVE  RInv'
<1>1. /\ walk.op = "none" /\ mem[next].state = "WAITING"
      /\ UNCHANGED <<head, tail, capacity, walk, items, lost>>
      /\ mem' = [mem EXCEPT ![next] = [mem[next] EXCEPT !.state = "WRITING_TO_SSD"]]
      /\ next' = Following(next, mem[next])
      /\ behind' = behind + 1
  BY DEF Claim
<1>0. next \in Offset
  <2>1. Placement \in Offset
    BY TypedFacts, PlacementFacts DEF RInv, Offset
  <2>2. behind # Len(items) => behind + 1 \in 1 .. Len(items)
    BY TypedFacts DEF RInv
  <2>3. behind # Len(items) => items[behind + 1].at \in Offset
    BY <2>2, ItemsPlaced DEF RInv
  <2> QED BY <1>1, <2>1, <2>3 DEF RInv, Pointed
<1>2. PICK n \in 1 .. Len(items) : n = behind + 1 /\ items[n].at = next
  BY <1>0, <1>1, NextIsWaiting
<1> DEFINE i == items[n]
           l == NvLine(i.keylen, i.vallen, "WRITING_TO_SSD")
<1>3. i.at \in Offset /\ l \in Line /\ mem \in [Offset -> Line]
  BY ItemsPlaced, NvLineTyped, TypedFacts DEF RInv, States
<1>4. [mem[i.at] EXCEPT !.state = "WRITING_TO_SSD"] = l
  <2>1. PICK h \in Line : h = mem[i.at]
    BY <1>3
  <2>2. h.keylen = i.keylen /\ h.vallen = i.vallen
    BY <2>1 DEF RInv, Headed
  <2> QED BY <2>1, <2>2, LineIs
<1>5. /\ mem' \in [Offset -> Line] /\ mem'[i.at] = l
      /\ \A p \in Offset \ {i.at} : mem'[p] = mem[p]
  <2> HIDE DEF l
  <2> QED BY <1>1, <1>2, <1>3, <1>4
<1>6. behind \in 0 .. Len(items) /\ Len(items) \in Nat /\ n \in Nat
  BY TypedFacts DEF RInv
<1>7. /\ InLine' /\ AccountingExact' /\ Headed'
      /\ \A p \in Offset : Total(mem'[p]) <= BufSize
  <2>1. behind' \in 0 .. Len(items) /\ "WRITING_TO_SSD" \in Active \cup {"CONSUMED"}
        /\ "WRITING_TO_SSD" \in Claimed
    BY <1>1, <1>2, <1>6 DEF Claimed, Active
  <2>2. \A m \in 1 .. Len(items) : m # n => (m <= behind' => m <= behind)
    BY <1>1, <1>2, <1>6
  <2> QED BY <1>1, <1>5, <2>1, <2>2, ItemStep DEF Line
<1>8. next' = IF n = Len(items) THEN Placement ELSE items[n + 1].at
  <2>1. mem[next].keylen = items[n].keylen /\ mem[next].vallen = items[n].vallen
    BY <1>2 DEF RInv, Headed
  <2> QED BY <1>1, <1>2, <2>1, SameFollowing, FollowingItem DEF RInv
<1>9. TypeOK'
  <2>1. next' \in 0 .. BufSize
    <3>1. Following(i.at, i) \in 0 .. BufSize - Header
      BY ItemsPlaced, EndFacts DEF RInv
    <3>2. next' = Following(i.at, i)
      BY <1>8, FollowingItem DEF RInv
    <3> QED BY <3>1, <3>2
  <2>2. exited' \in BOOLEAN
    BY DEF Claim, NextIsBad, IsBetween
  <2> QED BY <1>1, <1>5, <2>1, <2>2 DEF RInv, Typed, TypeOK, Line
<1>10. Typed'
  BY <1>1, <1>2, <1>6, <1>7, <1>9 DEF RInv, Typed
<1>11. Pointed'
  <2>1. Front' = Front /\ Placement' = Placement
    BY <1>1 DEF Front, Placement
  <2> QED BY <1>1, <1>2, <1>6, <1>8, <2>1 DEF RInv, Pointed
<1> QED BY <1>7, <1>10, <1>11 DEF RInv

-----------------------------------------------------------------------------
(* Walks. *)

LEMMA WalkKeeps ==
    ASSUME RInv, UNCHANGED <<head, next, tail, capacity, mem, items, behind>>,
           walk' \in [op : {"none", "find", "invalidate"}, at : Offset, pastNext : BOOLEAN],
           exited' \in BOOLEAN, lost' \in BOOLEAN,
           \/ walk' = walk
           \/ walk.op # "invalidate" /\ walk'.op # "invalidate"
           \/ walk.op # "invalidate" /\ walk'.op = "invalidate" /\ walk'.at = head
              /\ ~walk'.pastNext
    PROVE  RInv'
<1>1. InLine' /\ AccountingExact'
  BY SamePlaces
<1>2. Typed' /\ Headed'
  BY DEF RInv, Typed, TypeOK, Headed, StateOf
<1>3. Pointed'
  BY DEF RInv, Pointed, Front, Placement
<1> QED BY <1>1, <1>2, <1>3 DEF RInv

LEMMA StartsKeep ==
    ASSUME RInv, StartInvalidate \/ StartFind
    PROVE  RInv'
<1>1. head \in Offset /\ exited \in BOOLEAN /\ lost \in BOOLEAN
  BY DEF RInv, Typed, TypeOK
<1>2. /\ walk.op = "none"
      /\ UNCHANGED <<head, next, tail, capacity, mem, exited, items, behind, lost>>
      /\ \/ walk' = [op |-> "invalidate", at |-> head, pastNext |-> FALSE]
         \/ walk' = [op |-> "find", at |-> head, pastNext |-> FALSE]
  BY DEF StartInvalidate, StartFind
<1>3. walk' \in [op : {"none", "find", "invalidate"}, at : Offset, pastNext : BOOLEAN]
  <2>1. CASE walk' = [op |-> "invalidate", at |-> head, pastNext |-> FALSE]
    BY <1>1, <2>1
  <2>2. CASE walk' = [op |-> "find", at |-> head, pastNext |-> FALSE]
    BY <1>1, <2>2
  <2> QED BY <1>2, <2>1, <2>2
<1>4. /\ walk'.at = head /\ walk'.op \in {"find", "invalidate"} /\ ~walk'.pastNext
      /\ walk.op # "invalidate"
  BY <1>2
<1> QED BY <1>1, <1>2, <1>3, <1>4, WalkKeeps

LEMMA FindKeeps ==
    ASSUME RInv, FindPasses \/ FindHits \/ FindMisses \/ ClaimAgain
    PROVE  RInv'
<1>1. /\ walk \in [op : {"none", "find", "invalidate"}, at : Offset, pastNext : BOOLEAN]
      /\ mem \in [Offset -> Line] /\ exited \in BOOLEAN /\ lost \in BOOLEAN
  BY DEF RInv, Typed, TypeOK, Line
<1>2. CASE FindPasses
  <2>1. PICK l \in HeadersAt(walk.at) : walk' = [walk EXCEPT !.at = Following(walk.at, l)]
    BY <1>2 DEF FindPasses
  <2>2. /\ l.keylen \in Nat /\ l.vallen \in Nat /\ Total(l) <= BufSize
    <3>1. CASE mem[walk.at] = Bytes
      <4>1. PICK s \in Sizes : l = NvLine(s[1], s[2], "CONSUMED")
        BY <2>1, <3>1 DEF HeadersAt
      <4>2. s[1] \in Nat /\ s[2] \in Nat /\ Header + s[1] + s[2] <= BufSize
        OBVIOUS
      <4>3. l.keylen = s[1] /\ l.vallen = s[2]
        BY <4>1 DEF NvLine
      <4> QED BY <4>2, <4>3 DEF Total
    <3>2. CASE mem[walk.at] # Bytes
      <4>1. l = mem[walk.at] /\ walk.at \in Offset
        BY <1>1, <2>1, <3>2 DEF HeadersAt
      <4> QED BY <1>1, <4>1 DEF RInv, Typed, Line
    <3> QED BY <3>1, <3>2
  <2>3. Following(walk.at, l) \in Offset
    <3>1. PICK p \in Nat : p = walk.at /\ p < BufSize
      BY <1>1 DEF Offset
    <3>2. EndOf(p, l) = IF p + Total(l) > BufSize THEN p + Total(l) - BufSize
                        ELSE p + Total(l)
      BY <2>2, <3>1 DEF EndOf, Total
    <3>3. Total(l) \in Nat
      BY <2>2 DEF Total
    <3>4. EndOf(p, l) \in 0 .. BufSize
      BY <2>2, <3>1, <3>2, <3>3
    <3> QED BY <3>1, <3>4 DEF Following, Offset
  <2>4. /\ walk' \in [op : {"none", "find", "invalidate"}, at : Offset,
                      pastNext : BOOLEAN]
        /\ walk.op = "find" /\ walk'.op = "find"
    BY <1>1, <1>2, <2>1, <2>3 DEF FindPasses
  <2>5. lost' \in BOOLEAN
    BY <1>1, <1>2 DEF FindPasses, PastLastItem, Between, IsBetween
  <2> QED BY <1>1, <1>2, <2>4, <2>5, WalkKeeps DEF FindPasses
<1>3. CASE FindHits \/ FindMisses
  <2>1. /\ walk.op = "find" /\ walk' = NoWalk
        /\ UNCHANGED <<head, next, tail, capacity, mem, exited, items, behind, lost>>
    BY <1>3 DEF FindHits, FindMisses
  <2>2. 0 \in Offset
    BY DEF Offset
  <2>3. /\ walk' \in [op : {"none", "find", "invalidate"}, at : Offset, pastNext : BOOLEAN]
        /\ walk'.op = "none"
    BY <2>1, <2>2 DEF NoWalk
  <2> QED BY <1>1, <2>1, <2>3, WalkKeeps
<1>4. CASE ClaimAgain
  BY <1>1, <1>4, WalkKeeps DEF ClaimAgain
<1> QED BY <1>2, <1>3, <1>4

LEMMA EndInvalidateKeeps ==
    ASSUME RInv, EndInvalidate
    PROVE  RInv'
<1>1. /\ walk.op = "invalidate" /\ walk.at = Front
      /\ head' = walk.at /\ next' = NextAfterWalk /\ walk' = NoWalk
      /\ UNCHANGED <<tail, capacity, mem, items, behind, lost>>
  BY DEF EndInvalidate, RInv, Pointed
<1>2. exited' \in BOOLEAN
  BY DEF EndInvalidate, NextIsBad, IsBetween
<1>3. InLine' /\ AccountingExact' /\ Headed'
  BY <1>1, SamePlaces DEF RInv, Headed, StateOf
<1>4. walk.at \in Offset /\ next \in 0 .. BufSize /\ 0 \in Offset
  BY TypedFacts DEF RInv, Offset
<1>5. head' \in Offset /\ next' \in 0 .. BufSize
  BY <1>1, <1>4 DEF NextAfterWalk, Offset
<1>6. walk' \in [op : {"none", "find", "invalidate"}, at : Offset, pastNext : BOOLEAN]
  BY <1>1, <1>4 DEF NoWalk
<1>7. Typed'
  BY <1>1, <1>2, <1>5, <1>6 DEF RInv, Typed, TypeOK
<1>8. Pointed'
  <2>1. Front' = Front /\ Placement' = Placement /\ walk'.op # "invalidate"
    BY <1>1 DEF Front, Placement, NoWalk
  <2>2. next' = IF behind = Len(items) THEN Placement ELSE items[behind + 1].at
    <3>1. CASE walk.pastNext
      <4>1. next' = Front /\ behind = 0
        BY <1>1, <3>1 DEF NextAfterWalk, RInv, Pointed
      <4>2. items = << >> <=> Len(items) = 0
        BY TypedFacts DEF RInv
      <4> QED BY <4>1, <4>2 DEF Front
    <3>2. CASE ~walk.pastNext
      BY <1>1, <3>2 DEF NextAfterWalk, RInv, Pointed
    <3> QED BY <3>1, <3>2
  <2> QED BY <1>1, <2>1, <2>2 DEF Pointed
<1> QED BY <1>3, <1>7, <1>8 DEF RInv

-----------------------------------------------------------------------------
(* NVDIMM_allocate *)

GapOf(i) == Gap(EndOf(i.at, i))
GapAfter(n) == GapOf(items[n])
Gaps == {n \in 1 .. Len(items) - 1 : GapAfter(n) > 0}

LEMMA SkippedIs ==
    SkippedGap = IF Gaps = {} THEN 0 ELSE GapAfter(CHOOSE n \in Gaps : TRUE)
BY DEF SkippedGap, Gaps, GapAfter, GapOf

LEMMA OneChoice ==
    ASSUME NEW n, NEW S, S = {n}
    PROVE  (CHOOSE m \in S : TRUE) = n
OBVIOUS

\* After a gap an item starts at the beginning of the buffer.
LEMMA AfterGap ==
    ASSUME Typed, InLine, NEW n \in Gaps
    PROVE  /\ n \in 1 .. Len(items) /\ n + 1 \in 1 .. Len(items) /\ n \in Nat
           /\ items[n + 1].at = 0
<1>1. n \in 1 .. Len(items) - 1 /\ GapAfter(n) > 0
  BY DEF Gaps
<1>2. Len(items) \in Nat
  BY TypedFacts
<1>3. n \in 1 .. Len(items) /\ n + 1 \in 1 .. Len(items) /\ n \in Nat
  BY <1>1, <1>2
<1>4. Following(items[n].at, items[n]) = 0
  BY <1>1 DEF GapAfter, GapOf, Following
<1> QED BY <1>1, <1>3, <1>4 DEF InLine

LEMMA OneGap ==
    ASSUME Typed, InLine, NEW m \in Gaps, NEW n \in Gaps
    PROVE  m = n
<1>1. /\ m + 1 \in 1 .. Len(items) /\ n + 1 \in 1 .. Len(items)
      /\ items[m + 1].at = 0 /\ items[n + 1].at = 0 /\ m \in Nat /\ n \in Nat
  BY AfterGap
<1>2. CASE m + 1 = n + 1
  BY <1>1, <1>2
<1>3. CASE m + 1 # n + 1
  BY <1>1, <1>3, ItemsApart
<1> QED BY <1>2, <1>3

\* The arithmetic of an allocation: the buffer has b bytes and headers h, the oldest
\* item is at f, tail at w, and a bytes go to the offset at.
LEMMA PlaceArithmetic ==
    ASSUME NEW b \in Nat, NEW h \in Nat, NEW f \in Nat, NEW w \in Nat, NEW a \in Nat,
           h > 0, f + h <= b, w <= b, h <= a,
           NEW e \in Nat, e = IF w > f THEN w ELSE w + b,
           NEW c \in Nat, c = b + f - e, c > a, b - w <= h => c - (b - w) > a,
           NEW at \in Nat, at = IF b - w < h THEN 0 ELSE w,
           NEW g \in Nat, g = IF b - w < h THEN b - w ELSE 0,
           NEW d \in Nat, d = IF at >= f THEN at ELSE at + b,
           NEW t \in Int, t = IF at + a > b THEN at + a - b ELSE at + a
    PROVE  /\ d = e + g /\ d + a < b + f
           /\ d + a = IF t > f THEN t ELSE t + b
<1>1. CASE w > f /\ b - w < h
  <2>1. e = w /\ at = 0 /\ g = b - w /\ c = b + f - w
    BY <1>1
  <2>2. f > a /\ d = b
    BY <1>1, <2>1
  <2> QED BY <1>1, <2>1, <2>2
<1>2. CASE w > f /\ ~(b - w < h)
  <2>1. e = w /\ at = w /\ g = 0 /\ c = b + f - w /\ d = w
    BY <1>2
  <2>2. w + a < b + f
    BY <2>1
  <2> QED BY <1>2, <2>1, <2>2
<1>3. CASE ~(w > f)
  <2>1. e = w + b /\ c = f - w
    BY <1>3
  <2>2. w < f /\ b - w > h /\ w + a < f
    BY <1>3, <2>1
  <2>3. at = w /\ g = 0 /\ d = w + b
    BY <2>2
  <2> QED BY <2>1, <2>2, <2>3
<1> QED BY <1>1, <1>2, <1>3

\* Where an item lies that is put at the place for the next one.
LEMMA PlaceAlong ==
    ASSUME RInv, items # << >>, NEW a \in Nat, Header <= a, a <= BufSize, HasRoom(a),
           NEW t, t = IF Placement + a > BufSize THEN Placement + a - BufSize
                      ELSE Placement + a
    PROVE  /\ Along(Placement) = TailAlong + Gap(tail)
           /\ Along(Placement) + a < BufSize + items[1].at
           /\ Along(Placement) + a = IF t > items[1].at THEN t ELSE t + BufSize
           /\ capacity - Taken(a) = BufSize + items[1].at - (Along(Placement) + a)
           /\ capacity - Taken(a) > 0
<1>0. /\ items[1].at \in Nat /\ items[1].at + Header <= BufSize
      /\ TailAlong \in Nat /\ capacity \in Nat /\ Gap(tail) \in Nat
      /\ Placement \in Nat /\ tail \in Nat
  <2>1. Typed /\ capacity \in Nat /\ tail \in Nat /\ tail \in 0 .. BufSize
    BY TypedFacts DEF RInv
  <2>2. Gap(tail) \in Nat /\ Placement \in Nat
    BY <2>1, PlacementFacts
  <2> QED BY <2>1, <2>2, AlongFacts
<1>1. PICK f \in Nat, e \in Nat, c \in Nat, g \in Nat, at \in Nat, w \in Nat :
        /\ f = items[1].at /\ e = TailAlong /\ c = capacity /\ g = Gap(tail)
        /\ at = Placement /\ w = tail
        /\ f + Header <= BufSize
  BY <1>0
<1>2. /\ BufSize \in Nat /\ Header \in Nat /\ Header > 0 /\ w <= BufSize
      /\ e = IF w > f THEN w ELSE w + BufSize
      /\ at = IF BufSize - w < Header THEN 0 ELSE w
      /\ g = IF BufSize - w < Header THEN BufSize - w ELSE 0
      /\ Along(at) = IF at >= f THEN at ELSE at + BufSize
  BY <1>1, TypedFacts, PlacementFacts DEF RInv, TailAlong, Along
<1>3. /\ c = BufSize + f - e /\ c > a
      /\ (BufSize - w <= Header => c - (BufSize - w) > a)
  BY <1>1 DEF RInv, InLine, HasRoom
<1>4. PICK d \in Nat : d = Along(at)
  BY <1>2
<1>5. /\ d = e + g /\ d + a < BufSize + f
      /\ d + a = IF t > f THEN t ELSE t + BufSize
  <2>1. t \in Int
    BY <1>1, <1>2
  <2>2. t = IF at + a > BufSize THEN at + a - BufSize ELSE at + a
    BY <1>1
  <2>3. d = IF at >= f THEN at ELSE at + BufSize
    BY <1>2, <1>4
  <2>4. /\ Header > 0 /\ f + Header <= BufSize /\ w <= BufSize /\ Header <= a
        /\ e = IF w > f THEN w ELSE w + BufSize
        /\ at = IF BufSize - w < Header THEN 0 ELSE w
        /\ g = IF BufSize - w < Header THEN BufSize - w ELSE 0
        /\ Header \in Nat /\ BufSize \in Nat
    BY <1>1, <1>2
  <2> QED BY <1>3, <2>1, <2>2, <2>3, <2>4, PlaceArithmetic
<1>6. c - (g + a) = BufSize + f - (d + a) /\ c - (g + a) > 0
  BY <1>2, <1>3, <1>5
<1> QED BY <1>1, <1>4, <1>5, <1>6 DEF Taken

\* An allocation that puts the item j behind the others.
NewItem(j) ==
    /\ Placed(j) /\ j.at = Placement /\ walk.op = "none" /\ HasRoom(Total(j))
    /\ mem' = [p \in Offset |-> IF p = j.at THEN NvLine(j.keylen, j.vallen, "WRITING")
                                ELSE IF p \in HeaderOf(j) THEN Bytes ELSE mem[p]]
    /\ tail' = EndOf(j.at, j)
    /\ capacity' = capacity - Taken(Total(j))
    /\ items' \in Seq(Item) /\ Len(items') = Len(items) + 1
    /\ \A n \in 1 .. Len(items) : items'[n] = items[n]
    /\ items'[Len(items) + 1] = j
    /\ UNCHANGED <<head, next, walk, exited, behind, lost>>

LEMMA AllocateDoes ==
    ASSUME RInv, NEW s \in Sizes, Allocate(s[1], s[2])
    PROVE  \E j : NewItem(j) /\ items' = Append(items, j)
<1>1. PICK k \in Nat, v \in Nat, at \in 0 .. BufSize - Header :
        /\ k = s[1] /\ v = s[2] /\ at = Placement /\ Header + k + v <= BufSize
  BY TypedFacts, PlacementFacts DEF RInv
<1>0. PICK l : l = NvLine(k, v, "WRITING")
  OBVIOUS
<1>2. PICK j : j = [at |-> at, keylen |-> k, vallen |-> v]
  OBVIOUS
<1>3. /\ j.at = at /\ j.keylen = k /\ j.vallen = v /\ j \in Item
      /\ Total(j) = Header + k + v
  BY <1>1, <1>2 DEF Item, Total
<1>4. /\ walk.op = "none" /\ HasRoom(Header + k + v)
      /\ mem' = [p \in Offset |-> IF p = at THEN l
                                  ELSE IF p \in at + 1 .. at + Header - 1 THEN Bytes
                                  ELSE mem[p]]
      /\ tail' = EndOf(at, l) /\ capacity' = capacity - Taken(Header + k + v)
      /\ items' = Append(items, j)
      /\ UNCHANGED <<head, next, walk, exited, behind, lost>>
  BY <1>0, <1>1, <1>2 DEF Allocate
<1>5. EndOf(at, l) = EndOf(at, j)
  BY <1>0, <1>1, <1>3, SameFollowing DEF NvLine
<1>6. \A p \in Offset : p # at => (p \in at + 1 .. at + Header - 1 <=> p \in HeaderOf(j))
  BY <1>1, <1>3 DEF HeaderOf, Offset
<1>7. mem' = [p \in Offset |-> IF p = j.at THEN NvLine(j.keylen, j.vallen, "WRITING")
                               ELSE IF p \in HeaderOf(j) THEN Bytes ELSE mem[p]]
  <2>1. l = NvLine(j.keylen, j.vallen, "WRITING")
    BY <1>0, <1>3
  <2> QED BY <1>3, <1>4, <1>6, <2>1
<1>8. /\ items' \in Seq(Item) /\ Len(items') = Len(items) + 1
      /\ \A n \in 1 .. Len(items) : items'[n] = items[n]
      /\ items'[Len(items) + 1] = j
  <2>1. items \in Seq(Item)
    BY TypedFacts DEF RInv
  <2> QED BY <1>3, <1>4, <2>1
<1>9. Placed(j)
  BY <1>1, <1>3 DEF Placed
<1>10. NewItem(j)
  BY <1>1, <1>3, <1>4, <1>5, <1>7, <1>8, <1>9 DEF NewItem
<1> QED BY <1>4, <1>10

\* Where the new item ends, counted along, and what is left then.
LEMMA NewTail ==
    ASSUME RInv, NEW j, NewItem(j)
    PROVE  /\ items'[1] = IF items = << >> THEN j ELSE items[1]
           /\ tail' \in 0 .. BufSize
           /\ capacity' = BufSize + items'[1].at - TailAlong' /\ capacity' > 0
           /\ capacity' \in Nat
           /\ TailAlong' = IF items = << >> THEN j.at + Total(j)
                           ELSE Along(j.at) + Total(j)
           /\ items # << >> => /\ TailAlong <= Along(j.at)
                               /\ Along(j.at) + Total(j) <= items[1].at + BufSize
<1>1. PICK a \in Nat, at \in Nat, t \in Nat :
        /\ a = Total(j) /\ at = j.at /\ t = tail' /\ Header <= a /\ a <= BufSize
        /\ t = IF at + a > BufSize THEN at + a - BufSize ELSE at + a
        /\ t <= BufSize /\ at + Header <= BufSize
  <2>1. Placed(j) /\ tail' = EndOf(j.at, j)
    BY DEF NewItem
  <2> QED BY <2>1, ItemFacts, EndFacts
<1>2. /\ HasRoom(a) /\ capacity' = capacity - Taken(a) /\ at = Placement
  BY <1>1 DEF NewItem
<1>3. capacity \in Nat /\ tail \in 0 .. BufSize /\ Gap(tail) \in Nat /\ Taken(a) = Gap(tail) + a
  BY TypedFacts, PlacementFacts DEF RInv, Taken
<1>4. CASE items = << >>
  <2>1. Len(items) = 0 /\ items'[1] = j
    BY <1>4 DEF NewItem
  <2>2. capacity = BufSize + Gap(tail)
    BY <1>4 DEF RInv, InLine
  <2>3. a < BufSize
    <3>1. capacity > a /\ (BufSize - tail <= Header => capacity - (BufSize - tail) > a)
      BY <1>2 DEF HasRoom
    <3>2. Gap(tail) = IF BufSize - tail < Header THEN BufSize - tail ELSE 0
      BY <1>3, PlacementFacts
    <3> QED BY <1>3, <2>2, <3>1, <3>2
  <2>4. capacity' = BufSize - a
    BY <1>2, <1>3, <2>2
  <2>5. TailAlong' = at + a
    <3>1. TailAlong' = IF t > at THEN t ELSE t + BufSize
      BY <1>1, <2>1 DEF TailAlong
    <3> QED BY <1>1, <2>3, <3>1
  <2>6. items'[1].at = at
    BY <1>1, <2>1
  <2> QED BY <1>1, <1>4, <2>1, <2>3, <2>4, <2>5, <2>6, SMTT(30)
<1>5. CASE items # << >>
  <2>1. items'[1] = items[1]
    BY <1>5, AlongFacts DEF RInv, NewItem
  <2>2. /\ Along(at) = TailAlong + Gap(tail)
        /\ Along(at) + a < BufSize + items[1].at
        /\ Along(at) + a = IF t > items[1].at THEN t ELSE t + BufSize
        /\ capacity' = BufSize + items[1].at - (Along(at) + a)
        /\ capacity' > 0
    BY <1>1, <1>2, <1>5, PlaceAlong, SMTT(30)
  <2>3. TailAlong' = Along(at) + a
    BY <1>1, <2>1, <2>2 DEF TailAlong
  <2>4. TailAlong \in Nat /\ items[1].at \in Nat
    BY <1>5, AlongFacts DEF RInv
  <2>5. capacity' \in Nat /\ TailAlong <= Along(at) /\ Along(at) + a <= items[1].at + BufSize
    BY <1>3, <2>2, <2>4
  <2> QED BY <1>1, <1>5, <2>1, <2>2, <2>3, <2>5
<1> QED BY <1>4, <1>5

LEMMA NewAlong ==
    ASSUME RInv, NEW j, NewItem(j), items # << >>
    PROVE  \A p : Along(p)' = Along(p)
BY NewTail DEF Along

LEMMA NewInLine ==
    ASSUME RInv, NEW j, NewItem(j)
    PROVE  InLine'
<1>0. PICK L \in Nat : L = Len(items) /\ Len(items') = L + 1
  BY TypedFacts DEF RInv, NewItem
<1>1. items' # << >> /\ items' \in Seq(Item)
  BY <1>0 DEF NewItem
<1>2. /\ \A n \in 1 .. L : items'[n] = items[n]
      /\ items'[L + 1] = j /\ Placed(j) /\ j.at = Placement
      /\ tail' = EndOf(j.at, j)
  BY <1>0 DEF NewItem
<1>3. /\ capacity' = BufSize + items'[1].at - TailAlong' /\ capacity' > 0
      /\ tail' = EndOf(items'[Len(items')].at, items'[Len(items')])
  BY <1>0, <1>2, NewTail
<1>4. CASE items = << >>
  <2>1. L = 0 /\ Along(j.at)' = j.at
    <3>1. items'[1] = j /\ j.at \in Nat
      BY <1>2, <1>4, NewTail, ItemFacts
    <3> QED BY <1>0, <1>4, <3>1 DEF Along
  <2>2. Along(j.at)' + Total(j) <= TailAlong'
    BY <1>2, <1>4, <2>1, NewTail, ItemFacts
  <2>3. \A m \in 1 .. L + 1 : m = 1 /\ items'[m] = j
    BY <1>2, <2>1
  <2>4. 1 .. L + 1 - 1 = {}
    BY <2>1
  <2> QED BY <1>0, <1>1, <1>3, <2>2, <2>3, <2>4 DEF InLine, Along
<1>5. CASE items # << >>
  <2>1. \A p : Along(p)' = Along(p)
    BY <1>5, NewAlong
  <2>2. TailAlong <= Along(j.at) /\ TailAlong' = Along(j.at) + Total(j)
    BY <1>5, NewTail
  <2>3. TailAlong \in Nat /\ Along(j.at) \in Nat /\ Total(j) \in Nat
    BY <1>2, <1>5, AlongFacts, ItemFacts DEF RInv
  <2>4. ASSUME NEW n \in 1 .. L
        PROVE  /\ Along(items[n].at) + Total(items[n]) <= Along(j.at)
               /\ Along(items[n].at) + Total(items[n]) <= TailAlong'
    BY <1>0, <2>2, <2>3, ItemSpan DEF RInv
  <2>5. ASSUME NEW m \in 1 .. L + 1, NEW n \in 1 .. L + 1, m < n
        PROVE  Along(items'[m].at) + Total(items'[m]) <= Along(items'[n].at)
    <3>1. CASE n = L + 1
      BY <1>2, <2>4, <2>5, <3>1
    <3>2. CASE n # L + 1
      <4>1. m \in 1 .. L /\ n \in 1 .. L
        BY <2>5, <3>2
      <4> QED BY <1>0, <1>2, <2>5, <4>1 DEF RInv, InLine
    <3> QED BY <3>1, <3>2
  <2>6. ASSUME NEW n \in 1 .. L + 1
        PROVE  Along(items'[n].at) + Total(items'[n]) <= TailAlong'
    <3>1. CASE n = L + 1
      BY <1>2, <2>2, <2>3, <3>1
    <3>2. CASE n # L + 1
      BY <1>2, <2>4, <3>2
    <3> QED BY <3>1, <3>2
  <2>7. ASSUME NEW n \in 1 .. L + 1 - 1
        PROVE  Following(items'[n].at, items'[n]) = items'[n + 1].at
    <3>1. n \in 1 .. L
      OBVIOUS
    <3>2. Following(items[n].at, items[n]) = IF n = L THEN Placement ELSE items[n + 1].at
      BY <1>0, <3>1, FollowingItem DEF RInv
    <3>3. n # L => n + 1 \in 1 .. L
      OBVIOUS
    <3> QED BY <1>2, <3>1, <3>2, <3>3
  <2> QED BY <1>0, <1>1, <1>3, <2>1, <2>5, <2>6, <2>7 DEF InLine
<1> QED BY <1>4, <1>5

\* The new item shares no byte with the others.
LEMMA NewApart ==
    ASSUME RInv, NEW j, NewItem(j), NEW n \in 1 .. Len(items)
    PROVE  /\ Footprint(items[n]) \cap Footprint(j) = {}
           /\ items[n].at # j.at /\ items[n].at \notin HeaderOf(j)
<1>1. Placed(j) /\ items # << >> /\ Typed /\ InLine
  BY ItemsPlaced DEF RInv, NewItem
<1>2. /\ TailAlong <= Along(j.at) /\ Along(j.at) + Total(j) <= items[1].at + BufSize
      /\ TailAlong \in Nat /\ Along(j.at) \in Nat
  BY <1>1, NewTail, AlongFacts, ItemFacts
<1>3. Footprint(items[n]) \cap Footprint(j) = {}
  <2> SUFFICES ASSUME NEW x \in Footprint(items[n]), x \in Footprint(j) PROVE FALSE
    OBVIOUS
  <2>1. Along(x) \in Nat /\ Along(x) < TailAlong
    <3>1. /\ Along(x) \in Nat /\ Along(x) < Along(items[n].at) + Total(items[n])
          /\ Along(items[n].at) + Total(items[n]) <= TailAlong
          /\ Along(items[n].at) \in Nat /\ Total(items[n]) \in Nat
      BY <1>1, ItemSpan
    <3> QED BY <1>2, <3>1
  <2>2. Along(j.at) <= Along(x)
    BY <1>1, <1>2, SpanOf
  <2> QED BY <1>2, <2>1, <2>2
<1>4. items[n].at \in HeaderOf(items[n]) /\ j.at \in HeaderOf(j)
  <2>1. Placed(items[n])
    BY <1>1, ItemsPlaced
  <2> QED BY <1>1, <2>1, ItemFacts DEF HeaderOf
<1> QED BY <1>3, <1>4 DEF Footprint

LEMMA NewHeaded ==
    ASSUME RInv, NEW j, NewItem(j)
    PROVE  /\ Headed' /\ mem' \in [Offset -> Line]
           /\ \A p \in Offset : Total(mem'[p]) <= BufSize
<1> DEFINE l == NvLine(j.keylen, j.vallen, "WRITING")
<1>0. PICK L \in Nat : L = Len(items) /\ Len(items') = L + 1 /\ behind \in 0 .. L
  BY TypedFacts DEF RInv, NewItem
<1>1. /\ mem' = [p \in Offset |-> IF p = j.at THEN l
                                  ELSE IF p \in HeaderOf(j) THEN Bytes ELSE mem[p]]
      /\ \A n \in 1 .. L : items'[n] = items[n]
      /\ items'[L + 1] = j /\ behind' = behind /\ Placed(j)
  BY <1>0 DEF NewItem
<1>2. /\ j.at \in Offset /\ l \in Line /\ Bytes \in Line /\ mem \in [Offset -> Line]
      /\ Total(l) <= BufSize /\ Total(Bytes) <= BufSize
  BY <1>1, ItemFacts, TypedFacts DEF RInv, NvLine, Bytes, Line, States, Total
<1>3. /\ l.keylen = j.keylen /\ l.vallen = j.vallen /\ l.state = "WRITING"
      /\ Bytes.state \notin Active
  BY DEF NvLine, Bytes, Active
<1> HIDE DEF l
<1>4. mem' \in [Offset -> Line]
  BY <1>1, <1>2
<1>5. \A p \in Offset : Total(mem'[p]) <= BufSize
  BY <1>1, <1>2 DEF RInv, Typed
<1>6. ASSUME NEW n \in 1 .. L PROVE mem'[items[n].at] = mem[items[n].at]
  BY <1>0, <1>1, NewApart, ItemsPlaced DEF RInv
<1>7. ASSUME NEW n \in 1 .. L + 1
      PROVE  /\ mem'[items'[n].at].keylen = items'[n].keylen
             /\ mem'[items'[n].at].vallen = items'[n].vallen
             /\ mem'[items'[n].at].state \in Active \cup {"CONSUMED"}
             /\ n <= behind => mem'[items'[n].at].state \in Claimed
  <2>1. CASE n = L + 1
    <3>1. mem'[items'[n].at] = l /\ items'[n] = j /\ ~(n <= behind)
      BY <1>0, <1>1, <1>2, <2>1
    <3> QED BY <1>3, <3>1 DEF Active
  <2>2. CASE n # L + 1
    <3>1. n \in 1 .. L
      BY <2>2
    <3> QED BY <1>0, <1>1, <1>6, <3>1 DEF RInv, Headed, StateOf
  <2> QED BY <2>1, <2>2
<1>8. ASSUME NEW p \in Offset, mem'[p].state \in Active
      PROVE  \E n \in 1 .. L + 1 : items'[n].at = p
  <2>1. CASE p = j.at
    <3>1. L + 1 \in 1 .. L + 1 /\ items'[L + 1].at = p
      BY <1>1, <2>1
    <3> QED BY <3>1
  <2>2. CASE p # j.at
    <3>1. mem'[p] = mem[p]
      BY <1>1, <1>3, <1>8, <2>2
    <3>2. PICK n \in 1 .. L : items[n].at = p
      BY <1>0, <1>8, <3>1 DEF RInv, Headed
    <3>3. n \in 1 .. L + 1 /\ items'[n].at = p
      BY <1>1, <3>2
    <3> QED BY <3>3
  <2> QED BY <2>1, <2>2
<1> QED BY <1>0, <1>1, <1>4, <1>5, <1>7, <1>8 DEF Headed, StateOf

LEMMA NewPointed ==
    ASSUME RInv, NEW j, NewItem(j)
    PROVE  Pointed'
<1>0. PICK L \in Nat : L = Len(items) /\ Len(items') = L + 1 /\ behind \in 0 .. L
  BY TypedFacts DEF RInv, NewItem
<1>1. /\ walk.op = "none" /\ UNCHANGED <<head, next, walk, behind>>
      /\ \A n \in 1 .. L : items'[n] = items[n]
      /\ items'[L + 1] = j /\ j.at = Placement /\ items' \in Seq(Item)
  BY <1>0 DEF NewItem
<1>2. items' # << >>
  BY <1>0, <1>1
<1>3. Front' = Front
  BY <1>1, <1>2, NewTail DEF Front
<1>4. next = IF behind = L THEN Placement ELSE items[behind + 1].at
  BY <1>0, <1>1 DEF RInv, Pointed
<1>5. behind # L + 1 /\ next = items'[behind + 1].at
  <2>1. behind # L => behind + 1 \in 1 .. L
    BY <1>0
  <2> QED BY <1>0, <1>1, <1>4, <2>1
<1> QED BY <1>0, <1>1, <1>3, <1>5 DEF RInv, Pointed

LEMMA UsedFinite ==
    ASSUME Typed
    PROVE  IsFiniteSet(Used) /\ Cardinality(Used) \in Nat
<1>1. ASSUME NEW n \in 1 .. Len(items) PROVE Footprint(items[n]) \subseteq Offset
  BY ItemsPlaced, FootprintIs
<1>2. Used \subseteq Offset
  BY <1>1 DEF Used
<1>3. IsFiniteSet(Offset)
  BY FS_Interval DEF Offset
<1> QED BY <1>2, <1>3, FS_Subset, FS_CardinalityType

LEMMA NewCounted ==
    ASSUME RInv, NEW j, NewItem(j)
    PROVE  AccountingExact'
<1>0. PICK L \in Nat : L = Len(items) /\ Len(items') = L + 1
  BY TypedFacts DEF RInv, NewItem
<1>1. /\ \A n \in 1 .. L : items'[n] = items[n]
      /\ items'[L + 1] = j /\ Placed(j) /\ j.at = Placement /\ items' \in Seq(Item)
      /\ capacity' = capacity - Taken(Total(j))
  BY <1>0 DEF NewItem
<1>2. items' # << >> /\ (items = << >> <=> L = 0)
  BY <1>0, <1>1, TypedFacts DEF RInv
<1>3. Used' = Used \cup Footprint(j)
  <2>1. ASSUME NEW x, x \in Used' PROVE x \in Used \cup Footprint(j)
    <3>1. PICK n \in 1 .. L + 1 : x \in Footprint(items'[n])
      BY <1>0, <2>1 DEF Used
    <3>2. n = L + 1 \/ n \in 1 .. L
      OBVIOUS
    <3> QED BY <1>0, <1>1, <3>1, <3>2 DEF Used
  <2>2. ASSUME NEW x \in Used PROVE x \in Used'
    <3>1. PICK n \in 1 .. L : x \in Footprint(items[n])
      BY <1>0 DEF Used
    <3>2. n \in 1 .. L + 1 /\ items'[n] = items[n]
      BY <1>1
    <3> QED BY <1>0, <3>1, <3>2 DEF Used
  <2>3. ASSUME NEW x \in Footprint(j) PROVE x \in Used'
    <3>1. L + 1 \in 1 .. L + 1
      OBVIOUS
    <3> QED BY <1>0, <1>1, <3>1 DEF Used
  <2> QED BY <2>1, <2>2, <2>3
<1>4. Used \cap Footprint(j) = {}
  BY NewApart DEF Used
<1>5. /\ Cardinality(Used') = Cardinality(Used) + Total(j)
      /\ Cardinality(Used) \in Nat /\ Total(j) \in Nat
  <2>1. /\ IsFiniteSet(Used) /\ Cardinality(Used) \in Nat
        /\ IsFiniteSet(Footprint(j)) /\ Cardinality(Footprint(j)) = Total(j)
        /\ Total(j) \in Nat
    BY <1>1, UsedFinite, FootprintCount, ItemFacts DEF RInv
  <2>2. Cardinality(Used \cup Footprint(j)) =
           Cardinality(Used) + Cardinality(Footprint(j)) - Cardinality(Used \cap Footprint(j))
    BY <2>1, FS_Union
  <2>3. Cardinality(Used \cap Footprint(j)) = 0
    BY <1>4, FS_EmptySet
  <2> QED BY <1>3, <2>1, <2>2, <2>3
<1>6. SkippedGap \in Nat /\ SkippedGap' = SkippedGap + (IF L = 0 THEN 0 ELSE Gap(tail))
  <2>1. ASSUME NEW n \in 1 .. L PROVE GapOf(items'[n]) = GapAfter(n)
    BY <1>1 DEF GapAfter
  <2>2. L # 0 => GapAfter(L) = Gap(tail)
    BY <1>0, <1>2 DEF RInv, InLine, GapAfter, GapOf
  <2>3. PICK G : G = {n \in 1 .. L : GapAfter(n) > 0}
    OBVIOUS
  <2>4. Gaps = {n \in 1 .. L - 1 : GapAfter(n) > 0}
    BY <1>0 DEF Gaps
  <2>5. Gap(tail) \in Nat
    BY TypedFacts, PlacementFacts DEF RInv
  <2>6. SkippedGap' = IF G = {} THEN 0 ELSE GapOf(items'[CHOOSE n \in G : TRUE])
    <3>1. G = {n \in 1 .. Len(items') - 1 : GapOf(items'[n]) > 0}
      BY <1>0, <2>1, <2>3
    <3> QED BY <3>1 DEF SkippedGap, GapOf
  <2>7. CASE L = 0
    <3>1. Gaps = {} /\ G = {}
      BY <2>3, <2>4, <2>7
    <3> QED BY <2>6, <2>7, <3>1, SkippedIs
  <2>8. CASE L # 0 /\ Gap(tail) = 0
    <3>1. G = Gaps
      BY <2>2, <2>3, <2>4, <2>8
    <3>2. CASE Gaps = {}
      BY <2>6, <2>8, <3>1, <3>2, SkippedIs
    <3>3. CASE Gaps # {}
      <4>1. PICK n \in Gaps : n = CHOOSE m \in Gaps : TRUE
        BY <3>3
      <4>2. n \in 1 .. L /\ GapAfter(n) \in Nat
        <5>1. Placed(items[n]) /\ n \in 1 .. L
          BY <1>0, <2>4, ItemsPlaced DEF RInv
        <5> QED BY <5>1, EndFacts DEF GapAfter, GapOf, Gap
      <4> QED BY <2>1, <2>6, <2>8, <3>1, <3>3, <4>1, <4>2, SkippedIs
    <3> QED BY <2>8, <3>2, <3>3
  <2>9. CASE L # 0 /\ Gap(tail) # 0
    <3>1. Gaps = {}
      <4> SUFFICES ASSUME NEW n \in Gaps PROVE FALSE
        OBVIOUS
      <4>1. n + 1 \in 1 .. L /\ items[n + 1].at = 0
        BY <1>0, AfterGap DEF RInv
      <4>2. j.at = 0
        BY <1>1, <2>9, TypedFacts, PlacementFacts DEF RInv
      <4> QED BY <1>0, <4>1, <4>2, NewApart
    <3>2. G = {L}
      BY <2>2, <2>3, <2>4, <2>5, <2>9, <3>1
    <3>3. (CHOOSE n \in G : TRUE) = L
      BY <3>2, OneChoice
    <3>4. SkippedGap' = GapOf(items'[L])
      BY <2>6, <3>2, <3>3
    <3> QED BY <2>1, <2>2, <2>5, <2>9, <3>1, <3>4, SkippedIs
  <2> QED BY <2>7, <2>8, <2>9
<1>7. /\ capacity = BufSize - Cardinality(Used) - SkippedGap
                     + (IF L = 0 THEN Gap(tail) ELSE 0)
  BY <1>2 DEF RInv, AccountingExact
<1>8. Taken(Total(j)) = Gap(tail) + Total(j) /\ Gap(tail) \in Nat
  BY TypedFacts, PlacementFacts DEF RInv, Taken
<1>9. capacity' = BufSize - Cardinality(Used') - SkippedGap'
  BY <1>1, <1>5, <1>6, <1>7, <1>8, SMTT(30)
<1> QED BY <1>2, <1>9 DEF AccountingExact

LEMMA AllocateKeeps ==
    ASSUME RInv, NEW s \in Sizes, Allocate(s[1], s[2])
    PROVE  RInv'
<1>1. PICK j : NewItem(j)
  BY AllocateDoes
<1>2. /\ UNCHANGED <<head, next, walk, exited, behind, lost>>
      /\ items' \in Seq(Item) /\ Len(items') = Len(items) + 1
      /\ \A n \in 1 .. Len(items) : items'[n] = items[n]
      /\ items'[Len(items) + 1] = j /\ Placed(j)
  BY <1>1 DEF NewItem
<1>3. tail' \in 0 .. BufSize /\ capacity' \in Nat /\ mem' \in [Offset -> Line]
  BY <1>1, NewTail, NewHeaded
<1>4. TypeOK'
  BY <1>2, <1>3 DEF RInv, Typed, TypeOK, Line
<1>5. Typed'
  <2>1. Len(items) \in Nat /\ behind \in 0 .. Len(items)
    BY TypedFacts DEF RInv
  <2>2. \A n \in 1 .. Len(items) + 1 : Total(items'[n]) <= BufSize
    <3>1. \A n \in 1 .. Len(items) + 1 : n \in 1 .. Len(items) \/ n = Len(items) + 1
      BY <2>1
    <3> QED BY <1>2, <3>1 DEF Placed, RInv, Typed
  <2>3. behind' \in 0 .. Len(items')
    BY <1>2, <2>1
  <2>4. \A p \in Offset : Total(mem'[p]) <= BufSize
    BY <1>1, NewHeaded
  <2> QED BY <1>2, <1>4, <2>2, <2>3, <2>4 DEF Typed
<1> QED BY <1>1, <1>5, NewInLine, NewHeaded, NewPointed, NewCounted DEF RInv

-----------------------------------------------------------------------------
(* NVDIMM_invalidate *)

\* A step of invalidate that frees the oldest item.
Frees ==
    /\ walk.op = "invalidate" /\ walk'.op = "invalidate"
    /\ walk'.at = Following(items[1].at, items[1])
    /\ walk' \in [op : {"none", "find", "invalidate"}, at : Offset, pastNext : BOOLEAN]
    /\ IF walk.pastNext \/ items[1].at = next THEN walk'.pastNext /\ behind = 0
       ELSE ~walk'.pastNext
    /\ StateOf(items[1]) = "CONSUMED"
    /\ capacity' = capacity + Total(items[1]) + GapAfter(1)
    /\ items # << >> /\ items' \in Seq(Item) /\ Len(items) = Len(items') + 1
    /\ \A n \in 1 .. Len(items') : items'[n] = items[n + 1]
    /\ behind' = IF behind = 0 THEN 0 ELSE behind - 1
    /\ UNCHANGED <<head, next, tail, mem, exited, lost>>

LEMMA InvalidateDoes ==
    ASSUME RInv, InvalidateItem, ~InvalidateGoesAstray(walk.at)
    PROVE  Frees /\ items' = Tail(items)
<1>1. /\ walk.op = "invalidate" /\ items # << >> /\ ~(walk.at = next /\ behind > 0)
      /\ capacity' = capacity + GivenBack(walk.at, mem[walk.at])
      /\ walk' = [walk EXCEPT !.at = Following(walk.at, mem[walk.at]),
                              !.pastNext = walk.pastNext \/ walk.at = next]
      /\ items' = Tail(items)
      /\ behind' = IF behind = 0 THEN 0 ELSE behind - 1
      /\ Evictable(mem[walk.at])
      /\ UNCHANGED <<head, next, tail, mem, exited, lost>>
  BY DEF InvalidateItem, InvalidateGoesAstray
<1>2. walk.at = items[1].at
  BY <1>1 DEF RInv, Pointed, Front
<1>3. /\ 1 \in 1 .. Len(items) /\ items \in Seq(Item) /\ behind \in Nat
      /\ walk \in [op : {"none", "find", "invalidate"}, at : Offset, pastNext : BOOLEAN]
  BY <1>1, TypedFacts, AlongFacts DEF RInv
<1>4. StateOf(items[1]) = "CONSUMED"
  BY <1>1, <1>2, <1>3 DEF RInv, Headed, StateOf, Evictable, Active
<1>5. /\ Following(walk.at, mem[walk.at]) = Following(items[1].at, items[1])
      /\ GivenBack(walk.at, mem[walk.at]) = Total(items[1]) + GapAfter(1)
  <2>1. /\ mem[items[1].at].keylen = items[1].keylen
        /\ mem[items[1].at].vallen = items[1].vallen
    BY <1>3 DEF RInv, Headed
  <2>2. /\ Following(items[1].at, mem[items[1].at]) = Following(items[1].at, items[1])
        /\ EndOf(items[1].at, mem[items[1].at]) = EndOf(items[1].at, items[1])
    BY <2>1, SameFollowing
  <2> QED BY <1>2, <2>1, <2>2 DEF GivenBack, GapAfter, GapOf, Total
<1>6. capacity' = capacity + Total(items[1]) + GapAfter(1)
  <2>1. Total(items[1]) \in Nat /\ GapAfter(1) \in Nat /\ capacity \in Nat
    <3>1. Placed(items[1])
      BY <1>3, ItemsPlaced DEF RInv
    <3> QED BY <3>1, ItemFacts, EndFacts, TypedFacts, SMTT(30) DEF RInv, GapAfter, GapOf, Gap
  <2> QED BY <1>1, <1>5, <2>1
<1>7. Following(items[1].at, items[1]) \in Offset
  BY <1>3, ItemsPlaced, EndFacts DEF RInv, Offset
<1>8. PICK b \in BOOLEAN : b = (walk.pastNext \/ walk.at = next)
  OBVIOUS
<1>9. walk' = [walk EXCEPT !.at = Following(items[1].at, items[1]), !.pastNext = b]
  BY <1>1, <1>5, <1>8
<1>10. /\ walk' \in [op : {"none", "find", "invalidate"}, at : Offset, pastNext : BOOLEAN]
       /\ walk'.op = "invalidate" /\ walk'.at = Following(items[1].at, items[1])
       /\ walk'.pastNext = b
  BY <1>1, <1>3, <1>7, <1>9
<1>11. b => behind = 0
  <2>1. walk.pastNext => behind = 0
    BY <1>1 DEF RInv, Pointed
  <2> QED BY <1>1, <1>3, <1>8, <2>1
<1>12. IF walk.pastNext \/ items[1].at = next THEN walk'.pastNext /\ behind = 0
       ELSE ~walk'.pastNext
  BY <1>2, <1>8, <1>10, <1>11
<1>13. /\ items' \in Seq(Item) /\ Len(items) = Len(items') + 1
       /\ \A n \in 1 .. Len(items') : items'[n] = items[n + 1]
  BY <1>1, <1>3
<1> QED BY <1>1, <1>4, <1>6, <1>10, <1>12, <1>13 DEF Frees

\* The arithmetic of freeing: the oldest item is at f and takes a bytes; after it the
\* next one is at s, the end of the items at w, and p is an offset from s on.
LEMMA FreeArithmetic ==
    ASSUME NEW b \in Nat, NEW h \in Nat, NEW f \in Nat, NEW a \in Nat,
           h > 0, f + h <= b, h <= a, a <= b,
           NEW e \in Nat, e = IF f + a > b THEN f + a - b ELSE f + a,
           NEW s \in Nat, s = IF b - e < h THEN 0 ELSE e,
           NEW g \in Nat, g = IF b - e < h THEN b - e ELSE 0,
           NEW d \in Nat, d = IF s >= f THEN s ELSE s + b, f + a <= d, d < f + b
    PROVE  /\ d = f + a + g
           /\ d = s \/ d = s + b
           /\ \A p \in Nat, q \in Nat :
                 p < b /\ q = (IF p >= f THEN p ELSE p + b) /\ q >= d
                 => (IF p >= s THEN p ELSE p + b) + d = q + s
           /\ \A w \in Nat, t \in Nat :
                 w <= b /\ t = (IF w > f THEN w ELSE w + b) /\ t > d
                 => (IF w > s THEN w ELSE w + b) + d = t + s
<1>1. d = f + a + g
  <2>1. CASE f + a > b
    <3>1. e = f + a - b /\ b - e >= h
      <4>1. f + a < f + b
        OBVIOUS
      <4> QED BY <2>1, <4>1
    <3> QED BY <2>1, <3>1
  <2>2. CASE ~(f + a > b) /\ b - e < h
    BY <2>2
  <2>3. CASE ~(f + a > b) /\ ~(b - e < h)
    BY <2>3
  <2> QED BY <2>1, <2>2, <2>3
<1>2. CASE s >= f
  <2>1. d = s
    BY <1>2
  <2>2. ASSUME NEW p \in Nat, NEW q \in Nat,
               p < b, q = (IF p >= f THEN p ELSE p + b), q >= d
        PROVE  (IF p >= s THEN p ELSE p + b) + d = q + s
    BY <1>2, <2>1, <2>2
  <2>3. ASSUME NEW w \in Nat, NEW t \in Nat,
               w <= b, t = (IF w > f THEN w ELSE w + b), t > d
        PROVE  (IF w > s THEN w ELSE w + b) + d = t + s
    BY <1>2, <2>1, <2>3
  <2> QED BY <1>1, <2>1, <2>2, <2>3
<1>3. CASE ~(s >= f)
  <2>1. d = s + b
    BY <1>3
  <2>2. ASSUME NEW p \in Nat, NEW q \in Nat,
               p < b, q = (IF p >= f THEN p ELSE p + b), q >= d
        PROVE  (IF p >= s THEN p ELSE p + b) + d = q + s
    BY <1>3, <2>1, <2>2
  <2>3. ASSUME NEW w \in Nat, NEW t \in Nat,
               w <= b, t = (IF w > f THEN w ELSE w + b), t > d
        PROVE  (IF w > s THEN w ELSE w + b) + d = t + s
    BY <1>3, <2>1, <2>3
  <2> QED BY <1>1, <2>1, <2>2, <2>3
<1> QED BY <1>2, <1>3

\* How the offsets count along once the oldest item is gone.
LEMMA FreedAlong ==
    ASSUME RInv, Frees, items' # << >>
    PROVE  /\ 2 \in 1 .. Len(items) /\ items'[1] = items[2]
           /\ items[2].at \in Nat
           /\ Along(items[2].at) \in Nat
           /\ Along(items[2].at) = items[1].at + Total(items[1]) + GapAfter(1)
           /\ \A n \in 2 .. Len(items) : Along(items[2].at) <= Along(items[n].at)
           /\ \A p \in Offset : Along(items[2].at) <= Along(p)
                 => Along(p)' + Along(items[2].at) = Along(p) + items[2].at
           /\ TailAlong' + Along(items[2].at) = TailAlong + items[2].at
           /\ TailAlong' \in Nat
<1>1. /\ items # << >> /\ Len(items) = Len(items') + 1 /\ items' \in Seq(Item)
      /\ \A n \in 1 .. Len(items') : items'[n] = items[n + 1]
      /\ UNCHANGED tail
  BY DEF Frees
<1>2. Len(items) \in Nat /\ Len(items') \in Nat /\ Len(items') >= 1
  BY <1>1, TypedFacts DEF RInv
<1>3. /\ 1 \in 1 .. Len(items) /\ 2 \in 1 .. Len(items) /\ 1 \in 1 .. Len(items) - 1
      /\ items'[1] = items[2]
  BY <1>1, <1>2
<1>4. PICK f \in Nat, a \in Nat, e \in Nat, s \in Nat, g \in Nat :
        /\ f = items[1].at /\ a = Total(items[1])
        /\ e = EndOf(items[1].at, items[1]) /\ s = items[2].at /\ g = GapAfter(1)
        /\ f + Header <= BufSize /\ Header <= a /\ a <= BufSize
        /\ e = IF f + a > BufSize THEN f + a - BufSize ELSE f + a
        /\ s = IF BufSize - e < Header THEN 0 ELSE e
        /\ g = IF BufSize - e < Header THEN BufSize - e ELSE 0
  <2>1. Placed(items[1]) /\ Placed(items[2])
    BY <1>3, ItemsPlaced DEF RInv
  <2>2. /\ items[1].at \in Nat /\ Total(items[1]) \in Nat /\ items[2].at \in Nat
        /\ items[1].at + Header <= BufSize /\ Header <= Total(items[1])
        /\ Total(items[1]) <= BufSize
    BY <2>1, ItemFacts
  <2>3. PICK f \in Nat, a \in Nat, s \in Nat :
          f = items[1].at /\ a = Total(items[1]) /\ s = items[2].at
    BY <2>2
  <2>4. PICK e \in Nat : /\ e = EndOf(items[1].at, items[1]) /\ e <= BufSize
                         /\ e = IF f + a > BufSize THEN f + a - BufSize ELSE f + a
    <3>1. /\ EndOf(items[1].at, items[1]) \in Nat
          /\ EndOf(items[1].at, items[1]) <= BufSize
          /\ EndOf(items[1].at, items[1]) = IF f + a > BufSize THEN f + a - BufSize
                                            ELSE f + a
      BY <2>1, <2>3, EndFacts, SMTT(30)
    <3> QED BY <3>1
  <2>5. s = IF BufSize - e < Header THEN 0 ELSE e
    <3>1. items[2].at = Following(items[1].at, items[1])
      BY <1>3 DEF RInv, InLine
    <3> QED BY <2>1, <2>3, <2>4, <3>1, EndFacts
  <2>6. PICK g \in Nat : /\ g = GapAfter(1)
                         /\ g = IF BufSize - e < Header THEN BufSize - e ELSE 0
    <3>1. GapAfter(1) = IF BufSize - e < Header THEN BufSize - e ELSE 0
      BY <2>4 DEF GapAfter, GapOf, Gap
    <3>2. (IF BufSize - e < Header THEN BufSize - e ELSE 0) \in Nat
      BY <2>4
    <3> QED BY <3>1, <3>2
  <2> QED BY <2>2, <2>3, <2>4, <2>5, <2>6
<1>5. PICK d \in Nat : /\ d = Along(items[2].at) /\ f + a <= d /\ d < f + BufSize
                       /\ d = IF s >= f THEN s ELSE s + BufSize
  <2>1. items[2].at \in Offset /\ Along(items[2].at) = IF s >= f THEN s ELSE s + BufSize
    BY <1>3, <1>4, ItemsPlaced DEF RInv, Along
  <2>2. Along(items[1].at) + Total(items[1]) <= Along(items[2].at)
    BY <1>3 DEF RInv, InLine
  <2>3. Along(items[1].at) = f
    BY <1>4 DEF Along
  <2> QED BY <1>1, <1>4, <2>1, <2>2, <2>3, AlongFacts DEF RInv
<1>6. /\ d = f + a + g
      /\ \A p \in Nat, q \in Nat :
            p < BufSize /\ q = (IF p >= f THEN p ELSE p + BufSize) /\ q >= d
            => (IF p >= s THEN p ELSE p + BufSize) + d = q + s
      /\ \A w \in Nat, t \in Nat :
            w <= BufSize /\ t = (IF w > f THEN w ELSE w + BufSize) /\ t > d
            => (IF w > s THEN w ELSE w + BufSize) + d = t + s
  <2>1. BufSize \in Nat /\ Header \in Nat /\ Header > 0
    OBVIOUS
  <2>2. /\ f + Header <= BufSize /\ Header <= a /\ a <= BufSize
        /\ e = IF f + a > BufSize THEN f + a - BufSize ELSE f + a
        /\ s = IF BufSize - e < Header THEN 0 ELSE e
        /\ g = IF BufSize - e < Header THEN BufSize - e ELSE 0
    BY <1>4
  <2>3. /\ d = IF s >= f THEN s ELSE s + BufSize
        /\ f + a <= d /\ d < f + BufSize
    BY <1>5
  <2> QED BY <2>1, <2>2, <2>3, FreeArithmetic
<1>7. ASSUME NEW n \in 2 .. Len(items) PROVE d <= Along(items[n].at)
  <2>1. CASE n = 2
    <3>1. d = Along(items[2].at) /\ d <= d
      BY <1>5
    <3> QED BY <2>1, <3>1
  <2>2. CASE n # 2
    <3>1. n \in 1 .. Len(items) /\ 2 < n
      BY <2>2
    <3>2. d + Total(items[2]) <= Along(items[n].at)
      BY <1>3, <1>5, <3>1 DEF RInv, InLine
    <3>3. Total(items[2]) \in Nat /\ Along(items[n].at) \in Nat
      BY <1>1, <1>3, <3>1, ItemsPlaced, ItemFacts, AlongFacts DEF RInv
    <3> QED BY <3>2, <3>3
  <2> QED BY <2>1, <2>2
<1>9. ASSUME NEW p \in Offset, d <= Along(p) PROVE Along(p)' + d = Along(p) + s
  <2>1. PICK x \in Nat, q \in Nat : x = p /\ x < BufSize /\ q = Along(p)
    <3>1. p \in Nat /\ p < BufSize /\ Along(p) \in Nat
      BY <1>1, AlongFacts DEF RInv, Offset
    <3> QED BY <3>1
  <2>2. q = IF x >= f THEN x ELSE x + BufSize
    BY <1>4, <2>1 DEF Along
  <2>3. (IF x >= s THEN x ELSE x + BufSize) + d = q + s
    BY <1>6, <1>9, <2>1, <2>2
  <2>4. items'[1].at = s
    BY <1>3, <1>4
  <2>5. Along(p)' = IF x >= s THEN x ELSE x + BufSize
    BY <2>1, <2>4 DEF Along
  <2> QED BY <2>1, <2>3, <2>5
<1>8. TailAlong' + d = TailAlong + s /\ TailAlong' \in Nat
  <2>1. PICK w \in Nat, t \in Nat : w = tail /\ t = TailAlong /\ w <= BufSize
    BY <1>1, TypedFacts, AlongFacts DEF RInv
  <2>2. t = IF w > f THEN w ELSE w + BufSize
    BY <1>4, <2>1 DEF TailAlong
  <2>3. t > d
    <3>1. Along(items[2].at) + Total(items[2]) <= TailAlong
      BY <1>3 DEF RInv, InLine
    <3>2. Total(items[2]) \in Nat /\ Header <= Total(items[2])
      BY <1>3, ItemsPlaced, ItemFacts DEF RInv
    <3> QED BY <1>5, <2>1, <3>1, <3>2
  <2>4. TailAlong' = IF w > s THEN w ELSE w + BufSize
    BY <1>1, <1>3, <1>4, <2>1 DEF TailAlong
  <2>5. (IF w > s THEN w ELSE w + BufSize) + d = t + s
    BY <1>6, <2>1, <2>2, <2>3
  <2> QED BY <2>1, <2>4, <2>5
<1> QED BY <1>3, <1>4, <1>5, <1>6, <1>7, <1>8, <1>9, ZenonT(40)

LEMMA FreedInLine ==
    ASSUME RInv, Frees
    PROVE  InLine' /\ capacity' \in Nat /\ walk'.at = Front'
<1>0. /\ 1 \in 1 .. Len(items) /\ Len(items') \in Nat /\ Len(items) = Len(items') + 1
      /\ items' \in Seq(Item) /\ items # << >>
      /\ \A n \in 1 .. Len(items') : n + 1 \in 1 .. Len(items) /\ items'[n] = items[n + 1]
  BY TypedFacts DEF RInv, Frees
<1>1. /\ tail' = tail /\ capacity' = capacity + Total(items[1]) + GapAfter(1)
      /\ walk'.at = Following(items[1].at, items[1])
  BY DEF Frees
<1>2. /\ Placed(items[1]) /\ Total(items[1]) \in Nat /\ GapAfter(1) \in Nat
      /\ capacity \in Nat /\ TailAlong \in Nat /\ items[1].at \in Nat
      /\ capacity = BufSize + items[1].at - TailAlong /\ capacity > 0
      /\ tail = EndOf(items[Len(items)].at, items[Len(items)])
  <2>1. Placed(items[1])
    BY <1>0, ItemsPlaced DEF RInv
  <2>2. Total(items[1]) \in Nat /\ items[1].at \in Nat
    BY <2>1, ItemFacts
  <2>3. GapAfter(1) \in Nat
    BY <2>1, EndFacts DEF GapAfter, GapOf, Gap
  <2>4. capacity \in Nat /\ TailAlong \in Nat
    BY <1>0, TypedFacts, AlongFacts DEF RInv
  <2> QED BY <1>0, <2>1, <2>2, <2>3, <2>4 DEF RInv, InLine
<1>3. capacity' \in Nat /\ capacity' > 0
  <2>1. PICK c \in Nat, a \in Nat, g \in Nat :
          c = capacity /\ a = Total(items[1]) /\ g = GapAfter(1) /\ c > 0
    BY <1>2
  <2>2. capacity' = c + a + g
    BY <1>1, <2>1
  <2> QED BY <2>1, <2>2
<1>4. CASE items' = << >>
  <2>1. Len(items') = 0 /\ Len(items) = 1 /\ GapAfter(1) = Gap(tail)
    BY <1>0, <1>2, <1>4 DEF GapAfter, GapOf
  <2>2. TailAlong = items[1].at + Total(items[1])
    <3>1. PICK f \in Nat, a \in Nat :
            f = items[1].at /\ a = Total(items[1]) /\ a <= BufSize /\ a > 0
      BY <1>2, ItemFacts
    <3>2. tail = IF f + a > BufSize THEN f + a - BufSize ELSE f + a
      BY <1>2, <2>1, <3>1, EndFacts
    <3>3. TailAlong = IF tail > f THEN tail ELSE tail + BufSize
      BY <3>1 DEF TailAlong
    <3> QED BY <3>1, <3>2, <3>3
  <2>3. capacity' = BufSize + Gap(tail)
    BY <1>1, <1>2, <2>1, <2>2, SMTT(30)
  <2>4. walk'.at = Placement
    BY <1>0, <1>1, <2>1, FollowingItem DEF RInv
  <2>5. InLine'
    BY <1>1, <1>4, <2>1, <2>3 DEF InLine, Gap
  <2>6. Placement' = Placement
    BY <1>1 DEF Placement
  <2> QED BY <1>3, <1>4, <2>4, <2>5, <2>6 DEF Front
<1>5. CASE items' # << >>
  <2>1. /\ 2 \in 1 .. Len(items) /\ items'[1] = items[2]
        /\ items[2].at \in Nat /\ Along(items[2].at) \in Nat
        /\ Along(items[2].at) = items[1].at + Total(items[1]) + GapAfter(1)
        /\ TailAlong' + Along(items[2].at) = TailAlong + items[2].at
        /\ TailAlong' \in Nat
    BY <1>5, FreedAlong
  <2>2. PICK s \in Nat, d \in Nat : s = items[2].at /\ d = Along(items[2].at)
    BY <2>1
  <2>3. ASSUME NEW n \in 1 .. Len(items')
        PROVE  /\ Along(items[n + 1].at) \in Nat /\ Total(items[n + 1]) \in Nat
               /\ Along(items[n].at)' + d = Along(items[n + 1].at) + s
               /\ Along(items[n].at)' = Along(items[n + 1].at) + s - d
    <3>1. PICK p \in Offset : p = items[n + 1].at
      BY <1>0, ItemsPlaced DEF RInv
    <3>2. Along(items[2].at) <= Along(p)
      <4>1. n + 1 \in 2 .. Len(items)
        BY <1>0
      <4> QED BY <1>5, <3>1, <4>1, FreedAlong
    <3>3. Along(p)' + d = Along(p) + s
      BY <1>5, <2>2, <3>2, FreedAlong
    <3>4. Along(items[n].at)' = Along(p)'
      BY <1>0, <3>1 DEF Along
    <3>5. Along(items[n].at)' \in Nat
      <4>1. items'[n].at \in Nat /\ items'[1].at \in Nat
        BY <1>0, <2>1, <3>1 DEF Offset
      <4> QED BY <4>1 DEF Along
    <3>6. Along(items[n + 1].at) \in Nat /\ Total(items[n + 1]) \in Nat
      BY <1>0, <3>1, AlongFacts, ItemsPlaced, ItemFacts DEF RInv
    <3> QED BY <3>1, <3>3, <3>4, <3>5, <3>6
  <2>4. ASSUME NEW m \in 1 .. Len(items'), NEW n \in 1 .. Len(items'), m < n
        PROVE  Along(items[m].at)' + Total(items'[m]) <= Along(items[n].at)'
    <3>1. Along(items[m + 1].at) + Total(items[m + 1]) <= Along(items[n + 1].at)
      <4>1. m + 1 \in 1 .. Len(items) /\ n + 1 \in 1 .. Len(items) /\ m + 1 < n + 1
        BY <1>0, <2>4
      <4> QED BY <4>1 DEF RInv, InLine
    <3>2. items'[m] = items[m + 1]
      BY <1>0
    <3>3. PICK x \in Nat, y \in Nat, a \in Nat :
            /\ x = Along(items[m + 1].at) /\ y = Along(items[n + 1].at)
            /\ a = Total(items[m + 1])
      BY <2>3
    <3>4. /\ Along(items[m].at)' = x + s - d /\ Along(items[n].at)' = y + s - d
          /\ x + a <= y /\ Total(items'[m]) = a
      BY <2>3, <3>1, <3>2, <3>3
    <3> QED BY <3>4
  <2>5. ASSUME NEW n \in 1 .. Len(items')
        PROVE  Along(items[n].at)' + Total(items'[n]) <= TailAlong'
    <3>1. Along(items[n + 1].at) + Total(items[n + 1]) <= TailAlong
      BY <1>0 DEF RInv, InLine
    <3>2. items'[n] = items[n + 1]
      BY <1>0
    <3>3. TailAlong' + d = TailAlong + s
      BY <2>1, <2>2
    <3>4. PICK x \in Nat, a \in Nat, t \in Nat :
            /\ x = Along(items[n + 1].at) /\ t = TailAlong
            /\ a = Total(items[n + 1])
      BY <1>2, <2>3
    <3>5. PICK u \in Nat : u = TailAlong'
      BY <2>1
    <3>6. u = t + s - d
      <4>1. u + d = t + s
        BY <3>3, <3>4, <3>5, Zenon
      <4> QED BY <4>1
    <3>7. /\ Along(items[n].at)' = x + s - d /\ TailAlong' = t + s - d
          /\ x + a <= t /\ Total(items'[n]) = a
      BY <2>3, <3>1, <3>2, <3>4, <3>5, <3>6
    <3> QED BY <3>7
  <2>6. ASSUME NEW n \in 1 .. Len(items') - 1
        PROVE  Following(items'[n].at, items'[n]) = items'[n + 1].at
    <3>1. n \in 1 .. Len(items') /\ n + 1 \in 1 .. Len(items')
          /\ n + 1 \in 1 .. Len(items) - 1
      BY <1>0
    <3> QED BY <1>0, <3>1 DEF RInv, InLine
  <2>7. tail' = EndOf(items'[Len(items')].at, items'[Len(items')])
    <3>1. Len(items') \in 1 .. Len(items')
      BY <1>0, <1>5
    <3> QED BY <1>0, <1>1, <1>2, <3>1
  <2>8. capacity' = BufSize + items'[1].at - TailAlong'
    <3>1. PICK f \in Nat, a \in Nat, g \in Nat, t \in Nat :
            f = items[1].at /\ a = Total(items[1]) /\ g = GapAfter(1) /\ t = TailAlong
      BY <1>2
    <3>2. /\ capacity = BufSize + f - t /\ capacity' = capacity + a + g
          /\ d = f + a + g /\ TailAlong' + d = t + s /\ items'[1].at = s
      BY <1>1, <1>2, <2>1, <2>2, <3>1
    <3>3. PICK u \in Nat : u = TailAlong'
      BY <2>1
    <3>4. u + d = t + s
      BY <3>2, <3>3, Zenon
    <3>5. /\ capacity' = BufSize + f - t + a + g
          /\ BufSize + f - t + a + g = BufSize + s - u
      <4>1. d = f + a + g /\ capacity' = BufSize + f - t + a + g
        BY <3>2
      <4>2. BufSize \in Nat
        OBVIOUS
      <4> QED BY <3>4, <4>1, <4>2
    <3> QED BY <3>2, <3>3, <3>4, <3>5
  <2>9. InLine'
    BY <1>3, <1>5, <2>4, <2>5, <2>6, <2>7, <2>8 DEF InLine
  <2>10. walk'.at = items'[1].at
    <3>1. 1 \in 1 .. Len(items) - 1
      BY <1>0, <2>1
    <3> QED BY <1>1, <2>1, <3>1 DEF RInv, InLine
  <2> QED BY <1>3, <1>5, <2>9, <2>10 DEF Front
<1> QED BY <1>4, <1>5

LEMMA FreedHeaded ==
    ASSUME RInv, Frees
    PROVE  Headed'
<1>0. /\ Len(items') \in Nat /\ Len(items) = Len(items') + 1 /\ Len(items) \in Nat
      /\ \A n \in 1 .. Len(items') : n + 1 \in 1 .. Len(items) /\ items'[n] = items[n + 1]
      /\ mem' = mem /\ behind' = (IF behind = 0 THEN 0 ELSE behind - 1) /\ behind \in Nat
      /\ StateOf(items[1]) = "CONSUMED"
  BY TypedFacts DEF RInv, Frees
<1>1. ASSUME NEW n \in 1 .. Len(items')
      PROVE  /\ mem'[items'[n].at].keylen = items'[n].keylen
             /\ mem'[items'[n].at].vallen = items'[n].vallen
             /\ mem'[items'[n].at].state \in Active \cup {"CONSUMED"}
             /\ n <= behind' => mem'[items'[n].at].state \in Claimed
  <2>1. n <= behind' => n + 1 <= behind
    BY <1>0
  <2> QED BY <1>0, <2>1 DEF RInv, Headed, StateOf
<1>2. ASSUME NEW p \in Offset, mem[p].state \in Active
      PROVE  \E n \in 1 .. Len(items') : items'[n].at = p
  <2>1. PICK m \in 1 .. Len(items) : items[m].at = p
    BY <1>2 DEF RInv, Headed
  <2>2. m # 1
    BY <1>0, <1>2, <2>1 DEF StateOf, Active
  <2>3. m - 1 \in 1 .. Len(items') /\ m - 1 + 1 = m
    BY <1>0, <2>2
  <2>4. items'[m - 1].at = p
    BY <1>0, <2>1, <2>3
  <2> QED BY <2>3, <2>4
<1> QED BY <1>0, <1>1, <1>2 DEF Headed, StateOf

LEMMA FreedPointed ==
    ASSUME RInv, Frees
    PROVE  Pointed'
<1>0. /\ Len(items') \in Nat /\ Len(items) = Len(items') + 1
      /\ \A n \in 1 .. Len(items') : items'[n] = items[n + 1]
      /\ behind \in 0 .. Len(items) /\ walk.op = "invalidate" /\ walk'.op = "invalidate"
      /\ UNCHANGED <<next, tail>>
      /\ behind' = IF behind = 0 THEN 0 ELSE behind - 1
      /\ IF walk.pastNext \/ items[1].at = next THEN walk'.pastNext /\ behind = 0
         ELSE ~walk'.pastNext
  BY TypedFacts DEF RInv, Frees
<1>1. walk'.at = Front'
  BY FreedInLine
<1>2. CASE walk'.pastNext
  BY <1>0, <1>1, <1>2 DEF Pointed
<1>3. CASE ~walk'.pastNext
  <2>1. /\ ~walk.pastNext /\ items[1].at # next
        /\ next = IF behind = Len(items) THEN Placement ELSE items[behind + 1].at
    BY <1>0, <1>3 DEF RInv, Pointed
  <2>2. behind # 0
    <3> SUFFICES ASSUME behind = 0 PROVE FALSE
      OBVIOUS
    <3>1. behind # Len(items) /\ behind + 1 = 1
      BY <1>0
    <3> QED BY <2>1, <3>1
  <2>3. Placement' = Placement
    BY <1>0 DEF Placement
  <2>4. CASE behind = Len(items)
    BY <1>0, <1>1, <1>3, <2>1, <2>2, <2>3, <2>4 DEF Pointed
  <2>5. CASE behind # Len(items)
    <3>1. behind' \in 1 .. Len(items') - 1 \/ behind' = 0
      BY <1>0, <2>2, <2>5
    <3>2. /\ behind' + 1 \in 1 .. Len(items') /\ behind' # Len(items')
          /\ behind' + 1 + 1 = behind + 1
      BY <1>0, <2>2, <2>5
    <3>3. items'[behind' + 1] = items[behind + 1]
      BY <1>0, <3>2
    <3> QED BY <1>0, <1>1, <1>3, <2>1, <2>5, <3>2, <3>3 DEF Pointed
  <2> QED BY <2>4, <2>5
<1> QED BY <1>2, <1>3

LEMMA FreedGap ==
    ASSUME RInv, Frees
    PROVE  /\ SkippedGap' \in Nat
           /\ SkippedGap = SkippedGap' + (IF items' = << >> THEN 0 ELSE GapAfter(1))
<1>0. PICK L \in Nat : L = Len(items') /\ Len(items) = L + 1
  BY DEF Frees
<1>1. /\ \A n \in 1 .. L : n + 1 \in 1 .. L + 1 /\ items'[n] = items[n + 1]
      /\ 1 \in 1 .. L + 1 /\ (items' = << >> <=> L = 0)
  BY <1>0 DEF Frees
<1>2. PICK G : G = {n \in 1 .. L - 1 : GapAfter(n + 1) > 0}
  OBVIOUS
<1>3. Gaps = {n \in 1 .. L : GapAfter(n) > 0}
  <2>1. Len(items) - 1 = L
    BY <1>0
  <2> QED BY <2>1 DEF Gaps
<1>4. ASSUME NEW n \in 1 .. L + 1 PROVE GapAfter(n) \in Nat
  BY <1>0, ItemsPlaced, EndFacts DEF RInv, GapAfter, GapOf, Gap
<1>5. SkippedGap' = IF G = {} THEN 0 ELSE GapOf(items'[CHOOSE n \in G : TRUE])
  <2>1. G = {n \in 1 .. Len(items') - 1 : GapOf(items'[n]) > 0}
    BY <1>0, <1>1, <1>2 DEF GapAfter
  <2> QED BY <2>1 DEF SkippedGap, GapOf
<1>6. \A n \in G : n \in 1 .. L /\ n + 1 \in Gaps
  BY <1>0, <1>2, <1>3
<1>7. CASE Gaps = {}
  <2>1. G = {} /\ SkippedGap = 0 /\ SkippedGap' = 0
    BY <1>5, <1>6, <1>7, SkippedIs
  <2>2. L # 0 => GapAfter(1) = 0
    <3>1. L # 0 => 1 \in 1 .. L
      BY <1>0
    <3>2. ~(GapAfter(1) > 0) \/ L = 0
      BY <1>3, <1>7, <3>1
    <3>3. GapAfter(1) \in Nat
      BY <1>1, <1>4
    <3> QED BY <3>2, <3>3
  <2> QED BY <1>1, <2>1, <2>2
<1>8. CASE Gaps # {}
  <2>1. PICK m \in Gaps : m = CHOOSE n \in Gaps : TRUE
    BY <1>8
  <2>2. SkippedGap = GapAfter(m) /\ m \in 1 .. L /\ GapAfter(m) > 0 /\ GapAfter(m) \in Nat
    BY <1>3, <1>4, <1>8, <2>1, SkippedIs
  <2>3. \A n \in Gaps : n = m
    BY <2>1, OneGap DEF RInv
  <2>4. CASE m = 1
    <3>1. G = {}
      <4> SUFFICES ASSUME NEW n \in G PROVE FALSE
        OBVIOUS
      <4>1. n + 1 = 1 /\ n \in 1 .. L
        BY <1>6, <2>3, <2>4
      <4> QED BY <4>1
    <3> QED BY <1>1, <1>5, <2>2, <2>4, <3>1
  <2>5. CASE m # 1
    <3>1. m - 1 \in 1 .. L - 1 /\ m - 1 + 1 = m
      BY <2>2, <2>5
    <3>2. G = {m - 1}
      <4>1. m - 1 \in G
        BY <1>2, <2>2, <3>1
      <4>2. ASSUME NEW n \in G PROVE n = m - 1
        <5>1. n + 1 = m /\ n \in 1 .. L
          BY <1>6, <2>3
        <5> QED BY <2>2, <5>1
      <4> QED BY <4>1, <4>2
    <3>3. (CHOOSE n \in G : TRUE) = m - 1
      BY <3>2, OneChoice
    <3>4. SkippedGap' = GapAfter(m)
      <4>1. items'[m - 1] = items[m]
        BY <1>1, <3>1
      <4> QED BY <1>5, <3>2, <3>3, <4>1 DEF GapAfter
    <3>5. 1 \notin Gaps /\ 1 \in 1 .. L
      BY <2>2, <2>3, <2>5
    <3>6. GapAfter(1) = 0
      BY <1>1, <1>3, <1>4, <3>5
    <3> QED BY <2>2, <3>4, <3>6
  <2> QED BY <2>4, <2>5
<1> QED BY <1>7, <1>8

LEMMA FreedCounted ==
    ASSUME RInv, Frees
    PROVE  AccountingExact'
<1>0. PICK L \in Nat : L = Len(items') /\ Len(items) = L + 1
  BY DEF Frees
<1>1. /\ \A n \in 1 .. L : n + 1 \in 1 .. L + 1 /\ n + 1 # 1 /\ items'[n] = items[n + 1]
      /\ 1 \in 1 .. L + 1 /\ (items' = << >> <=> L = 0) /\ items # << >>
      /\ capacity' = capacity + Total(items[1]) + GapAfter(1) /\ tail' = tail
  BY <1>0 DEF Frees
<1>2. Placed(items[1]) /\ GapAfter(1) \in Nat /\ Total(items[1]) \in Nat /\ capacity \in Nat
  <2>1. Placed(items[1])
    BY <1>0, <1>1, ItemsPlaced DEF RInv
  <2> QED BY <2>1, EndFacts, ItemFacts, TypedFacts DEF RInv, GapAfter, GapOf, Gap
<1>3. PICK U : U = UNION {Footprint(items'[n]) : n \in 1 .. L}
  OBVIOUS
<1>4. Used' = U
  BY <1>0, <1>3 DEF Used
<1>5. Used = U \cup Footprint(items[1])
  <2>1. ASSUME NEW x \in Used PROVE x \in U \cup Footprint(items[1])
    <3>1. PICK n \in 1 .. L + 1 : x \in Footprint(items[n])
      BY <1>0 DEF Used
    <3>2. CASE n # 1
      <4>1. n - 1 \in 1 .. L /\ n - 1 + 1 = n
        BY <3>2
      <4>2. items'[n - 1] = items[n]
        BY <1>1, <4>1
      <4> QED BY <1>3, <3>1, <4>1, <4>2
    <3> QED BY <3>1, <3>2
  <2>2. ASSUME NEW x \in U PROVE x \in Used
    <3>1. PICK n \in 1 .. L : x \in Footprint(items'[n])
      BY <1>3
    <3> QED BY <1>0, <1>1, <3>1 DEF Used
  <2>3. ASSUME NEW x \in Footprint(items[1]) PROVE x \in Used
    BY <1>0, <1>1 DEF Used
  <2> QED BY <2>1, <2>2, <2>3
<1>6. U \cap Footprint(items[1]) = {}
  <2>1. ASSUME NEW n \in 1 .. L PROVE Footprint(items'[n]) \cap Footprint(items[1]) = {}
    BY <1>0, <1>1, ItemsApart DEF RInv
  <2> QED BY <1>3, <2>1
<1>7. /\ Cardinality(Used) = Cardinality(U) + Total(items[1])
      /\ Cardinality(U) \in Nat
  <2>1. IsFiniteSet(Used) /\ IsFiniteSet(Footprint(items[1]))
        /\ Cardinality(Footprint(items[1])) = Total(items[1])
    BY <1>2, UsedFinite, FootprintCount DEF RInv
  <2>2. IsFiniteSet(U) /\ Cardinality(U) \in Nat
    BY <1>5, <2>1, FS_Subset, FS_CardinalityType
  <2>3. Cardinality(U \cup Footprint(items[1])) = Cardinality(U)
          + Cardinality(Footprint(items[1])) - Cardinality(U \cap Footprint(items[1]))
    BY <2>1, <2>2, FS_Union
  <2>4. Cardinality(U \cap Footprint(items[1])) = 0
    BY <1>6, FS_EmptySet
  <2> QED BY <1>2, <1>5, <2>1, <2>2, <2>3, <2>4
<1>8. capacity = BufSize - Cardinality(Used) - SkippedGap
  <2>1. items # << >> /\ Cardinality(Used) \in Nat /\ SkippedGap \in Nat
    <3>1. PICK k \in Nat : k = SkippedGap'
      BY FreedGap
    <3>2. SkippedGap = k \/ SkippedGap = k + GapAfter(1)
      BY <1>2, <3>1, FreedGap
    <3>3. SkippedGap \in Nat
      BY <1>2, <3>2
    <3> QED BY <1>1, <3>3, UsedFinite DEF RInv
  <2>2. capacity = BufSize - Cardinality(Used) - SkippedGap + 0
    BY <2>1 DEF RInv, AccountingExact
  <2> QED BY <2>1, <2>2
<1>9. PICK c \in Nat, u \in Nat, a \in Nat, g \in Nat, k \in Nat :
        /\ c = capacity /\ u = Cardinality(U) /\ a = Total(items[1]) /\ g = GapAfter(1)
        /\ k = SkippedGap'
  BY <1>2, <1>7, FreedGap
<1>10. /\ capacity' = c + a + g
       /\ SkippedGap = k + (IF L = 0 THEN 0 ELSE g)
       /\ c = BufSize - (u + a) - SkippedGap
  BY <1>1, <1>7, <1>8, <1>9, FreedGap
<1>11. L = 0 => g = Gap(tail)
  BY <1>0, <1>1, <1>9 DEF RInv, InLine, GapAfter, GapOf
<1>12. capacity' = BufSize - u - k + (IF L = 0 THEN Gap(tail) ELSE 0)
  BY <1>10, <1>11
<1>13. Gap(tail)' = Gap(tail)
  BY <1>1 DEF Gap
<1> QED BY <1>1, <1>4, <1>9, <1>12, <1>13 DEF AccountingExact

LEMMA InvalidateKeeps ==
    ASSUME RInv, InvalidateItem
    PROVE  RInv'
<1>1. CASE InvalidateGoesAstray(walk.at)
  <2>1. /\ UNCHANGED <<head, next, tail, capacity, mem, walk, exited, items, behind>>
        /\ lost' = TRUE
    BY <1>1 DEF InvalidateItem
  <2>2. /\ walk' \in [op : {"none", "find", "invalidate"}, at : Offset, pastNext : BOOLEAN]
        /\ exited' \in BOOLEAN
    BY <2>1 DEF RInv, Typed, TypeOK
  <2> QED BY <2>1, <2>2, WalkKeeps
<1>2. CASE ~InvalidateGoesAstray(walk.at)
  <2>1. Frees
    BY <1>2, InvalidateDoes
  <2>2. /\ UNCHANGED <<head, next, tail, mem, exited, lost>>
        /\ walk' \in [op : {"none", "find", "invalidate"}, at : Offset, pastNext : BOOLEAN]
        /\ capacity' \in Nat
    BY <2>1, FreedInLine DEF Frees
  <2>3. TypeOK'
    BY <2>2 DEF RInv, Typed, TypeOK
  <2>4. /\ items' \in Seq(Item) /\ behind' \in 0 .. Len(items')
        /\ \A n \in 1 .. Len(items') : Total(items'[n]) <= BufSize
    <3>1. /\ items' \in Seq(Item) /\ Len(items) = Len(items') + 1 /\ Len(items') \in Nat
          /\ \A n \in 1 .. Len(items') : items'[n] = items[n + 1]
          /\ behind' = (IF behind = 0 THEN 0 ELSE behind - 1) /\ behind \in 0 .. Len(items)
      BY <2>1, TypedFacts DEF RInv, Frees
    <3>2. \A n \in 1 .. Len(items') : n + 1 \in 1 .. Len(items)
      BY <3>1
    <3>3. behind' \in 0 .. Len(items')
      BY <3>1
    <3> QED BY <3>1, <3>2, <3>3 DEF RInv, Typed
  <2>5. Typed'
    BY <2>2, <2>3, <2>4 DEF RInv, Typed
  <2> QED BY <2>1, <2>5, FreedInLine, FreedHeaded, FreedPointed, FreedCounted DEF RInv
<1> QED BY <1>1, <1>2

-----------------------------------------------------------------------------
(* The invariant holds in every behaviour. *)

LEMMA InvInit ==
    ASSUME Init
    PROVE  RInv
<1>1. /\ items = << >> /\ Len(items) = 0 /\ behind = 0
      /\ head = 0 /\ next = 0 /\ tail = 0 /\ capacity = BufSize
      /\ mem = [p \in Offset |-> Fresh] /\ walk = NoWalk /\ exited = FALSE /\ lost = FALSE
  BY DEF Init
<1>2. Gap(tail) = 0 /\ Placement = 0 /\ 0 \in Offset
  BY <1>1 DEF Gap, Placement, Offset
<1>3. /\ Fresh \in Line /\ Total(Fresh) <= BufSize /\ Fresh.state \notin Active
  <2>1. PICK z \in Nat : z = 0
    OBVIOUS
  <2>2. Fresh = [keylen |-> z, vallen |-> z, state |-> "EMPTY"]
    BY <2>1 DEF Fresh
  <2> QED BY <2>1, <2>2 DEF Line, States, Total, Active
<1>4. /\ NoWalk \in [op : {"none", "find", "invalidate"}, at : Offset, pastNext : BOOLEAN]
      /\ NoWalk.op = "none"
  <2>1. PICK z \in Offset : z = 0
    BY <1>2
  <2>2. NoWalk = [op |-> "none", at |-> z, pastNext |-> FALSE]
    BY <2>1 DEF NoWalk
  <2> QED BY <2>2
<1>5. mem \in [Offset -> Line] /\ \A p \in Offset : mem[p] = Fresh
  <2>1. PICK l \in Line : l = Fresh
    BY <1>3
  <2> QED BY <1>1, <2>1
<1>6. TypeOK
  BY <1>1, <1>2, <1>4, <1>5 DEF TypeOK, Line
<1>7. Typed
  BY <1>1, <1>3, <1>5, <1>6 DEF Typed
<1>8. InLine
  BY <1>1, <1>2 DEF InLine
<1>9. Headed
  BY <1>1, <1>3, <1>5 DEF Headed
<1>10. Pointed
  BY <1>1, <1>2, <1>4 DEF Pointed, Front
<1>11. AccountingExact
  <2>1. Cardinality(Used) = 0
    <3>1. Used = {}
      BY <1>1 DEF Used
    <3> QED BY <3>1, FS_EmptySet
  <2>2. SkippedGap = 0
    BY <1>1, SkippedIs DEF Gaps
  <2> QED BY <1>1, <1>2, <2>1, <2>2 DEF AccountingExact
<1> QED BY <1>7, <1>8, <1>9, <1>10, <1>11 DEF RInv

LEMMA NextKeeps ==
    ASSUME RInv, Next
    PROVE  RInv'
<1>1. ASSUME NEW s \in Sizes, Allocate(s[1], s[2]) PROVE RInv'
  BY <1>1, AllocateKeeps
<1>2. ASSUME NEW n \in 1 .. Len(items), Write(items[n]) \/ Consume(items[n]) PROVE RInv'
  BY <1>2, WriteKeeps, ConsumeKeeps
<1>3. CASE Claim
  BY <1>3, ClaimKeeps
<1>4. CASE StartInvalidate \/ StartFind
  BY <1>4, StartsKeep
<1>5. CASE InvalidateItem
  BY <1>5, InvalidateKeeps
<1>6. CASE EndInvalidate
  BY <1>6, EndInvalidateKeeps
<1>7. CASE FindPasses \/ FindHits \/ FindMisses \/ ClaimAgain
  BY <1>7, FindKeeps
<1> QED BY <1>1, <1>2, <1>3, <1>4, <1>5, <1>6, <1>7 DEF Next

LEMMA StutterKeeps ==
    ASSUME RInv, UNCHANGED vars
    PROVE  RInv'
<1>1. /\ UNCHANGED <<head, next, tail, capacity, mem, items, behind>>
      /\ walk' = walk /\ exited' = exited /\ lost' = lost
  BY DEF vars
<1>2. /\ walk' \in [op : {"none", "find", "invalidate"}, at : Offset, pastNext : BOOLEAN]
      /\ exited' \in BOOLEAN /\ lost' \in BOOLEAN
  BY <1>1 DEF RInv, Typed, TypeOK
<1> QED BY <1>1, <1>2, WalkKeeps

LEMMA Invariance == Spec => []RInv
<1>1. RInv /\ [Next]_vars => RInv'
  BY NextKeeps, StutterKeeps
<1> QED BY <1>1, InvInit, PTL DEF Spec

\* Pointers stay offsets of the buffer and capacity never falls below zero, whatever
\* SET allocates, claim_next claims and invalidate frees (NVDIMM.c: allocate,
\* claim_next, invalidate).
THEOREM TypesHold == Spec => []TypeOK
<1>1. RInv => TypeOK
  BY DEF RInv, Typed
<1> QED BY <1>1, Invariance, PTL

\* No two items share a byte and no header is split by the end of the buffer, however
\* NVDIMM_allocate wraps items, skips the gap and reuses the bytes that
\* NVDIMM_invalidate freed.
THEOREM ItemsDoNotOverlap == Spec => []NoOverlap
<1>1. RInv => NoOverlap
  BY Disjoint DEF RInv
<1> QED BY <1>1, Invariance, PTL

\* Walking from head with the lengths in the headers, as NVDIMM_find and
\* NVDIMM_invalidate do, visits exactly the items of the log in order.
THEOREM HeadersStayChained == Spec => []HeadersChain
<1>1. ASSUME RInv PROVE HeadersChain
  <2>1. ASSUME NEW n \in 1 .. Len(items)
        PROVE  /\ StateOf(items[n]) \in States \ {"EMPTY"}
               /\ mem[items[n].at].keylen = items[n].keylen
               /\ mem[items[n].at].vallen = items[n].vallen
    BY <1>1 DEF RInv, Headed, Active, States
  <2>2. items # << >> /\ walk.op # "invalidate" => items[1].at = head
    BY <1>1 DEF RInv, Pointed, Front
  <2> QED BY <1>1, <2>1, <2>2 DEF RInv, InLine, HeadersChain
<1> QED BY <1>1, Invariance, PTL

\* circ_buffer.capacity is exactly what the items and the skipped gap leave of the
\* buffer: NVDIMM_allocate takes and NVDIMM_invalidate gives back the same bytes.
THEOREM CapacityIsExact == Spec => []AccountingExact
<1>1. RInv => AccountingExact
  BY DEF RInv
<1> QED BY <1>1, Invariance, PTL

\* NVDIMM_claim_next never takes bytes for a header: next is at the first item it has
\* not passed, or at the place NVDIMM_allocate chooses for the next one.
THEOREM NextStaysOnItem == Spec => []NextOnItem
<1>1. RInv => NextOnItem
  BY DEF RInv, Pointed, NextOnItem
<1> QED BY <1>1, Invariance, PTL

-----------------------------------------------------------------------------
(* The layout implements the queue. *)

Released == [n \in 1 .. Len(items) |-> StateOf(items[n]) = "CONSUMED"]

QueueStep == Queue!Next \/ UNCHANGED <<Released, behind>>

LEMMA ReleasedIs ==
    ASSUME Typed
    PROVE  /\ Released \in Seq(BOOLEAN) /\ Len(Released) = Len(items)
           /\ \A n \in 1 .. Len(items) : Released[n] = (StateOf(items[n]) = "CONSUMED")
<1>1. Len(items) \in Nat
  BY TypedFacts
<1>2. Released \in [1 .. Len(items) -> BOOLEAN]
  BY DEF Released
<1> QED BY <1>1, <1>2 DEF Released

LEMMA SameReleased ==
    ASSUME UNCHANGED items,
           \A n \in 1 .. Len(items) :
              (mem'[items[n].at].state = "CONSUMED") = (mem[items[n].at].state = "CONSUMED")
    PROVE  Released' = Released
BY DEF Released, StateOf

LEMMA AllocateEnters ==
    ASSUME RInv, NEW s \in Sizes, Allocate(s[1], s[2])
    PROVE  QueueStep
<1>1. PICK j : NewItem(j)
  BY AllocateDoes
<1>2. PICK L \in Nat : L = Len(items) /\ Len(items') = L + 1
  BY <1>1, TypedFacts DEF RInv, NewItem
<1>3. /\ \A n \in 1 .. L : items'[n] = items[n]
      /\ items'[L + 1] = j /\ behind' = behind /\ Placed(j)
      /\ mem' = [p \in Offset |-> IF p = j.at THEN NvLine(j.keylen, j.vallen, "WRITING")
                                  ELSE IF p \in HeaderOf(j) THEN Bytes ELSE mem[p]]
  BY <1>1, <1>2 DEF NewItem
<1>4. ASSUME NEW n \in 1 .. L PROVE mem'[items'[n].at] = mem[items[n].at]
  BY <1>1, <1>2, <1>3, NewApart, ItemsPlaced DEF RInv
<1>5. mem'[j.at].state = "WRITING"
  <2>1. mem'[j.at] = NvLine(j.keylen, j.vallen, "WRITING")
    BY <1>3, ItemFacts
  <2> QED BY <2>1 DEF NvLine
<1>6. Released' = [n \in 1 .. L + 1 |-> IF n = L + 1 THEN FALSE ELSE Released[n]]
  <2>1. ASSUME NEW n \in 1 .. L + 1
        PROVE  (mem'[items'[n].at].state = "CONSUMED")
                 = IF n = L + 1 THEN FALSE ELSE Released[n]
    <3>1. CASE n = L + 1
      BY <1>3, <1>5, <3>1
    <3>2. CASE n # L + 1
      <4>1. n \in 1 .. L
        BY <3>2
      <4> QED BY <1>2, <1>4, <3>2, <4>1 DEF Released, StateOf
    <3> QED BY <3>1, <3>2
  <2> QED BY <1>2, <2>1 DEF Released, StateOf
<1>7. Released' = Append(Released, FALSE)
  <2>1. PICK R \in Seq(BOOLEAN) : R = Released /\ Len(R) = L
    BY <1>2, ReleasedIs DEF RInv
  <2>2. Append(R, FALSE) = [n \in 1 .. L + 1 |-> IF n = L + 1 THEN FALSE ELSE R[n]]
    BY <2>1, AppendIs
  <2> QED BY <1>6, <2>1, <2>2
<1> QED BY <1>3, <1>7 DEF QueueStep, Queue!Next, Queue!Enter, Released

LEMMA ConsumeReleases ==
    ASSUME RInv, NEW n \in 1 .. Len(items), Consume(items[n])
    PROVE  QueueStep
<1>1. /\ UNCHANGED <<items, behind>>
      /\ mem' = [mem EXCEPT ![items[n].at] = [mem[items[n].at] EXCEPT !.state = "CONSUMED"]]
      /\ StateOf(items[n]) # "CONSUMED"
  BY DEF Consume
<1>2. mem \in [Offset -> Line] /\ items[n].at \in Offset
  BY TypedFacts, ItemsPlaced DEF RInv
<1>3. mem'[items[n].at].state = "CONSUMED"
  BY <1>1, <1>2 DEF Line
<1>4. ASSUME NEW m \in 1 .. Len(items), m # n PROVE mem'[items[m].at] = mem[items[m].at]
  BY <1>1, <1>2, <1>4, ItemsApart, ItemsPlaced DEF RInv
<1>5. Released' = [Released EXCEPT ![n] = TRUE]
  BY <1>1, <1>3, <1>4, ZenonT(40) DEF Released, StateOf
<1>6. n \in 1 .. Len(Released) /\ ~Released[n]
  BY <1>1, ReleasedIs DEF RInv
<1>7. \E m \in 1 .. Len(Released) :
         ~Released[m] /\ Released' = [Released EXCEPT ![m] = TRUE]
  BY <1>5, <1>6
<1> QED BY <1>1, <1>7 DEF QueueStep, Queue!Next, Queue!Release, Released

LEMMA WriteStutters ==
    ASSUME RInv, NEW n \in 1 .. Len(items), Write(items[n])
    PROVE  QueueStep
<1>1. /\ UNCHANGED <<items, behind>> /\ StateOf(items[n]) = "WRITING"
      /\ mem' = [p \in Offset |->
                   IF p = items[n].at THEN NvLine(items[n].keylen, items[n].vallen, "WAITING")
                   ELSE IF p \in PayloadOf(items[n]) THEN Bytes ELSE mem[p]]
  BY DEF Write
<1>2. ASSUME NEW m \in 1 .. Len(items), m # n PROVE mem'[items[m].at] = mem[items[m].at]
  BY <1>1, <1>2, ItemsApart, ItemsPlaced DEF RInv
<1>3. mem'[items[n].at].state = "WAITING"
  BY <1>1, ItemsPlaced DEF RInv, NvLine
<1>4. Released' = Released
  BY <1>1, <1>2, <1>3, SameReleased DEF StateOf
<1> QED BY <1>1, <1>4 DEF QueueStep

LEMMA ClaimClaims ==
    ASSUME RInv, Claim
    PROVE  QueueStep
<1>1. /\ UNCHANGED items /\ behind' = behind + 1 /\ mem[next].state = "WAITING"
      /\ mem' = [mem EXCEPT ![next] = [mem[next] EXCEPT !.state = "WRITING_TO_SSD"]]
      /\ walk.op = "none"
  BY DEF Claim
<1>2. /\ mem \in [Offset -> Line] /\ next \in 0 .. BufSize /\ behind \in Nat
  BY TypedFacts DEF RInv
<1>3. next \in Offset
  <2>1. Placement \in Offset
    BY TypedFacts, PlacementFacts DEF RInv, Offset
  <2>2. behind # Len(items) => behind + 1 \in 1 .. Len(items)
    BY TypedFacts DEF RInv
  <2>3. behind # Len(items) => items[behind + 1].at \in Offset
    BY <2>2, ItemsPlaced DEF RInv
  <2> QED BY <1>1, <2>1, <2>3 DEF RInv, Pointed
<1>4. behind < Len(items) /\ behind + 1 \in 1 .. Len(items) /\ items[behind + 1].at = next
  BY <1>1, <1>3, NextIsWaiting
<1>5. mem'[next].state = "WRITING_TO_SSD" /\ \A p \in Offset \ {next} : mem'[p] = mem[p]
  BY <1>1, <1>2, <1>3 DEF Line
<1>6. \A n \in 1 .. Len(items) :
         (mem'[items[n].at].state = "CONSUMED") = (mem[items[n].at].state = "CONSUMED")
  BY <1>1, <1>5, ItemsPlaced DEF RInv
<1>7. Released' = Released
  BY <1>1, <1>6, SameReleased
<1>8. behind < Len(Released) /\ ~Released[behind + 1]
  BY <1>1, <1>4, ReleasedIs DEF RInv, StateOf
<1> QED BY <1>1, <1>7, <1>8 DEF QueueStep, Queue!Next, Queue!ClaimOldest, Released

LEMMA InvalidateLeaves ==
    ASSUME RInv, InvalidateItem
    PROVE  QueueStep
<1>1. CASE InvalidateGoesAstray(walk.at)
  <2>1. UNCHANGED <<items, behind, mem>>
    BY <1>1 DEF InvalidateItem
  <2> QED BY <2>1, SameReleased DEF QueueStep
<1>2. CASE ~InvalidateGoesAstray(walk.at)
  <2>1. PICK L \in Nat : L = Len(items') /\ Len(items) = L + 1
    BY <1>2, InvalidateDoes DEF Frees
  <2>2. /\ \A n \in 1 .. L : n + 1 \in 1 .. L + 1 /\ items'[n] = items[n + 1]
        /\ mem' = mem /\ StateOf(items[1]) = "CONSUMED" /\ 1 \in 1 .. L + 1
        /\ behind' = IF behind = 0 THEN 0 ELSE behind - 1
    BY <1>2, <2>1, InvalidateDoes DEF Frees
  <2>3. /\ Released \in Seq(BOOLEAN) /\ Len(Released) = L + 1
        /\ \A n \in 1 .. L + 1 : Released[n] = (StateOf(items[n]) = "CONSUMED")
    BY <2>1, ReleasedIs DEF RInv
  <2>4. Released' = [n \in 1 .. L |-> Released[n + 1]]
    BY <2>1, <2>2, <2>3 DEF Released, StateOf
  <2>5. SubSeq(Released, 1 + 1, L + 1) = [n \in 1 .. L |-> Released[n + 1]]
    BY <2>3
  <2>6. behind' = IF behind < 1 THEN 0 ELSE behind - 1
    BY <2>2, TypedFacts DEF RInv
  <2>7. /\ 1 \in 1 .. Len(Released) /\ \A i \in 1 .. 1 : Released[i]
        /\ Released' = SubSeq(Released, 1 + 1, Len(Released))
    BY <2>2, <2>3, <2>4, <2>5
  <2> QED BY <2>6, <2>7 DEF QueueStep, Queue!Next, Queue!Leave, Released
<1> QED BY <1>1, <1>2

LEMMA OthersStutter ==
    ASSUME UNCHANGED <<mem, items, behind>>
    PROVE  QueueStep
BY SameReleased DEF QueueStep

LEMMA StepRefines ==
    ASSUME RInv, [Next]_vars
    PROVE  [Queue!Next]_(Queue!qvars)
<1>1. QueueStep
  <2>1. ASSUME NEW s \in Sizes, Allocate(s[1], s[2]) PROVE QueueStep
    BY <2>1, AllocateEnters
  <2>2. ASSUME NEW n \in 1 .. Len(items), Write(items[n]) \/ Consume(items[n])
        PROVE  QueueStep
    BY <2>2, WriteStutters, ConsumeReleases
  <2>3. CASE Claim
    BY <2>3, ClaimClaims
  <2>4. CASE InvalidateItem
    BY <2>4, InvalidateLeaves
  <2>5. CASE \/ ClaimAgain \/ StartInvalidate \/ EndInvalidate \/ StartFind
             \/ FindPasses \/ FindHits \/ FindMisses \/ UNCHANGED vars
    <3>1. UNCHANGED <<mem, items, behind>>
      BY <2>5 DEF ClaimAgain, StartInvalidate, EndInvalidate, StartFind, FindPasses,
                  FindHits, FindMisses, vars
    <3> QED BY <3>1, OthersStutter
  <2> QED BY <2>1, <2>2, <2>3, <2>4, <2>5 DEF Next
<1> QED BY <1>1 DEF QueueStep, Queue!qvars, Released

LEMMA InitRefines ==
    ASSUME Init
    PROVE  Queue!Init
<1>1. Released = << >> /\ behind = 0
  BY DEF Init, Released
<1> QED BY <1>1 DEF Queue!Init, Released

\* Whatever bytes its items occupy, the log is a queue: items are claimed in the order
\* NVDIMM_allocate laid them out, each at most once, and NVDIMM_invalidate takes out
\* the oldest, never before it was released.
THEOREM LayoutIsQueue == Spec => ImplementsQueue
<1>1. Init => Queue!Init
  BY InitRefines
<1>2. RInv /\ [Next]_vars => [Queue!Next]_(Queue!qvars)
  BY StepRefines
<1> QED BY <1>1, <1>2, Invariance, PTL DEF Spec, ImplementsQueue, Queue!Spec
=============================================================================
