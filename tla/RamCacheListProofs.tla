------------------------- MODULE RamCacheListProofs --------------------------
(***************************************************************************)
(* The lists of RamCache, for the same constants. Each bucket chain has a  *)
(* numbering that only grows along it, kept through every insertion and    *)
(* removal, and a set that walks it comes by every item of its key. The    *)
(* count of free blocks never promises more than the free list holds.      *)
(***************************************************************************)
EXTENDS RamCacheUseProofs

-----------------------------------------------------------------------------
(* Chains. *)

\* pos numbers the items of each chain from its head on.
ChainsLaidOut(pos) ==
    /\ \A x \in Linked :
          LET h == block[x]
              b == Bucket(h.hv)
          IN  /\ h.hv = Hash[h.key] /\ h.key \in Keys
              /\ chain[b] \in Linked /\ pos[chain[b]] <= pos[x]
              /\ chain[b] = x <=> h.prev = NULL
              /\ h.prev # NULL => h.prev \in Linked /\ block[h.prev].next = x
              /\ h.next # NULL => /\ h.next \in Linked
                                  /\ block[h.next].prev = x
                                  /\ Bucket(block[h.next].hv) = b
                                  /\ pos[x] < pos[h.next]
    /\ \A x, y \in Linked : Bucket(block[x].hv) = Bucket(block[y].hv) =>
          /\ pos[x] = pos[y] => x = y
          /\ pos[x] < pos[y] => block[x].next # NULL /\ pos[block[x].next] <= pos[y]
    /\ \A b \in Buckets : chain[b] # NULL =>
          /\ chain[b] \in Linked
          /\ Bucket(block[chain[b]].hv) = b
          /\ valid[b] \/ \E t \in Threads : At(t, "publish") /\ B(t) = b

UnlinkedIfNew(t) == Fresh(t) =>
    block[th[t].mine].prev = NULL /\ block[th[t].mine].next = NULL

\* A bucket stays empty for the set that found it so.
AloneIfFirst(t) == th[t].as = "first" =>
    /\ th[t].pc \in Writing \cup {"publish"}
    /\ th[t].pc \in Writing => \A x \in Linked : Bucket(block[x].hv) # B(t)

\* What a set need not see: it is being evicted or was left locked.
Passable(x) == x \in leaked \/ Evictors(x) # {}

\* An item of the key that the set has not come to yet.
Searching == {"barrier", "walk", "state", "choose", "own"}
Ahead(pos, t) == \A y \in Linked : block[y].key = th[t].key =>
    \/ Passable(y)
    \/ th[t].it # NULL /\ pos[th[t].it] <= pos[y]

InItsChain(t) == th[t].it # NULL => /\ th[t].it \in Linked
                                    /\ Bucket(Here(t).hv) = B(t)

MissedNone(pos, t) ==
    /\ th[t].op = "set" /\ th[t].pc \in Searching /\ InItsChain(t) => Ahead(pos, t)
    /\ th[t].pc \in Writing /\ th[t].as # "over" =>
          \A y \in Linked : block[y].key = th[t].key => Passable(y)

OneOfEach == \A x, y \in Linked : block[x].key = block[y].key /\ x # y =>
    Passable(x) \/ Passable(y)

Straight == "walk" \notin harm
NotCutOff == \A t \in Threads : ~CutOff(t)

Chained(pos) ==
    /\ \A t \in Threads : UnlinkedIfNew(t) /\ AloneIfFirst(t)
    /\ ChainsLaidOut(pos)
    /\ Straight => /\ NotCutOff /\ OneOfEach
                   /\ \A t \in Threads : MissedNone(pos, t)

CInv == \E pos \in [Blocks -> Nat] : Chained(pos)

-----------------------------------------------------------------------------
(* Steps that leave the chains alone. *)

SameLinks(x) ==
    /\ block'[x].hv = block[x].hv /\ block'[x].key = block[x].key
    /\ block'[x].next = block[x].next /\ block'[x].prev = block[x].prev

LinksStay(t) ==
    /\ Moved(t) /\ chain' = chain /\ Linked' = Linked
    /\ \A x \in Linked : SameLinks(x)
    /\ \A u \in Threads \ {t} : Fresh(u) => SameLinks(th[u].mine)
    /\ \A b \in Buckets : valid[b] => valid'[b]

LEMMA LinkedTypes ==
    ASSUME TInv, NEW x \in Linked
    PROVE  /\ x \in Blocks /\ x # NULL /\ Bucket(block[x].hv) \in Buckets
           /\ block[x].next \in 0 .. NumBlocks /\ block[x].prev \in 0 .. NumBlocks
<1>1. x \in Blocks /\ x # NULL
  BY LinkedBlocks
<1> QED BY <1>1, HeaderTypes

\* What a set may step over stays so, as long as t does not unchain it.
LEMMA PassableStays ==
    ASSUME NEW t \in Threads, Moved(t), th[t].pc # "unchain",
           \A x \in Linked : x \in leaked => x \in leaked'
    PROVE  \A x \in Linked : Passable(x) => Passable(x)'
<1> SUFFICES ASSUME NEW x \in Linked, Evictors(x) # {}
             PROVE  Evictors(x)' # {}
  BY DEF Passable
<1>1. PICK u \in Threads : th[u].pc \in {"unchain", "reclaim"} /\ th[u].got = x
  BY DEF Evictors
<1>2. th[u].pc # "reclaim"
  BY <1>1 DEF Linked, At
<1>3. u # t
  BY <1>1, <1>2
<1>4. th'[u] = th[u]
  BY <1>3 DEF Moved
<1> QED BY <1>1, <1>4 DEF Evictors

LEMMA LaidOutStays ==
    ASSUME TInv, NEW t \in Threads, NEW pos \in [Blocks -> Nat], ChainsLaidOut(pos),
           LinksStay(t), At(t, "publish") => valid'[B(t)]
    PROVE  ChainsLaidOut(pos)'
<1>1. /\ chain' = chain /\ Linked' = Linked /\ \A x \in Linked : SameLinks(x)
      /\ \A b \in Buckets : valid[b] => valid'[b]
  BY DEF LinksStay
<1>2. \A x \in Linked : LET h == block'[x]
                            b == Bucket(h.hv)
                        IN  /\ h.hv = Hash[h.key] /\ h.key \in Keys
                            /\ chain'[b] \in Linked /\ pos[chain'[b]] <= pos[x]
                            /\ chain'[b] = x <=> h.prev = NULL
                            /\ h.prev # NULL => h.prev \in Linked /\ block'[h.prev].next = x
                            /\ h.next # NULL => /\ h.next \in Linked
                                                /\ block'[h.next].prev = x
                                                /\ Bucket(block'[h.next].hv) = b
                                                /\ pos[x] < pos[h.next]
  BY <1>1 DEF ChainsLaidOut, SameLinks
<1>3. \A x, y \in Linked : Bucket(block'[x].hv) = Bucket(block'[y].hv) =>
          /\ pos[x] = pos[y] => x = y
          /\ pos[x] < pos[y] => block'[x].next # NULL /\ pos[block'[x].next] <= pos[y]
  BY <1>1 DEF ChainsLaidOut, SameLinks
<1>4. ASSUME NEW b \in Buckets, chain'[b] # NULL
      PROVE  /\ chain'[b] \in Linked
             /\ Bucket(block'[chain'[b]].hv) = b
             /\ valid'[b] \/ \E u \in Threads : At(u, "publish")' /\ B(u)' = b
  <2>1. /\ chain[b] \in Linked /\ Bucket(block[chain[b]].hv) = b
        /\ valid[b] \/ \E u \in Threads : At(u, "publish") /\ B(u) = b
    BY <1>1, <1>4 DEF ChainsLaidOut
  <2>2. chain'[b] \in Linked /\ Bucket(block'[chain'[b]].hv) = b
    BY <1>1, <2>1 DEF SameLinks
  <2>3. ASSUME NEW u \in Threads, At(u, "publish"), B(u) = b
        PROVE  valid'[b] \/ (At(u, "publish")' /\ B(u)' = b)
    <3>1. CASE u = t
      BY <2>3, <3>1
    <3>2. CASE u # t
      <4>1. th'[u] = th[u]
        BY <3>2 DEF LinksStay, Moved
      <4> QED BY <2>3, <4>1 DEF At, B, Hv
    <3> QED BY <3>1, <3>2
  <2> QED BY <1>1, <2>1, <2>2, <2>3
<1> QED BY <1>1, <1>2, <1>3, <1>4 DEF ChainsLaidOut

\* Then every other thread and the items themselves keep their part of Chained.
LEMMA StaysChained ==
    ASSUME TInv, UInv, NEW t \in Threads, NEW pos \in [Blocks -> Nat], Chained(pos),
           LinksStay(t), At(t, "publish") => valid'[B(t)], th[t].pc # "unchain",
           \A x \in Linked : x \in leaked => x \in leaked',
           UnlinkedIfNew(t)', AloneIfFirst(t)', Straight' => Straight /\ NotCutOff',
           Straight => MissedNone(pos, t)'
    PROVE  Chained(pos)'
<1>1. ChainsLaidOut(pos)'
  BY LaidOutStays DEF Chained
<1>2. Linked' = Linked /\ \A x \in Linked : SameLinks(x)
  BY DEF LinksStay
<1>3. \A x \in Linked : Passable(x) => Passable(x)'
  BY PassableStays DEF LinksStay
<1>4. ASSUME NEW u \in Threads \ {t}
      PROVE  /\ UnlinkedIfNew(u)' /\ AloneIfFirst(u)'
             /\ Straight => MissedNone(pos, u)'
  <2>1. th'[u] = th[u]
    BY DEF LinksStay, Moved
  <2>2. UnlinkedIfNew(u)'
    BY <2>1 DEF Chained, UnlinkedIfNew, Fresh, LinksStay, SameLinks
  <2>3. AloneIfFirst(u)'
    BY <1>2, <2>1 DEF Chained, AloneIfFirst, SameLinks, B, Hv
  <2>4. ASSUME Straight PROVE MissedNone(pos, u)'
    <3>1. MissedNone(pos, u)
      BY <2>4 DEF Chained
    <3>2. InItsChain(u)' => InItsChain(u)
      BY <1>2, <2>1 DEF InItsChain, SameLinks, Here, B, Hv
    <3>3. Ahead(pos, u) => Ahead(pos, u)'
      BY <1>2, <1>3, <2>1 DEF Ahead, SameLinks
    <3>4. th[u].pc \in Writing /\ th[u].as # "over" =>
            \A y \in Linked' : block'[y].key = th[u].key => Passable(y)'
      BY <1>2, <1>3, <3>1 DEF MissedNone, SameLinks
    <3> QED BY <2>1, <3>1, <3>2, <3>3, <3>4 DEF MissedNone
  <2> QED BY <2>2, <2>3, <2>4
<1>5. Straight => OneOfEach'
  BY <1>2, <1>3 DEF Chained, OneOfEach, SameLinks
<1>6. \A u \in Threads : UnlinkedIfNew(u)' /\ AloneIfFirst(u)'
                         /\ (Straight => MissedNone(pos, u)')
  BY <1>4
<1> QED BY <1>1, <1>5, <1>6 DEF Chained

StraightStep == Straight' => Straight /\ NotCutOff'

LEMMA LinkedStays ==
    ASSUME TInv, UInv, NEW t \in Threads, Moved(t),
           th[t].pc # "reclaim", th'[t].pc # "reclaim",
           lru' = lru \/ \E x \in ToSet(lru) : lru' = ToFront(x)
    PROVE  Linked' = Linked
<1>1. ASSUME NEW x \in ToSet(lru), lru' = ToFront(x)
      PROVE  ToSet(lru') = ToSet(lru)
  <2>1. x \in Blocks /\ lru \in Seq(Blocks) /\ IsInjective(lru)
    BY LinkedBlocks, StateTypes DEF UInv, Placed
  <2> QED BY <1>1, <2>1, ToFrontFacts, ZenonT(40)
<1>2. ToSet(lru') = ToSet(lru)
  BY <1>1
<1> QED BY <1>2, SameLinked

LEMMA QuietLinks ==
    ASSUME TInv, UInv, NEW t \in Threads, Moved(t),
           th[t].pc # "reclaim", th'[t].pc # "reclaim",
           lru' = lru \/ \E x \in ToSet(lru) : lru' = ToFront(x),
           chain' = chain, \A x \in Blocks : SameLinks(x),
           \A b \in Buckets : valid[b] => valid'[b]
    PROVE  LinksStay(t)
<1>1. Linked' = Linked /\ Linked \subseteq Blocks
  BY LinkedStays, LinkedBlocks
<1>2. \A u \in Threads \ {t} : Fresh(u) => th[u].mine \in Blocks
  BY LinkedBlocks DEF Fresh
<1> QED BY <1>1, <1>2 DEF LinksStay

\* Only slock, lock, state, readers, size, ver or frags of a header change.
LEMMA SameBlocks ==
    ASSUME block' = block
    PROVE  \A x \in Blocks : SameLinks(x)
BY DEF SameLinks

LEMMA OneBlock ==
    ASSUME TInv, NEW y \in Blocks, NEW h, block' = [block EXCEPT ![y] = h],
           h.hv = block[y].hv, h.key = block[y].key,
           h.next = block[y].next, h.prev = block[y].prev
    PROVE  \A x \in Blocks : SameLinks(x)
BY OneHeader DEF SameLinks

\* A thread that neither searches nor writes has nothing to keep.
LEMMA RestKeeps ==
    ASSUME TInv, UInv, NEW t \in Threads, NEW pos \in [Blocks -> Nat], Chained(pos),
           LinksStay(t), At(t, "publish") => valid'[B(t)], th[t].pc # "unchain",
           \A x \in Linked : x \in leaked => x \in leaked', StraightStep,
           th'[t].mine = NULL, th'[t].as # "first", th'[t].pc \notin Writing,
           th'[t].pc \in Searching => th'[t].op = "get"
    PROVE  Chained(pos)'
<1>1. UnlinkedIfNew(t)'
  BY DEF UnlinkedIfNew, Fresh
<1>2. AloneIfFirst(t)'
  BY DEF AloneIfFirst
<1>3. MissedNone(pos, t)'
  BY DEF MissedNone
<1> QED BY <1>1, <1>2, <1>3, StaysChained DEF StraightStep

LEMMA WriterKeeps ==
    ASSUME TInv, UInv, NEW t \in Threads, NEW pos \in [Blocks -> Nat], Chained(pos),
           LinksStay(t), th[t].pc \in Writing, th[t].pc # "unchain", th'[t].pc \in Writing,
           \A x \in Linked : x \in leaked => x \in leaked', StraightStep,
           th'[t].key = th[t].key, th'[t].as = th[t].as, th'[t].mine = th[t].mine,
           Fresh(t) => SameLinks(th[t].mine)
    PROVE  Chained(pos)'
<1>1. UnlinkedIfNew(t)'
  BY DEF Chained, UnlinkedIfNew, Fresh, SameLinks
<1>2. AloneIfFirst(t)'
  BY DEF Chained, AloneIfFirst, LinksStay, SameLinks, B, Hv
<1>3. ASSUME Straight PROVE MissedNone(pos, t)'
  <2>1. \A x \in Linked : Passable(x) => Passable(x)'
    BY PassableStays DEF LinksStay
  <2>2. th[t].as # "over" => \A y \in Linked : block[y].key = th[t].key => Passable(y)
    BY <1>3 DEF Chained, MissedNone
  <2>3. th'[t].as # "over" =>
          \A y \in Linked' : block'[y].key = th'[t].key => Passable(y)'
    BY <2>1, <2>2 DEF LinksStay, SameLinks
  <2>4. th'[t].pc \notin Searching
    BY DEF Searching, Writing
  <2> QED BY <2>3, <2>4 DEF MissedNone
<1>4. ~At(t, "publish")
  BY DEF At, Writing
<1> QED BY <1>1, <1>2, <1>3, <1>4, StaysChained DEF StraightStep

LEMMA SearcherKeeps ==
    ASSUME TInv, UInv, NEW t \in Threads, NEW pos \in [Blocks -> Nat], Chained(pos),
           LinksStay(t), th[t].pc \notin Writing \cup {"publish"}, th'[t].pc \in Searching,
           \A x \in Linked : x \in leaked => x \in leaked', StraightStep,
           th'[t].mine = th[t].mine, th'[t].as = th[t].as, th'[t].op = th[t].op,
           Straight /\ th[t].op = "set" /\ InItsChain(t)' => Ahead(pos, t)'
    PROVE  Chained(pos)'
<1>1. th'[t].mine = NULL /\ ~At(t, "publish") /\ th[t].pc # "unchain"
  BY OnlyWritersHaveItems DEF At, Writing
<1>2. UnlinkedIfNew(t)'
  BY <1>1 DEF UnlinkedIfNew, Fresh
<1>3. AloneIfFirst(t)'
  BY DEF Chained, AloneIfFirst
<1>4. ASSUME Straight PROVE MissedNone(pos, t)'
  <2>1. th'[t].pc \notin Writing
    BY DEF Searching, Writing
  <2> QED BY <1>4, <2>1 DEF MissedNone
<1> QED BY <1>1, <1>2, <1>3, <1>4, StaysChained DEF StraightStep

\* Where a search stands after its step: where it was, behind an item it need not look at,
\* or at the head of the chain.
LEMMA StandsStill ==
    ASSUME NEW t \in Threads, NEW pos \in [Blocks -> Nat], Chained(pos),
           LinksStay(t), th[t].pc \in Searching, th[t].pc # "unchain",
           \A x \in Linked : x \in leaked => x \in leaked', Straight, th[t].op = "set",
           th'[t].key = th[t].key, th'[t].it = th[t].it, InItsChain(t)'
    PROVE  Ahead(pos, t)'
<1>1. \A x \in Linked : Passable(x) => Passable(x)'
  BY PassableStays DEF LinksStay
<1>2. InItsChain(t)
  BY DEF InItsChain, LinksStay, SameLinks, Here, B, Hv
<1>3. Ahead(pos, t)
  BY <1>2 DEF Chained, MissedNone
<1> QED BY <1>1, <1>3 DEF Ahead, LinksStay, SameLinks

LEMMA StepsOn ==
    ASSUME TInv, NEW t \in Threads, NEW pos \in [Blocks -> Nat], Chained(pos),
           LinksStay(t), th[t].pc \in Searching,
           \A x \in Linked : x \in leaked => x \in leaked', Straight, th[t].op = "set",
           th[t].it # NULL, InItsChain(t), Passable(th[t].it) \/ Here(t).key # th[t].key,
           th'[t].key = th[t].key, th'[t].it = Here(t).next
    PROVE  Ahead(pos, t)'
<1>1. \A x \in Linked : Passable(x) => Passable(x)'
  <2>1. th[t].pc # "unchain"
    BY DEF Searching
  <2> QED BY <2>1, PassableStays DEF LinksStay
<1>2. Ahead(pos, t) /\ ChainsLaidOut(pos)
  BY DEF Chained, MissedNone, Searching
<1>3. PICK x : x = th[t].it
  OBVIOUS
<1>4. x \in Linked /\ Bucket(block[x].hv) = B(t) /\ block[x].next = th'[t].it
  BY <1>3 DEF InItsChain, Here
<1>5. ASSUME NEW y \in Linked, block[y].key = th[t].key
      PROVE  Passable(y) \/ (th'[t].it # NULL /\ pos[th'[t].it] <= pos[y])
  <2>1. Passable(y) \/ pos[x] <= pos[y]
    BY <1>2, <1>3, <1>5 DEF Ahead
  <2>2. Passable(y) \/ y # x
    BY <1>3, <1>5 DEF Here
  <2>3. Bucket(block[y].hv) = Bucket(block[x].hv)
    BY <1>2, <1>4, <1>5 DEF ChainsLaidOut, B, Hv
  <2>4. pos[x] = pos[y] => x = y
    BY <1>2, <1>4, <2>3 DEF ChainsLaidOut
  <2>5. pos[x] < pos[y] => block[x].next # NULL /\ pos[block[x].next] <= pos[y]
    BY <1>2, <1>4, <2>3 DEF ChainsLaidOut
  <2>6. pos[x] \in Nat /\ pos[y] \in Nat
    BY <1>4, LinkedBlocks
  <2> QED BY <1>4, <2>1, <2>2, <2>4, <2>5, <2>6
<1> QED BY <1>1, <1>5 DEF Ahead, LinksStay, SameLinks

LEMMA StartsAtHead ==
    ASSUME TInv, NEW t \in Threads, NEW pos \in [Blocks -> Nat], Chained(pos),
           LinksStay(t), th'[t].key = th[t].key, th'[t].it = chain[B(t)]
    PROVE  Ahead(pos, t)'
<1>1. ChainsLaidOut(pos)
  BY DEF Chained
<1>2. ASSUME NEW y \in Linked, block[y].key = th[t].key
      PROVE  th'[t].it # NULL /\ pos[th'[t].it] <= pos[y]
  <2>1. Bucket(block[y].hv) = B(t)
    BY <1>1, <1>2 DEF ChainsLaidOut, B, Hv
  <2>2. chain[B(t)] \in Linked /\ pos[chain[B(t)]] <= pos[y]
    BY <1>1, <2>1 DEF ChainsLaidOut
  <2> QED BY <2>2, LinkedBlocks
<1> QED BY <1>2 DEF Ahead, LinksStay, SameLinks

-----------------------------------------------------------------------------
(* Calls and gets. *)

LEMMA NotFirst ==
    ASSUME NEW t \in Threads, NEW pos, Chained(pos), th[t].pc \notin Writing \cup {"publish"}
    PROVE  th[t].as # "first"
BY DEF Chained, AloneIfFirst

LEMMA BeginGetChains ==
    ASSUME TInv, UInv, NEW t \in Threads, NEW pos \in [Blocks -> Nat], Chained(pos),
           NEW k \in Keys, BeginGet(t, k), StraightStep
    PROVE  Chained(pos)'
<1>1. /\ th[t].pc = "idle" /\ th'[t].pc = "enter" /\ Moved(t)
      /\ UNCHANGED <<valid, chain, block, lru, leaked>>
      /\ th'[t].as = "insert" /\ th'[t].mine = NULL
  BY BeginGetDoes
<1>2. LinksStay(t)
  BY <1>1, SameBlocks, QuietLinks
<1> QED BY <1>1, <1>2, RestKeeps DEF At, Writing, Searching

LEMMA BeginSetChains ==
    ASSUME TInv, UInv, NEW t \in Threads, NEW pos \in [Blocks -> Nat], Chained(pos),
           NEW k \in Keys, NEW w \in Writes, BeginSet(t, k, w), StraightStep
    PROVE  Chained(pos)'
<1>1. /\ th[t].pc = "idle" /\ th'[t].pc = "enter" /\ Moved(t)
      /\ UNCHANGED <<valid, chain, block, lru, leaked>>
      /\ th'[t].as = "insert" /\ th'[t].mine = NULL
  BY BeginSetDoes
<1>2. LinksStay(t)
  BY <1>1, SameBlocks, QuietLinks
<1> QED BY <1>1, <1>2, RestKeeps DEF At, Writing, Searching

LEMMA EnterChains ==
    ASSUME TInv, UInv, NEW t \in Threads, NEW pos \in [Blocks -> Nat], Chained(pos),
           Enter(t), StraightStep
    PROVE  Chained(pos)'
<1>1. /\ th[t].pc = "enter" /\ entryLock[B(t)] = Nobody /\ Moved(t)
      /\ UNCHANGED <<valid, chain, block, lru, leaked>>
      /\ \/ th[t].op = "get" /\ Goes(t, "barrier", chain[B(t)])
         \/ th[t].op = "set" /\ Goes(t, "head", th[t].it)
         \/ th[t].op = "set" /\ ~valid[B(t)] /\ Moves(t, "room") /\ SameAmounts(t)
            /\ th'[t].it = th[t].it /\ th'[t].mine = th[t].mine /\ th'[t].got = th[t].got
            /\ th'[t].as = "first"
  BY EnterDoes DEF Goes, Moves
<1>2. th[t].mine = NULL /\ th[t].as # "first"
  BY <1>1, OnlyWritersHaveItems, NotFirst DEF Writing
<1>3. th'[t].pc \in {"barrier", "head", "room"}
  BY <1>1 DEF Goes, Moves
<1>4. LinksStay(t)
  BY <1>1, <1>3, SameBlocks, QuietLinks
<1>5. CASE th'[t].pc # "room"
  <2>1. /\ th'[t].mine = NULL /\ th'[t].as # "first"
        /\ th'[t].pc = "barrier" => th'[t].op = "get"
    BY <1>1, <1>2, <1>5 DEF Goes, Moves, SameItems
  <2> QED BY <1>1, <1>3, <1>4, <1>5, <2>1, RestKeeps DEF At, Writing, Searching
\* A bucket that is not valid, and that nobody is about to make valid, is empty.
<1>6. CASE th'[t].pc = "room"
  <2>1. /\ ~valid[B(t)] /\ th'[t].key = th[t].key /\ th'[t].mine = NULL
        /\ th'[t].as = "first"
    BY <1>1, <1>2, <1>6 DEF Goes, Moves
  <2>2. B(t) \in Buckets /\ Nobody \notin Threads
    BY <1>1, PointerTypes, KeyTypes
  <2>3. ASSUME NEW u \in Threads, At(u, "publish"), B(u) = B(t) PROVE FALSE
    <3>1. entryLock[B(u)] = u
      BY <2>3, ThreadTypes DEF LocksOf, At, InEntry
    <3> QED BY <1>1, <2>2, <2>3, <3>1
  <2>4. chain[B(t)] = NULL
    BY <2>1, <2>2, <2>3 DEF Chained, ChainsLaidOut
  <2>5. \A y \in Linked : Bucket(block[y].hv) # B(t)
    BY <2>4, LinkedBlocks DEF Chained, ChainsLaidOut
  <2>6. \A y \in Linked : block[y].key # th[t].key
    BY <2>5 DEF Chained, ChainsLaidOut, B, Hv
  <2>7. Linked' = Linked /\ block' = block
    BY <1>1, <1>4 DEF LinksStay
  <2>8. UnlinkedIfNew(t)'
    BY <2>1 DEF UnlinkedIfNew, Fresh
  <2>9. AloneIfFirst(t)'
    BY <1>6, <2>1, <2>5, <2>7 DEF AloneIfFirst, Writing, B, Hv
  <2>10. MissedNone(pos, t)'
    BY <1>6, <2>1, <2>6, <2>7 DEF MissedNone, Searching
  <2> QED BY <1>1, <1>4, <2>8, <2>9, <2>10, StaysChained DEF At, StraightStep
<1> QED BY <1>5, <1>6

LEMMA WalkEndsChains ==
    ASSUME TInv, UInv, NEW t \in Threads, NEW pos \in [Blocks -> Nat], Chained(pos),
           WalkEnds(t), StraightStep
    PROVE  Chained(pos)'
<1>1. /\ th[t].pc = "walk" /\ th[t].it = NULL
      /\ UNCHANGED <<valid, chain, block, lru, leaked>>
      /\ \/ Returns(t)
         \/ Goes(t, "room", th[t].it) /\ th[t].op = "set"
  BY WalkEndsDoes DEF WalkEnds
<1>2. th[t].mine = NULL /\ th[t].as # "first"
  BY <1>1, OnlyWritersHaveItems, NotFirst DEF Writing
<1>3. CASE Returns(t)
  <2>1. LinksStay(t)
    BY <1>1, <1>3, SameBlocks, QuietLinks DEF Returns, Idle
  <2> QED BY <1>1, <1>3, <2>1, RestKeeps DEF At, Writing, Searching, Returns, Idle
<1>4. CASE Goes(t, "room", th[t].it) /\ th[t].op = "set"
  <2>1. /\ Moved(t) /\ th'[t].pc = "room" /\ th'[t].key = th[t].key
        /\ th'[t].mine = NULL /\ th'[t].as # "first"
    BY <1>2, <1>4 DEF Goes, Moves, SameItems
  <2>2. LinksStay(t)
    BY <1>1, <2>1, SameBlocks, QuietLinks
  <2>3. UnlinkedIfNew(t)' /\ AloneIfFirst(t)'
    BY <2>1 DEF UnlinkedIfNew, AloneIfFirst, Fresh
  <2>4. ASSUME Straight PROVE MissedNone(pos, t)'
    <3>1. \A y \in Linked : block[y].key = th[t].key => Passable(y)
      BY <1>1, <1>4, <2>4 DEF Chained, MissedNone, Searching, InItsChain, Ahead
    <3>2. \A x \in Linked : Passable(x) => Passable(x)'
      BY <1>1, <2>1, PassableStays
    <3>3. Linked' = Linked /\ block' = block
      BY <1>1, <2>2 DEF LinksStay
    <3> QED BY <2>1, <3>1, <3>2, <3>3 DEF MissedNone, Searching
  <2> QED BY <1>1, <2>2, <2>3, <2>4, StaysChained DEF At, StraightStep
<1> QED BY <1>1, <1>3, <1>4

LEMMA GetSharesChains ==
    ASSUME TInv, UInv, NEW t \in Threads, NEW pos \in [Blocks -> Nat], Chained(pos),
           GetShares(t), StraightStep
    PROVE  Chained(pos)'
<1>1. /\ th[t].pc = "choose" /\ UNCHANGED <<valid, chain, leaked>>
      /\ Goes(t, "leave", th[t].it) \/ Goes(t, "pass", th[t].it)
  BY GetSharesDoes
<1>2. th[t].mine = NULL /\ th[t].as # "first"
  BY <1>1, OnlyWritersHaveItems, NotFirst DEF Writing
<1>3. /\ Moved(t) /\ th'[t].pc \in {"leave", "pass"} /\ th'[t].mine = NULL
      /\ th'[t].as # "first"
  BY <1>1, <1>2 DEF Goes, Moves, SameItems
<1>4. PICK x : x = th[t].it
  OBVIOUS
<1>5. x \in Linked /\ x \in ToSet(lru) /\ x \in Blocks
  BY <1>1, <1>4, LinkedBlocks DEF UInv, NotAstray, Astray, Gone
<1>6. PICK n : n = (block[x].readers + 1) % 256
  OBVIOUS
<1>7. block' = [block EXCEPT ![x] = [block[x] EXCEPT !.slock = 0, !.readers = n]]
  BY <1>4, <1>6 DEF GetShares, Here
<1>8. \A y \in Blocks : SameLinks(y)
  BY <1>5, <1>7, OneBlock, HeaderTypes DEF Header
<1>9. lru' = lru \/ lru' = ToFront(x)
  BY <1>4 DEF GetShares
<1>10. LinksStay(t)
  BY <1>1, <1>3, <1>5, <1>8, <1>9, QuietLinks
<1> QED BY <1>1, <1>3, <1>10, RestKeeps DEF At, Writing, Searching

LEMMA GetOwnChains ==
    ASSUME TInv, UInv, NEW t \in Threads, NEW pos \in [Blocks -> Nat], Chained(pos),
           GetOwn(t), StraightStep
    PROVE  Chained(pos)'
<1>1. /\ th[t].pc = "own" /\ UNCHANGED <<valid, chain, leaked>>
      /\ Goes(t, "leave", th[t].it)
  BY GetOwnDoes
<1>2. th[t].mine = NULL /\ th[t].as # "first"
  BY <1>1, OnlyWritersHaveItems, NotFirst DEF Writing
<1>3. Moved(t) /\ th'[t].pc = "leave" /\ th'[t].mine = NULL /\ th'[t].as # "first"
  BY <1>1, <1>2 DEF Goes, Moves, SameItems
<1>4. PICK x : x = th[t].it
  OBVIOUS
<1>5. x \in Linked /\ x \in ToSet(lru) /\ x \in Blocks
  BY <1>1, <1>4, LinkedBlocks DEF UInv, NotAstray, Astray, Gone
<1>6. block' = [block EXCEPT ![x] = [block[x] EXCEPT !.state = "r", !.readers = 1]]
  BY <1>4 DEF GetOwn
<1>7. \A y \in Blocks : SameLinks(y)
  BY <1>5, <1>6, OneBlock, HeaderTypes DEF Header
<1>8. lru' = ToFront(x)
  BY <1>4 DEF GetOwn
<1>9. LinksStay(t)
  BY <1>1, <1>3, <1>5, <1>7, <1>8, QuietLinks
<1> QED BY <1>1, <1>3, <1>9, RestKeeps DEF At, Writing, Searching

\* A release leaves the links of its item.
LEMMA ReleaseLinks ==
    ASSUME TInv, NEW x \in Blocks, block' = [block EXCEPT ![x] = Released(@)]
    PROVE  \A y \in Blocks : SameLinks(y)
<1>1. PICK h : h = Released(block[x])
  OBVIOUS
<1>2. /\ h.hv = block[x].hv /\ h.key = block[x].key
      /\ h.next = block[x].next /\ h.prev = block[x].prev
  <2>1. PICK n : n = (block[x].readers + 255) % 256
    OBVIOUS
  <2>2. h = IF n = 0 THEN [block[x] EXCEPT !.readers = 0, !.state = "-", !.lock = FALSE]
                     ELSE [block[x] EXCEPT !.readers = n]
    BY <1>1, <2>1 DEF Released
  <2> QED BY <2>2, HeaderTypes DEF Header
<1>3. block' = [block EXCEPT ![x] = h]
  BY <1>1
<1> QED BY <1>2, <1>3, OneBlock

LEMMA PassChains ==
    ASSUME TInv, UInv, NEW t \in Threads, NEW pos \in [Blocks -> Nat], Chained(pos),
           Pass(t), StraightStep
    PROVE  Chained(pos)'
<1>1. /\ th[t].pc = "pass" /\ UNCHANGED <<valid, chain, lru, leaked>>
      /\ Goes(t, "walk", Here(t).next)
  BY PassDoes
<1>2. th[t].mine = NULL /\ th[t].as # "first" /\ th[t].op = "get"
  BY <1>1, OnlyWritersHaveItems, NotFirst, ThreadTypes DEF Writing, PointersOf
<1>3. /\ Moved(t) /\ th'[t].pc = "walk" /\ th'[t].mine = NULL /\ th'[t].as # "first"
      /\ th'[t].op = "get"
  BY <1>1, <1>2 DEF Goes, Moves, SameItems
<1>4. PICK x : x = th[t].it
  OBVIOUS
<1>5. x \in Blocks /\ block' = [block EXCEPT ![x] = Released(@)]
  BY <1>1, <1>4, PointerTypes DEF Pass
<1>6. \A y \in Blocks : SameLinks(y)
  BY <1>5, ReleaseLinks
<1>7. LinksStay(t)
  BY <1>1, <1>3, <1>6, QuietLinks
<1> QED BY <1>1, <1>3, <1>7, RestKeeps DEF At, Writing

LEMMA LeaveChains ==
    ASSUME TInv, UInv, NEW t \in Threads, NEW pos \in [Blocks -> Nat], Chained(pos),
           Leave(t), StraightStep
    PROVE  Chained(pos)'
<1>1. /\ th[t].pc = "leave" /\ UNCHANGED <<valid, chain, block, lru, leaked>>
      /\ Goes(t, "copy", th[t].it)
  BY LeaveDoes
<1>2. th[t].mine = NULL /\ th[t].as # "first"
  BY <1>1, OnlyWritersHaveItems, NotFirst DEF Writing
<1>3. Moved(t) /\ th'[t].pc = "copy" /\ th'[t].mine = NULL /\ th'[t].as # "first"
  BY <1>1, <1>2 DEF Goes, Moves, SameItems
<1>4. LinksStay(t)
  BY <1>1, <1>3, SameBlocks, QuietLinks
<1> QED BY <1>1, <1>3, <1>4, RestKeeps DEF At, Writing, Searching

LEMMA EndCopyChains ==
    ASSUME TInv, UInv, NEW t \in Threads, NEW pos \in [Blocks -> Nat], Chained(pos),
           EndCopy(t), StraightStep
    PROVE  Chained(pos)'
<1>1. /\ th[t].pc = "copy" /\ UNCHANGED <<valid, chain, lru, leaked>>
      /\ Moved(t) /\ th'[t] = Idle
  BY EndCopyDoes DEF Returns
<1>2. PICK x : x = th[t].it
  OBVIOUS
<1>3. x \in Blocks /\ block' = [block EXCEPT ![x] = Released(@)]
  BY <1>1, <1>2, PointerTypes DEF EndCopy
<1>4. \A y \in Blocks : SameLinks(y)
  BY <1>3, ReleaseLinks
<1>5. LinksStay(t)
  BY <1>1, <1>4, QuietLinks DEF Idle
<1> QED BY <1>1, <1>5, RestKeeps DEF At, Writing, Searching, Idle

-----------------------------------------------------------------------------
(* A set on its way along the chain. *)

LEMMA ReadHeadChains ==
    ASSUME TInv, UInv, NEW t \in Threads, NEW pos \in [Blocks -> Nat], Chained(pos),
           ReadHead(t), StraightStep
    PROVE  Chained(pos)'
<1>1. /\ th[t].pc = "head" /\ UNCHANGED <<valid, chain, block, lru, leaked>>
      /\ Goes(t, "walk", chain[B(t)])
  BY ReadHeadDoes
<1>2. /\ Moved(t) /\ th'[t].pc = "walk" /\ th'[t].mine = th[t].mine /\ th'[t].as = th[t].as
      /\ th'[t].op = th[t].op /\ th'[t].key = th[t].key /\ th'[t].it = chain[B(t)]
  BY <1>1 DEF Goes, Moves, SameItems
<1>3. LinksStay(t)
  BY <1>1, <1>2, SameBlocks, QuietLinks
<1>4. Ahead(pos, t)'
  BY <1>2, <1>3, StartsAtHead
<1> QED BY <1>1, <1>2, <1>3, <1>4, SearcherKeeps DEF Writing, Searching

LEMMA TakeBarrierChains ==
    ASSUME TInv, UInv, NEW t \in Threads, NEW pos \in [Blocks -> Nat], Chained(pos),
           TakeBarrier(t), StraightStep
    PROVE  Chained(pos)'
<1>1. /\ th[t].pc = "barrier" /\ UNCHANGED <<valid, chain, block, lru, leaked>>
      /\ Goes(t, "walk", th[t].it)
  BY TakeBarrierDoes
<1>2. /\ Moved(t) /\ th'[t].pc = "walk" /\ th'[t].mine = th[t].mine /\ th'[t].as = th[t].as
      /\ th'[t].op = th[t].op /\ th'[t].key = th[t].key /\ th'[t].it = th[t].it
  BY <1>1 DEF Goes, Moves, SameItems
<1>3. LinksStay(t)
  BY <1>1, <1>2, SameBlocks, QuietLinks
<1>4. Straight /\ th[t].op = "set" /\ InItsChain(t)' => Ahead(pos, t)'
  BY <1>1, <1>2, <1>3, StandsStill DEF Searching
<1> QED BY <1>1, <1>2, <1>3, <1>4, SearcherKeeps DEF Writing, Searching

LEMMA WalkOnChains ==
    ASSUME TInv, UInv, NEW t \in Threads, NEW pos \in [Blocks -> Nat], Chained(pos),
           WalkOn(t), StraightStep
    PROVE  Chained(pos)'
<1>1. /\ th[t].pc = "walk" /\ UNCHANGED <<valid, chain, block, lru, leaked>>
      /\ th[t].it # NULL
      /\ \/ Here(t).hv = Hv(t) /\ Goes(t, "state", th[t].it)
         \/ Here(t).hv # Hv(t) /\ Goes(t, "walk", Here(t).next)
  BY WalkOnDoes
<1>2. /\ Moved(t) /\ th'[t].pc \in {"walk", "state"} /\ th'[t].mine = th[t].mine
      /\ th'[t].as = th[t].as /\ th'[t].op = th[t].op /\ th'[t].key = th[t].key
  BY <1>1 DEF Goes, Moves, SameItems
<1>3. LinksStay(t)
  BY <1>1, <1>2, SameBlocks, QuietLinks
<1>4. CASE Goes(t, "state", th[t].it)
  <2>1. th'[t].it = th[t].it
    BY <1>4 DEF Goes
  <2>2. Straight /\ th[t].op = "set" /\ InItsChain(t)' => Ahead(pos, t)'
    BY <1>1, <1>2, <1>3, <2>1, StandsStill DEF Searching
  <2> QED BY <1>1, <1>2, <1>3, <2>2, SearcherKeeps DEF Writing, Searching
\* Every item of the key has its hash.
<1>5. CASE Here(t).hv # Hv(t) /\ Goes(t, "walk", Here(t).next)
  <2>1. th'[t].it = Here(t).next
    BY <1>5 DEF Goes
  <2>2. ASSUME Straight, th[t].op = "set" PROVE Ahead(pos, t)'
    <3>1. InItsChain(t)
      BY <1>1, <2>2 DEF Chained, NotCutOff, CutOff, Gone, InItsChain
    <3>2. Here(t).key # th[t].key
      BY <1>1, <1>5, <3>1 DEF Chained, ChainsLaidOut, InItsChain, Here, Hv
    <3> QED BY <1>1, <1>2, <1>3, <2>1, <2>2, <3>1, <3>2, StepsOn DEF Searching
  <2> QED BY <1>1, <1>2, <1>3, <2>2, SearcherKeeps DEF Writing, Searching
<1> QED BY <1>1, <1>4, <1>5

LEMMA TakeStateChains ==
    ASSUME TInv, UInv, NEW t \in Threads, NEW pos \in [Blocks -> Nat], Chained(pos),
           TakeState(t), StraightStep
    PROVE  Chained(pos)'
<1>1. /\ th[t].pc = "state" /\ UNCHANGED <<valid, chain, lru, leaked>>
      /\ Goes(t, "choose", th[t].it)
  BY TakeStateDoes
<1>2. /\ Moved(t) /\ th'[t].pc = "choose" /\ th'[t].mine = th[t].mine /\ th'[t].as = th[t].as
      /\ th'[t].op = th[t].op /\ th'[t].key = th[t].key /\ th'[t].it = th[t].it
  BY <1>1 DEF Goes, Moves, SameItems
<1>3. PICK x : x = th[t].it
  OBVIOUS
<1>4. x \in Blocks /\ block' = [block EXCEPT ![x] = [block[x] EXCEPT !.slock = 1]]
  BY <1>1, <1>3, PointerTypes DEF TakeState
<1>5. \A y \in Blocks : SameLinks(y)
  BY <1>4, OneBlock, HeaderTypes DEF Header
<1>6. LinksStay(t)
  BY <1>1, <1>2, <1>5, QuietLinks
<1>7. Straight /\ th[t].op = "set" /\ InItsChain(t)' => Ahead(pos, t)'
  BY <1>1, <1>2, <1>6, StandsStill DEF Searching
<1> QED BY <1>1, <1>2, <1>6, <1>7, SearcherKeeps DEF Writing, Searching

LEMMA SetWaitsChains ==
    ASSUME TInv, UInv, NEW t \in Threads, NEW pos \in [Blocks -> Nat], Chained(pos),
           SetWaits(t), StraightStep
    PROVE  Chained(pos)'
<1>1. /\ th[t].pc = "choose" /\ UNCHANGED <<valid, chain, lru, leaked>>
      /\ Goes(t, "barrier", th[t].it)
  BY SetWaitsDoes
<1>2. /\ Moved(t) /\ th'[t].pc = "barrier" /\ th'[t].mine = th[t].mine /\ th'[t].as = th[t].as
      /\ th'[t].op = th[t].op /\ th'[t].key = th[t].key /\ th'[t].it = th[t].it
  BY <1>1 DEF Goes, Moves, SameItems
<1>3. PICK x : x = th[t].it
  OBVIOUS
<1>4. x \in Blocks /\ block' = [block EXCEPT ![x] = [block[x] EXCEPT !.slock = 0]]
  BY <1>1, <1>3, PointerTypes DEF SetWaits
<1>5. \A y \in Blocks : SameLinks(y)
  BY <1>4, OneBlock, HeaderTypes DEF Header
<1>6. LinksStay(t)
  BY <1>1, <1>2, <1>5, QuietLinks
<1>7. Straight /\ th[t].op = "set" /\ InItsChain(t)' => Ahead(pos, t)'
  BY <1>1, <1>2, <1>6, StandsStill DEF Searching
<1> QED BY <1>1, <1>2, <1>6, <1>7, SearcherKeeps DEF Writing, Searching

LEMMA TryItemChains ==
    ASSUME TInv, UInv, NEW t \in Threads, NEW pos \in [Blocks -> Nat], Chained(pos),
           TryItem(t), StraightStep
    PROVE  Chained(pos)'
<1>1. /\ th[t].pc = "choose" /\ UNCHANGED <<valid, chain, lru, leaked>>
      /\ Goes(t, "own", th[t].it)
  BY TryItemDoes
<1>2. /\ Moved(t) /\ th'[t].pc = "own" /\ th'[t].mine = th[t].mine /\ th'[t].as = th[t].as
      /\ th'[t].op = th[t].op /\ th'[t].key = th[t].key /\ th'[t].it = th[t].it
  BY <1>1 DEF Goes, Moves, SameItems
<1>3. PICK x : x = th[t].it
  OBVIOUS
<1>4. /\ x \in Blocks
      /\ block' = [block EXCEPT ![x] = [block[x] EXCEPT !.slock = 0, !.lock = TRUE]]
  BY <1>1, <1>3, PointerTypes DEF TryItem
<1>5. \A y \in Blocks : SameLinks(y)
  BY <1>4, OneBlock, HeaderTypes DEF Header
<1>6. LinksStay(t)
  BY <1>1, <1>2, <1>5, QuietLinks
<1>7. Straight /\ th[t].op = "set" /\ InItsChain(t)' => Ahead(pos, t)'
  BY <1>1, <1>2, <1>6, StandsStill DEF Searching
<1> QED BY <1>1, <1>2, <1>6, <1>7, SearcherKeeps DEF Writing, Searching

\* An item that a set finds locked, and not being read, has been left behind or is being
\* evicted: its bucket's other sets wait for the entry lock.
LEMMA LockedIsPassable ==
    ASSUME TInv, UInv, NEW t \in Threads, At(t, "choose"), Here(t).lock, Here(t).state # "r"
    PROVE  Passable(th[t].it)
<1>1. PICK x : x = th[t].it
  OBVIOUS
<1>2. x \in Linked /\ Bucket(block[x].hv) = B(t) /\ block[x].lock /\ block[x].state # "r"
  BY <1>1 DEF UInv, NotAstray, Astray, Gone, At, Here
<1>3. ItemOk(x)
  BY <1>2 DEF UInv, ItemUse
<1>4. CASE x \in leaked
  BY <1>1, <1>4 DEF Passable
<1>5. CASE \E u \in Threads : Uses(u, x)
  <2>1. PICK u \in Threads : Uses(u, x)
    BY <1>5
  <2>2. ~(Reads(u) /\ th[u].it = x)
    BY <1>2, <2>1, UsedItems
  <2>3. entryLock[B(t)] = t
    BY ThreadTypes DEF LocksOf, At, InEntry, Inside
  <2>4. ~(At(u, "own") /\ th[u].it = x)
    <3>1. SUFFICES ASSUME At(u, "own"), th[u].it = x PROVE FALSE
      OBVIOUS
    <3>2. Bucket(block[x].hv) = B(u)
      BY <3>1 DEF UInv, UserOf, Here
    <3>3. entryLock[B(u)] = u
      BY <3>1, ThreadTypes DEF LocksOf, At, InEntry, Inside
    <3> QED BY <1>2, <2>3, <3>1, <3>2, <3>3 DEF At
  <2>5. ~(Overwrites(u) /\ th[u].mine = x)
    <3>1. SUFFICES ASSUME Overwrites(u), th[u].mine = x PROVE FALSE
      OBVIOUS
    <3>2. Bucket(block[x].hv) = B(u)
      BY <3>1 DEF UInv, UserOf
    <3>3. th[u].pc \in Writing /\ entryLock[B(u)] = u
      BY <3>1, ThreadTypes DEF Overwrites, PointersOf, LocksOf, InEntry
    <3> QED BY <1>2, <2>3, <3>2, <3>3 DEF At, Writing
  <2>6. At(u, "unchain") /\ th[u].got = x
    BY <2>1, <2>2, <2>4, <2>5 DEF Uses
  <2> QED BY <1>1, <2>6 DEF Passable, Evictors, At
<1> QED BY <1>2, <1>3, <1>4, <1>5 DEF ItemOk

LEMMA SkipItemChains ==
    ASSUME TInv, UInv, NEW t \in Threads, NEW pos \in [Blocks -> Nat], Chained(pos),
           SkipItem(t), StraightStep
    PROVE  Chained(pos)'
<1>1. /\ th[t].pc = "choose" /\ UNCHANGED <<valid, chain, lru, leaked>>
      /\ Goes(t, "barrier", Here(t).next)
  BY SkipItemDoes
<1>2. /\ Moved(t) /\ th'[t].pc = "barrier" /\ th'[t].mine = th[t].mine /\ th'[t].as = th[t].as
      /\ th'[t].op = th[t].op /\ th'[t].key = th[t].key /\ th'[t].it = Here(t).next
  BY <1>1 DEF Goes, Moves, SameItems
<1>3. PICK x : x = th[t].it
  OBVIOUS
<1>4. x \in Blocks /\ block' = [block EXCEPT ![x] = [block[x] EXCEPT !.slock = 0]]
  BY <1>1, <1>3, PointerTypes DEF SkipItem
<1>5. \A y \in Blocks : SameLinks(y)
  BY <1>4, OneBlock, HeaderTypes DEF Header
<1>6. LinksStay(t)
  BY <1>1, <1>2, <1>5, QuietLinks
<1>7. InItsChain(t) /\ th[t].it # NULL
  BY <1>1, <1>3, <1>4, KeyTypes DEF UInv, NotAstray, Astray, Gone, InItsChain
<1>8. Passable(th[t].it)
  BY <1>1, LockedIsPassable DEF SkipItem, At
<1>9. Straight /\ th[t].op = "set" => Ahead(pos, t)'
  BY <1>1, <1>2, <1>6, <1>7, <1>8, StepsOn DEF Searching
<1> QED BY <1>1, <1>2, <1>6, <1>9, SearcherKeeps DEF Writing, Searching

LEMMA OtherKeyChains ==
    ASSUME TInv, UInv, NEW t \in Threads, NEW pos \in [Blocks -> Nat], Chained(pos),
           OtherKey(t), StraightStep
    PROVE  Chained(pos)'
<1>1. /\ th[t].pc = "own" /\ UNCHANGED <<valid, chain, lru, leaked>>
      /\ Goes(t, "walk", Here(t).next)
  BY OtherKeyDoes
<1>2. /\ Moved(t) /\ th'[t].pc = "walk" /\ th'[t].mine = th[t].mine /\ th'[t].as = th[t].as
      /\ th'[t].op = th[t].op /\ th'[t].key = th[t].key /\ th'[t].it = Here(t).next
  BY <1>1 DEF Goes, Moves, SameItems
<1>3. PICK x : x = th[t].it
  OBVIOUS
<1>4. x \in Blocks /\ block' = [block EXCEPT ![x] = [block[x] EXCEPT !.lock = FALSE]]
  BY <1>1, <1>3, PointerTypes DEF OtherKey
<1>5. \A y \in Blocks : SameLinks(y)
  BY <1>4, OneBlock, HeaderTypes DEF Header
<1>6. LinksStay(t)
  BY <1>1, <1>2, <1>5, QuietLinks
<1>7. InItsChain(t) /\ th[t].it # NULL
  BY <1>1, <1>3, <1>4, KeyTypes DEF UInv, NotAstray, Astray, Gone, InItsChain
<1>8. Here(t).key # th[t].key
  BY DEF OtherKey, KeyMatches
<1>9. Straight /\ th[t].op = "set" => Ahead(pos, t)'
  BY <1>1, <1>2, <1>6, <1>7, <1>8, StepsOn DEF Searching
<1> QED BY <1>1, <1>2, <1>6, <1>9, SearcherKeeps DEF Writing, Searching

LEMMA SetTooOldChains ==
    ASSUME TInv, UInv, NEW t \in Threads, NEW pos \in [Blocks -> Nat], Chained(pos),
           SetTooOld(t), StraightStep
    PROVE  Chained(pos)'
<1>1. /\ th[t].pc = "own" /\ UNCHANGED <<valid, chain, block, lru>>
      /\ Moved(t) /\ th'[t] = Idle
  BY SetTooOldDoes DEF Returns
<1>2. LinksStay(t)
  BY <1>1, SameBlocks, QuietLinks DEF Idle
<1>3. leaked \subseteq leaked'
  BY DEF SetTooOld
<1> QED BY <1>1, <1>2, <1>3, RestKeeps DEF At, Writing, Searching, Idle

LEMMA SetOwnChains ==
    ASSUME TInv, UInv, NEW t \in Threads, NEW pos \in [Blocks -> Nat], Chained(pos),
           SetOwn(t), StraightStep
    PROVE  Chained(pos)'
<1>1. /\ th[t].pc = "own" /\ UNCHANGED <<valid, chain, lru, leaked>>
      /\ Moved(t) /\ th'[t].pc \in {"room", "drop", "finish"} /\ th'[t].as = "over"
  BY SetOwnDoes DEF Moves
<1>2. PICK x, n : x = th[t].it /\ n = th[t].ver
  OBVIOUS
<1>3. /\ x \in Blocks
      /\ block' = [block EXCEPT ![x] = [block[x] EXCEPT !.state = "w", !.size = 1,
                                                        !.ver = n]]
  BY <1>1, <1>2, PointerTypes DEF SetOwn
<1>4. \A y \in Blocks : SameLinks(y)
  BY <1>3, OneBlock, HeaderTypes DEF Header
<1>5. LinksStay(t)
  BY <1>1, <1>4, QuietLinks
<1>6. UnlinkedIfNew(t)' /\ AloneIfFirst(t)' /\ MissedNone(pos, t)'
  BY <1>1 DEF UnlinkedIfNew, AloneIfFirst, MissedNone, Fresh, Searching
<1> QED BY <1>1, <1>5, <1>6, StaysChained DEF At, StraightStep

-----------------------------------------------------------------------------
(* A set that writes its item, and the evictor. *)

LEMMA QuietWriter ==
    ASSUME TInv, UInv, NEW t \in Threads, NEW pos \in [Blocks -> Nat], Chained(pos),
           th[t].pc \in Writing \ {"unchain", "reclaim"}, Moves(t, th'[t].pc),
           th'[t].pc \in Writing \ {"reclaim"},
           th'[t].as = th[t].as, th'[t].mine = th[t].mine, \A x \in Blocks : SameLinks(x),
           chain' = chain, valid' = valid, leaked' = leaked,
           lru' = lru \/ \E x \in ToSet(lru) : lru' = ToFront(x), StraightStep
    PROVE  Chained(pos)'
<1>1. Moved(t) /\ th'[t].key = th[t].key
  BY DEF Moves
<1>2. LinksStay(t)
  BY <1>1, QuietLinks
<1>3. Fresh(t) => SameLinks(th[t].mine)
  BY LinkedBlocks DEF Fresh
<1> QED BY <1>1, <1>2, <1>3, WriterKeeps

LEMMA RoomChains ==
    ASSUME TInv, UInv, NEW t \in Threads, NEW pos \in [Blocks -> Nat], Chained(pos),
           Room(t), StraightStep
    PROVE  Chained(pos)'
<1>1. /\ th[t].pc = "room" /\ UNCHANGED <<valid, chain, block, lru, leaked>>
      /\ Goes(t, "evict_lock", th[t].it) \/ Goes(t, "pop", th[t].it)
  BY RoomDoes
<1>2. /\ Moves(t, th'[t].pc) /\ th'[t].pc \in {"evict_lock", "pop"}
      /\ th'[t].as = th[t].as /\ th'[t].mine = th[t].mine
  BY <1>1 DEF Goes, Moves, SameItems
<1> QED BY <1>1, <1>2, SameBlocks, QuietWriter DEF Writing

LEMMA EvictLockChains ==
    ASSUME TInv, UInv, NEW t \in Threads, NEW pos \in [Blocks -> Nat], Chained(pos),
           EvictLock(t), StraightStep
    PROVE  Chained(pos)'
<1>1. /\ th[t].pc = "evict_lock" /\ UNCHANGED <<valid, chain, block, lru, leaked>>
      /\ (Moves(t, "tail") /\ SameItems(t)) \/ Goes(t, "pop", th[t].it)
  BY EvictLockDoes
<1>2. /\ Moves(t, th'[t].pc) /\ th'[t].pc \in {"tail", "pop"}
      /\ th'[t].as = th[t].as /\ th'[t].mine = th[t].mine
  BY <1>1 DEF Goes, Moves, SameItems
<1> QED BY <1>1, <1>2, SameBlocks, QuietWriter DEF Writing

LEMMA ReadTailChains ==
    ASSUME TInv, UInv, NEW t \in Threads, NEW pos \in [Blocks -> Nat], Chained(pos),
           ReadTail(t), StraightStep
    PROVE  Chained(pos)'
<1>1. /\ th[t].pc = "tail" /\ UNCHANGED <<valid, chain, block, lru, leaked>>
      /\ \/ Goes(t, "crash", th[t].it)
         \/ Moves(t, "try") /\ th'[t].as = th[t].as /\ th'[t].mine = th[t].mine
  BY ReadTailDoes
<1>2. /\ Moves(t, th'[t].pc) /\ th'[t].pc \in {"crash", "try"}
      /\ th'[t].as = th[t].as /\ th'[t].mine = th[t].mine
  BY <1>1 DEF Goes, Moves, SameItems
<1> QED BY <1>1, <1>2, SameBlocks, QuietWriter DEF Writing

LEMMA TryTailChains ==
    ASSUME TInv, UInv, NEW t \in Threads, NEW pos \in [Blocks -> Nat], Chained(pos),
           TryTail(t), StraightStep
    PROVE  Chained(pos)'
<1>1. /\ th[t].pc = "try" /\ UNCHANGED <<valid, chain, leaked>>
      /\ Goes(t, "tail", th[t].it) \/ Goes(t, "unchain", th[t].it)
  BY TryTailDoes
<1>2. /\ Moves(t, th'[t].pc) /\ th'[t].pc \in {"tail", "unchain"}
      /\ th'[t].as = th[t].as /\ th'[t].mine = th[t].mine
  BY <1>1 DEF Goes, Moves, SameItems
<1>3. PICK x : x = th[t].got
  OBVIOUS
<1>4. x \in Blocks /\ x \in ToSet(lru)
  BY <1>1, <1>3, TailIsLinked DEF At
<1>5. \/ lru' = ToFront(x) /\ block' = block
      \/ lru' = lru /\ block' = [block EXCEPT ![x] = [block[x] EXCEPT !.lock = TRUE]]
  BY <1>3 DEF TryTail
<1>6. \A y \in Blocks : SameLinks(y)
  <2>1. CASE block' = block
    BY <2>1, SameBlocks
  <2>2. CASE block' = [block EXCEPT ![x] = [block[x] EXCEPT !.lock = TRUE]]
    BY <1>4, <2>2, OneBlock, HeaderTypes DEF Header
  <2> QED BY <1>5, <2>1, <2>2
<1>7. lru' = lru \/ \E y \in ToSet(lru) : lru' = ToFront(y)
  BY <1>4, <1>5
<1> QED BY <1>1, <1>2, <1>6, <1>7, QuietWriter DEF Writing

LEMMA EvictEndChains ==
    ASSUME TInv, UInv, NEW t \in Threads, NEW pos \in [Blocks -> Nat], Chained(pos),
           EvictEnd(t), StraightStep
    PROVE  Chained(pos)'
<1>1. /\ th[t].pc = "evict_end" /\ UNCHANGED <<valid, chain, block, lru, leaked>>
      /\ Goes(t, "pop", th[t].it)
  BY EvictEndDoes
<1>2. /\ Moves(t, th'[t].pc) /\ th'[t].pc = "pop"
      /\ th'[t].as = th[t].as /\ th'[t].mine = th[t].mine
  BY <1>1 DEF Goes, Moves, SameItems
<1> QED BY <1>1, <1>2, SameBlocks, QuietWriter DEF Writing

LEMMA CountBackChains ==
    ASSUME TInv, UInv, NEW t \in Threads, NEW pos \in [Blocks -> Nat], Chained(pos),
           CountBack(t), StraightStep
    PROVE  Chained(pos)'
<1>1. /\ th[t].pc = "count" /\ UNCHANGED <<valid, chain, block, lru, leaked>>
      /\ Goes(t, "finish", th[t].it)
  BY CountBackDoes
<1>2. /\ Moves(t, th'[t].pc) /\ th'[t].pc = "finish"
      /\ th'[t].as = th[t].as /\ th'[t].mine = th[t].mine
  BY <1>1 DEF Goes, Moves, SameItems
<1> QED BY <1>1, <1>2, SameBlocks, QuietWriter DEF Writing

\* Blocks change that are not items, or only the item that was unchained.
LEMMA ApartLinks ==
    ASSUME TInv, UInv, NEW t \in Threads, NEW pos \in [Blocks -> Nat], Chained(pos),
           th[t].pc \in Writing \ {"unchain"}, Moves(t, th'[t].pc), th'[t].pc \in Writing,
           th'[t].as = th[t].as, th'[t].mine = th[t].mine, NEW e, e \notin Linked,
           \A u \in Threads : Fresh(u) => th[u].mine # e,
           \A x \in Items \ {e} : SameLinks(x), Linked' = Linked,
           chain' = chain, valid' = valid, \A x \in Linked : x \in leaked => x \in leaked',
           StraightStep
    PROVE  Chained(pos)'
<1>1. Moved(t) /\ th'[t].key = th[t].key
  BY DEF Moves
<1>2. Linked \subseteq Items \ {e}
  BY LinkedBlocks
<1>3. \A u \in Threads : Fresh(u) => SameLinks(th[u].mine)
  BY LinkedBlocks DEF Fresh
<1>4. LinksStay(t)
  BY <1>1, <1>2, <1>3 DEF LinksStay
<1> QED BY <1>1, <1>3, <1>4, WriterKeeps

LEMMA ReclaimChains ==
    ASSUME TInv, UInv, NEW t \in Threads, NEW pos \in [Blocks -> Nat], Chained(pos),
           Reclaim(t), StraightStep
    PROVE  Chained(pos)'
<1>1. /\ th[t].pc = "reclaim" /\ Moves(t, th'[t].pc) /\ th'[t].as = th[t].as
      /\ th'[t].mine = th[t].mine /\ th'[t].pc \in {"tail", "evict_end"}
      /\ UNCHANGED <<valid, chain>>
  BY ReclaimDoes
<1>3. PICK x0 \in Blocks :
           /\ leaked' = leaked \ {x0} /\ x0 \notin Linked /\ Linked' = Linked
           /\ \A u \in Threads : th[u].mine # x0
           /\ \A x \in Items \ {x0} : block'[x] = block[x]
  BY ReclaimSets
<1>4. \A x \in Items \ {x0} : SameLinks(x)
  BY <1>3 DEF SameLinks
<1> QED BY <1>1, <1>3, <1>4, ApartLinks DEF Writing

LEMMA PopChains ==
    ASSUME TInv, UInv, NEW t \in Threads, NEW pos \in [Blocks -> Nat], Chained(pos),
           Pop(t), StraightStep
    PROVE  Chained(pos)'
<1>1. /\ th[t].pc = "pop" /\ UNCHANGED <<valid, chain, lru, leaked>>
      /\ \/ Goes(t, "crash", th[t].it) /\ UNCHANGED <<free, block>>
         \/ /\ Moves(t, "fill") /\ th'[t].got = Head(free)
            /\ th'[t].as = th[t].as /\ th'[t].mine = th[t].mine
            /\ free # << >> /\ Head(free) \in Blocks
  BY PopDoes
<1>2. CASE Goes(t, "crash", th[t].it) /\ UNCHANGED <<free, block>>
  <2>1. /\ Moves(t, th'[t].pc) /\ th'[t].pc = "crash"
        /\ th'[t].as = th[t].as /\ th'[t].mine = th[t].mine
    BY <1>2 DEF Goes, Moves, SameItems
  <2> QED BY <1>1, <1>2, <2>1, SameBlocks, QuietWriter DEF Writing
<1>3. CASE /\ Moves(t, "fill") /\ th'[t].got = Head(free)
           /\ th'[t].as = th[t].as /\ th'[t].mine = th[t].mine
           /\ free # << >> /\ Head(free) \in Blocks
  <2>1. PICK h \in Blocks : h = Head(free)
    BY <1>3
  <2>2. block' = [block EXCEPT ![h] = Zero]
    BY <1>3, <2>1 DEF Pop
  <2>3. h \in ToSet(free)
    BY <1>3, <2>1, StateTypes, ToSetFacts
  <2>4. h \notin Items
    BY <2>1, <2>3 DEF UInv, Placed
  <2>5. \A x \in Items : SameLinks(x)
    BY <2>1, <2>2, <2>4, OneHeader, LinkedBlocks DEF SameLinks
  <2>6. Moved(t) /\ th'[t].pc = "fill"
    BY <1>3 DEF Moves
  <2>7. Linked' = Linked
    BY <1>1, <2>6, SameLinked
  <2>8. NULL \notin Linked /\ \A u \in Threads : Fresh(u) => th[u].mine # NULL
    BY LinkedBlocks DEF Fresh
  <2> QED BY <1>1, <1>3, <2>5, <2>6, <2>7, <2>8, ApartLinks DEF Writing
<1> QED BY <1>1, <1>2, <1>3

LEMMA FillItemChains ==
    ASSUME TInv, UInv, NEW t \in Threads, NEW pos \in [Blocks -> Nat], Chained(pos),
           FillItem(t), StraightStep
    PROVE  Chained(pos)'
<1>1. /\ th[t].pc = "fill" /\ UNCHANGED <<valid, chain, lru, leaked>>
      /\ Moves(t, th'[t].pc) /\ th'[t].pc \in {"room", "drop", "finish"}
      /\ th'[t].mine = th[t].got /\ th'[t].as = th[t].as
  BY FillItemDoes
<1>2. PICK g : g = th[t].got
  OBVIOUS
<1>3. g \in Blocks /\ g \notin Items
  BY <1>1, <1>2, InHandApart
<1>4. /\ \A x \in Blocks \ {g} : block'[x] = block[x]
      /\ block'[g] = [Zero EXCEPT !.hv = Hv(t), !.key = th[t].key, !.size = 1,
                                  !.ver = th[t].ver]
  BY <1>2, <1>3, OneHeader DEF FillItem
<1>5. block'[g].prev = NULL /\ block'[g].next = NULL
  BY <1>4 DEF Zero
<1>6. Moved(t) /\ th'[t].key = th[t].key /\ th'[t].mine = g
  BY <1>1, <1>2 DEF Moves
<1>7. th[t].as # "over"
  BY DEF UInv, UserOf, FillItem
<1>8. Linked' = Linked
  BY <1>1, <1>6, SameLinked
<1>9. \A x \in Items : SameLinks(x)
  BY <1>3, <1>4, LinkedBlocks DEF SameLinks
<1>10. LinksStay(t)
  BY <1>1, <1>6, <1>8, <1>9, LinkedBlocks DEF LinksStay, Fresh
<1>11. UnlinkedIfNew(t)'
  BY <1>5, <1>6 DEF UnlinkedIfNew
<1>12. AloneIfFirst(t)'
  <2>1. th'[t].pc \in Writing /\ th[t].pc \in Writing
    BY <1>1 DEF Writing
  <2> QED BY <1>1, <1>6, <1>8, <1>9, <2>1, LinkedBlocks, ZenonT(40)
          DEF Chained, AloneIfFirst, SameLinks, B, Hv
<1>13. ASSUME Straight PROVE MissedNone(pos, t)'
  <2>1. \A x \in Linked : Passable(x) => Passable(x)'
    BY <1>1, <1>6, PassableStays
  <2>2. th[t].pc \in Writing /\ th'[t].pc \notin Searching
    BY <1>1 DEF Writing, Searching
  <2>3. \A y \in Linked : block[y].key = th[t].key => Passable(y)
    BY <1>7, <1>13, <2>2 DEF Chained, MissedNone
  <2>4. \A y \in Linked' : block'[y].key = th'[t].key => Passable(y)'
    BY <1>6, <1>8, <1>9, <2>1, <2>3, LinkedBlocks DEF SameLinks
  <2> QED BY <2>2, <2>4 DEF MissedNone
<1> QED BY <1>1, <1>10, <1>11, <1>12, <1>13, StaysChained DEF At, StraightStep

LEMMA FillFragmentChains ==
    ASSUME TInv, UInv, NEW t \in Threads, NEW pos \in [Blocks -> Nat], Chained(pos),
           FillFragment(t), StraightStep
    PROVE  Chained(pos)'
<1>1. /\ th[t].pc = "fill" /\ UNCHANGED <<valid, chain, lru, leaked>>
      /\ Moves(t, th'[t].pc) /\ th'[t].pc \in {"room", "drop", "finish"}
      /\ th'[t].mine = th[t].mine /\ th'[t].as = th[t].as /\ th[t].mine # NULL
  BY FillFragmentDoes
<1>2. PICK g, m : g = th[t].got /\ m = th[t].mine
  OBVIOUS
<1>3. g \in Blocks /\ m \in Blocks /\ m # g
  BY <1>1, <1>2, InHandApart, LinkedBlocks
<1>4. PICK f, n : block' = [block EXCEPT ![g].slock = FragBytes, ![m].frags = f,
                                         ![m].size = n]
  BY <1>2 DEF FillFragment
<1>5. ASSUME NEW x \in Blocks PROVE SameLinks(x)
  <2>1. block \in [Blocks -> Header]
    BY StateTypes
  <2>2. CASE x = g
    <3>1. block'[x] = [block[x] EXCEPT !.slock = FragBytes]
      BY <1>3, <1>4, <2>1, <2>2
    <3> QED BY <2>1, <3>1 DEF SameLinks, Header
  <2>3. CASE x = m
    <3>1. block'[x] = [block[x] EXCEPT !.frags = f, !.size = n]
      BY <1>3, <1>4, <2>1, <2>3
    <3> QED BY <2>1, <3>1 DEF SameLinks, Header
  <2>4. CASE x # g /\ x # m
    <3>1. block'[x] = block[x]
      BY <1>3, <1>4, <2>1, <2>4
    <3> QED BY <3>1 DEF SameLinks
  <2> QED BY <2>2, <2>3, <2>4
<1> QED BY <1>1, <1>5, QuietWriter DEF Writing

LEMMA GiveBackChains ==
    ASSUME TInv, UInv, NEW t \in Threads, NEW pos \in [Blocks -> Nat], Chained(pos),
           GiveBack(t), StraightStep
    PROVE  Chained(pos)'
<1>1. th[t].pc = "drop" /\ UNCHANGED <<valid, chain, lru, leaked>>
      /\ ((Goes(t, "finish", th[t].it) /\ UNCHANGED <<block, free>>) \/ Moves(t, "count"))
  BY GiveBackDoes
<1>2. CASE Goes(t, "finish", th[t].it) /\ UNCHANGED <<block, free>>
  <2>1. /\ Moves(t, th'[t].pc) /\ th'[t].pc = "finish"
        /\ th'[t].as = th[t].as /\ th'[t].mine = th[t].mine
    BY <1>2 DEF Goes, Moves, SameItems
  <2> QED BY <1>1, <1>2, <2>1, SameBlocks, QuietWriter DEF Writing
<1>3. CASE Moves(t, "count")
  <2>1. Moved(t) /\ th'[t].pc = "count"
    BY <1>3 DEF Moves
  <2>3. PICK m \in Blocks, kept, extra \in Seq(Blocks) : GivenBack(t, m, kept, extra)
    BY <2>1, GiveBackHeads
  <2>4. /\ block[m] \in Header
        /\ \A y \in ToSet(extra) : y \notin Items
        /\ \A x \in Blocks \ ToSet(extra) : x # m => block'[x] = block[x]
        /\ block'[m] = [block[m] EXCEPT !.frags = kept]
        /\ th'[t].as = th[t].as /\ th'[t].mine = th[t].mine
    BY <2>3 DEF GivenBack
  <2>5. ASSUME NEW x \in Items PROVE SameLinks(x)
    <3>1. CASE x = m
      BY <2>4, <3>1 DEF SameLinks, Header
    <3>2. CASE x # m
      <4>1. block'[x] = block[x]
        BY <2>4, <3>2, LinkedBlocks
      <4> QED BY <4>1 DEF SameLinks
    <3> QED BY <3>1, <3>2
  <2>6. Linked' = Linked
    BY <1>1, <2>1, SameLinked
  <2>7. NULL \notin Linked /\ \A u \in Threads : Fresh(u) => th[u].mine # NULL
    BY LinkedBlocks DEF Fresh
  <2> QED BY <1>1, <1>3, <2>1, <2>4, <2>5, <2>6, <2>7, ApartLinks DEF Writing
<1> QED BY <1>1, <1>2, <1>3

LEMMA PublishChains ==
    ASSUME TInv, UInv, NEW t \in Threads, NEW pos \in [Blocks -> Nat], Chained(pos),
           Publish(t), StraightStep
    PROVE  Chained(pos)'
<1>1. /\ th[t].pc = "publish" /\ UNCHANGED <<chain, block, lru, leaked>>
      /\ Moved(t) /\ th'[t] = Idle
  BY PublishDoes DEF Returns
<1>2. B(t) \in Buckets
  BY <1>1, PointerTypes
<1>3. valid' = [valid EXCEPT ![B(t)] = TRUE]
  BY DEF Publish
<1>4. valid'[B(t)] /\ \A b \in Buckets : valid[b] => valid'[b]
  BY <1>2, <1>3, StateTypes
<1>5. LinksStay(t)
  BY <1>1, <1>4, SameBlocks, QuietLinks DEF Idle
<1> QED BY <1>1, <1>4, <1>5, RestKeeps DEF At, Writing, Searching, Idle

LEMMA FinishOverwriteChains ==
    ASSUME TInv, UInv, NEW t \in Threads, NEW pos \in [Blocks -> Nat], Chained(pos),
           FinishOverwrite(t), StraightStep
    PROVE  Chained(pos)'
<1>1. /\ th[t].pc = "finish" /\ UNCHANGED <<valid, chain, leaked>>
      /\ Moved(t) /\ th'[t] = Idle
  BY FinishOverwriteDoes DEF Returns
<1>2. PICK m : m = th[t].mine
  OBVIOUS
<1>3. /\ block' = [block EXCEPT ![m] = [block[m] EXCEPT !.state = "-", !.lock = FALSE]]
      /\ lru' = ToFront(m) /\ th[t].as = "over"
  BY <1>2 DEF FinishOverwrite
<1>4. m \in ToSet(lru) /\ m \in Blocks
  <2>1. Overwrites(t)
    BY <1>3 DEF UInv, UserOf, Overwrites
  <2> QED BY <1>2, <2>1, LinkedBlocks DEF UInv, UserOf
<1>5. \A y \in Blocks : SameLinks(y)
  BY <1>3, <1>4, OneBlock, HeaderTypes DEF Header
<1>6. LinksStay(t)
  BY <1>1, <1>3, <1>4, <1>5, QuietLinks DEF Idle
<1> QED BY <1>1, <1>6, RestKeeps DEF At, Writing, Searching, Idle

-----------------------------------------------------------------------------
(* Linking and unlinking. *)

\* The places of the neighbours of a linked item.
LEMMA Neighbours ==
    ASSUME TInv, NEW pos \in [Blocks -> Nat], ChainsLaidOut(pos), NEW x \in Linked,
           NEW p, NEW n, NEW b, p = block[x].prev, n = block[x].next,
           b = Bucket(block[x].hv)
    PROVE  /\ b \in Buckets /\ x \in Blocks
           /\ chain[b] = x <=> p = NULL
           /\ p # NULL => /\ p \in Linked /\ p \in Blocks /\ block[p].next = x
                          /\ Bucket(block[p].hv) = b /\ pos[p] < pos[x]
           /\ n # NULL => /\ n \in Linked /\ n \in Blocks /\ block[n].prev = x
                          /\ Bucket(block[n].hv) = b /\ pos[x] < pos[n]
           /\ p # x /\ n # x /\ (p = n => p = NULL)
<1>1. /\ chain[b] = x <=> p = NULL
      /\ p # NULL => p \in Linked /\ block[p].next = x
      /\ n # NULL => /\ n \in Linked /\ block[n].prev = x
                     /\ Bucket(block[n].hv) = b /\ pos[x] < pos[n]
  BY DEF ChainsLaidOut
<1>2. x # NULL /\ x \in Blocks /\ Linked \subseteq Blocks /\ b \in Buckets
  BY LinkedTypes, LinkedBlocks
<1>3. p # NULL => Bucket(block[p].hv) = b /\ pos[p] < pos[x]
  BY <1>1, <1>2 DEF ChainsLaidOut
<1>4. /\ p # NULL => pos[p] \in Nat
      /\ n # NULL => pos[n] \in Nat
      /\ pos[x] \in Nat
  BY <1>1, <1>2
<1> QED BY <1>1, <1>2, <1>3, <1>4

LEMMA UnchainLaysOut ==
    ASSUME TInv, UInv, NEW t \in Threads, NEW pos \in [Blocks -> Nat], ChainsLaidOut(pos),
           Unchain(t), NEW x0, x0 = th[t].got, x0 \in Linked, Linked' = Linked \ {x0}
    PROVE  ChainsLaidOut(pos)'
<1>1. th[t].pc = "unchain" /\ Moved(t)
  BY UnchainDoes DEF Goes, Moves
<1>2. PICK p, n, b : p = block[x0].prev /\ n = block[x0].next /\ b = Bucket(block[x0].hv)
  OBVIOUS
<1>3. /\ b \in Buckets /\ x0 \in Blocks
      /\ chain[b] = x0 <=> p = NULL
      /\ p # NULL => /\ p \in Linked /\ p \in Blocks /\ block[p].next = x0
                     /\ Bucket(block[p].hv) = b /\ pos[p] < pos[x0]
      /\ n # NULL => /\ n \in Linked /\ n \in Blocks /\ block[n].prev = x0
                     /\ Bucket(block[n].hv) = b /\ pos[x0] < pos[n]
      /\ p # x0 /\ n # x0 /\ (p = n => p = NULL)
  BY <1>2, Neighbours
<1>4. /\ block' = Unlinked(p, n)
      /\ p = NULL => /\ chain' = [chain EXCEPT ![b] = n]
                     /\ valid' = [valid EXCEPT ![b] = @ /\ n # NULL]
      /\ p # NULL => chain' = chain /\ valid' = valid
  BY <1>2 DEF Unchain
<1>5. /\ Linked \subseteq Blocks /\ NULL \notin Blocks /\ chain \in [Buckets -> 0 .. NumBlocks]
      /\ valid \in [Buckets -> BOOLEAN] /\ block \in [Blocks -> Header]
  BY LinkedBlocks, StateTypes, KeyTypes
<1>6. \A x \in Blocks : /\ block'[x].hv = block[x].hv /\ block'[x].key = block[x].key
                        /\ block'[x].next = IF x = p THEN n ELSE block[x].next
                        /\ block'[x].prev = IF x = n THEN p ELSE block[x].prev
  <2> SUFFICES ASSUME NEW x \in Blocks
               PROVE  /\ block'[x].hv = block[x].hv /\ block'[x].key = block[x].key
                      /\ block'[x].next = IF x = p THEN n ELSE block[x].next
                      /\ block'[x].prev = IF x = n THEN p ELSE block[x].prev
    OBVIOUS
  <2>1. block[x] \in Header /\ x # NULL
    BY <1>5
  <2>2. CASE x = p
    <3>1. block'[x] = [block[x] EXCEPT !.next = n] /\ x # n
      BY <1>3, <1>4, <2>1, <2>2 DEF Unlinked
    <3> QED BY <2>1, <2>2, <3>1 DEF Header
  <2>3. CASE x = n
    <3>1. block'[x] = [block[x] EXCEPT !.prev = p] /\ x # p
      BY <1>3, <1>4, <2>1, <2>3 DEF Unlinked
    <3> QED BY <2>1, <2>3, <3>1 DEF Header
  <2>4. CASE x # p /\ x # n
    BY <1>4, <2>4 DEF Unlinked
  <2> QED BY <2>2, <2>3, <2>4
<1>7. \A c \in Buckets : c # b \/ p # NULL => chain'[c] = chain[c] /\ valid'[c] = valid[c]
  BY <1>3, <1>4, <1>5
<1>8. p = NULL => chain'[b] = n /\ (n # NULL => valid'[b] = valid[b])
  BY <1>3, <1>4, <1>5
<1>9. ASSUME NEW x \in Linked'
      PROVE  LET h == block'[x]
                 c == Bucket(h.hv)
             IN  /\ h.hv = Hash[h.key] /\ h.key \in Keys
                 /\ chain'[c] \in Linked' /\ pos[chain'[c]] <= pos[x]
                 /\ chain'[c] = x <=> h.prev = NULL
                 /\ h.prev # NULL => h.prev \in Linked' /\ block'[h.prev].next = x
                 /\ h.next # NULL => /\ h.next \in Linked'
                                     /\ block'[h.next].prev = x
                                     /\ Bucket(block'[h.next].hv) = c
                                     /\ pos[x] < pos[h.next]
  <2>1. x \in Linked /\ x # x0 /\ x \in Blocks /\ x # NULL
    BY <1>5, <1>9
  <2>2. PICK c, q, r : c = Bucket(block[x].hv) /\ q = block[x].prev /\ r = block[x].next
    OBVIOUS
  <2>3. /\ c \in Buckets
        /\ chain[c] = x <=> q = NULL
        /\ q # NULL => /\ q \in Linked /\ q \in Blocks /\ block[q].next = x
                       /\ Bucket(block[q].hv) = c /\ pos[q] < pos[x]
        /\ r # NULL => /\ r \in Linked /\ r \in Blocks /\ block[r].prev = x
                       /\ Bucket(block[r].hv) = c /\ pos[x] < pos[r]
        /\ q # x /\ r # x
    BY <2>1, <2>2, Neighbours
  <2>4. /\ block'[x].hv = Hash[block'[x].key] /\ block'[x].key \in Keys
        /\ Bucket(block'[x].hv) = c
        /\ block'[x].next = IF x = p THEN n ELSE r
        /\ block'[x].prev = IF x = n THEN p ELSE q
    BY <1>6, <2>1, <2>2 DEF ChainsLaidOut
  <2>5. /\ chain[c] \in Linked /\ pos[chain[c]] <= pos[x]
        /\ Bucket(block[chain[c]].hv) = c
    BY <1>5, <2>1, <2>2, <2>3 DEF ChainsLaidOut
  <2>6. /\ chain'[c] \in Linked' /\ pos[chain'[c]] <= pos[x]
    <3>1. CASE c = b /\ p = NULL
      <4>0. Bucket(block[x0].hv) = Bucket(block[x].hv)
        BY <1>2, <2>2, <3>1
      <4>1. pos[x0] <= pos[x] /\ pos[x0] # pos[x]
        <5>1. pos[x0] <= pos[x]
          BY <1>3, <2>5, <3>1
        <5>2. pos[x0] = pos[x] => x0 = x
          BY <2>1, <4>0 DEF ChainsLaidOut
        <5> QED BY <2>1, <5>1, <5>2
      <4>2. pos[x0] < pos[x]
        BY <1>3, <2>1, <4>1
      <4>3. n # NULL /\ pos[n] <= pos[x]
        <5>1. block[x0].next # NULL /\ pos[block[x0].next] <= pos[x]
          BY <2>1, <4>0, <4>2 DEF ChainsLaidOut
        <5> QED BY <1>2, <5>1
      <4> QED BY <1>3, <1>8, <3>1, <4>3
    <3>2. CASE c = b /\ p # NULL
      BY <1>3, <1>7, <2>3, <2>5, <3>2
    <3>3. CASE c # b
      BY <1>2, <1>7, <2>3, <2>5, <3>3
    <3> QED BY <3>1, <3>2, <3>3
  <2>7. chain'[c] = x <=> block'[x].prev = NULL
    <3>1. CASE x = n
      <4>1. c = b /\ q = x0
        BY <1>3, <2>1, <2>2, <3>1
      <4>2. chain[c] # x
        BY <1>3, <2>3, <4>1, <1>5
      <4> QED BY <1>3, <1>7, <1>8, <2>4, <3>1, <4>1, <4>2
    <3>2. CASE x # n /\ c = b /\ p = NULL
      BY <1>3, <1>8, <2>1, <2>3, <2>4, <3>2
    <3>3. CASE x # n /\ (c # b \/ p # NULL)
      BY <1>7, <2>3, <2>4, <3>3
    <3> QED BY <3>1, <3>2, <3>3
  <2>8. ASSUME block'[x].prev # NULL
        PROVE  block'[x].prev \in Linked' /\ block'[block'[x].prev].next = x
    <3>1. CASE x = n
      <4>1. block'[x].prev = p /\ p \in Linked' /\ p \in Blocks
        BY <1>3, <2>4, <2>8, <3>1
      <4> QED BY <1>6, <3>1, <4>1
    <3>2. CASE x # n
      <4>1. block'[x].prev = q /\ q \in Linked /\ q \in Blocks /\ block[q].next = x
        BY <2>3, <2>4, <2>8, <3>2
      <4>2. q # x0 /\ q # p
        BY <1>2, <1>3, <1>5, <2>1, <3>2, <4>1
      <4> QED BY <1>6, <4>1, <4>2
    <3> QED BY <3>1, <3>2
  <2>9. ASSUME block'[x].next # NULL
        PROVE  /\ block'[x].next \in Linked' /\ block'[block'[x].next].prev = x
               /\ Bucket(block'[block'[x].next].hv) = c /\ pos[x] < pos[block'[x].next]
    <3>1. CASE x = p
      <4>1. block'[x].next = n /\ n \in Linked' /\ n \in Blocks /\ c = b
        BY <1>3, <2>1, <2>2, <2>4, <2>9, <3>1
      <4>2. pos[p] < pos[n]
        <5>1. pos[p] \in Nat /\ pos[n] \in Nat /\ pos[x0] \in Nat
          BY <1>3, <2>1, <3>1, <4>1
        <5> QED BY <1>3, <2>1, <2>9, <3>1, <4>1, <5>1
      <4> QED BY <1>3, <1>6, <2>9, <3>1, <4>1, <4>2
    <3>2. CASE x # p
      <4>1. /\ block'[x].next = r /\ r \in Linked /\ r \in Blocks /\ block[r].prev = x
            /\ Bucket(block[r].hv) = c /\ pos[x] < pos[r]
        BY <2>3, <2>4, <2>9, <3>2
      <4>2. r # x0 /\ r # n
        BY <1>2, <1>3, <1>5, <2>1, <3>2, <4>1
      <4> QED BY <1>6, <4>1, <4>2
    <3> QED BY <3>1, <3>2
  <2> QED BY <2>4, <2>6, <2>7, <2>8, <2>9
<1>10. ASSUME NEW x \in Linked', NEW y \in Linked',
              Bucket(block'[x].hv) = Bucket(block'[y].hv)
       PROVE  /\ pos[x] = pos[y] => x = y
              /\ pos[x] < pos[y] => block'[x].next # NULL /\ pos[block'[x].next] <= pos[y]
  <2>1. /\ x \in Linked /\ y \in Linked /\ x \in Blocks /\ y \in Blocks
        /\ x # x0 /\ y # x0 /\ Bucket(block[x].hv) = Bucket(block[y].hv)
    BY <1>5, <1>6, <1>10
  <2>2. /\ pos[x] = pos[y] => x = y
        /\ pos[x] < pos[y] => block[x].next # NULL /\ pos[block[x].next] <= pos[y]
    BY <2>1 DEF ChainsLaidOut
  <2>3. CASE x # p
    BY <1>6, <2>1, <2>2, <2>3
  <2>4. CASE x = p /\ pos[x] < pos[y]
    <3>1. pos[x0] <= pos[y] /\ Bucket(block[y].hv) = b
      BY <1>3, <1>5, <2>1, <2>2, <2>4
    <3>2. pos[x0] # pos[y]
      BY <1>2, <2>1, <3>1 DEF ChainsLaidOut
    <3>3. pos[x0] < pos[y]
      BY <1>3, <2>1, <3>1, <3>2
    <3>4. n # NULL /\ pos[n] <= pos[y]
      BY <1>2, <2>1, <3>1, <3>3 DEF ChainsLaidOut
    <3> QED BY <1>6, <2>1, <2>2, <2>4, <3>4
  <2>5. CASE ~(pos[x] < pos[y])
    BY <2>2, <2>5
  <2> QED BY <2>3, <2>4, <2>5
<1>11. ASSUME NEW c \in Buckets, chain'[c] # NULL
       PROVE  /\ chain'[c] \in Linked' /\ Bucket(block'[chain'[c]].hv) = c
              /\ valid'[c] \/ \E u \in Threads : At(u, "publish")' /\ B(u)' = c
  <2>1. /\ chain'[c] \in Linked' /\ Bucket(block'[chain'[c]].hv) = c
        /\ valid'[c] = valid[c] /\ chain[c] # NULL
    <3>1. CASE c = b /\ p = NULL
      BY <1>3, <1>5, <1>6, <1>8, <1>11, <3>1
    <3>2. CASE c # b \/ p # NULL
      <4>1. chain'[c] = chain[c] /\ valid'[c] = valid[c]
        BY <1>7, <3>2
      <4>2. chain[c] \in Linked /\ Bucket(block[chain[c]].hv) = c
        BY <1>11, <4>1 DEF ChainsLaidOut
      <4>3. chain[c] # x0
        BY <1>2, <1>3, <3>2, <4>2
      <4> QED BY <1>5, <1>6, <1>11, <4>1, <4>2, <4>3
    <3> QED BY <3>1, <3>2
  <2>2. valid[c] \/ \E u \in Threads : At(u, "publish") /\ B(u) = c
    BY <2>1 DEF ChainsLaidOut
  <2>3. ASSUME NEW u \in Threads, At(u, "publish"), B(u) = c
        PROVE  At(u, "publish")' /\ B(u)' = c
    <3>1. u # t
      BY <1>1, <2>3 DEF At
    <3>2. th'[u] = th[u]
      BY <1>1, <3>1 DEF Moved
    <3> QED BY <2>3, <3>2 DEF At, B, Hv
  <2> QED BY <2>1, <2>2, <2>3
<1> QED BY <1>9, <1>10, <1>11 DEF ChainsLaidOut

LEMMA UnchainChains ==
    ASSUME TInv, UInv, NEW t \in Threads, NEW pos \in [Blocks -> Nat], Chained(pos),
           Unchain(t), StraightStep
    PROVE  Chained(pos)'
<1>1. /\ th[t].pc = "unchain" /\ UNCHANGED <<lru, leaked>> /\ Goes(t, "reclaim", th[t].it)
  BY UnchainDoes
<1>2. /\ Moved(t) /\ th'[t].pc = "reclaim" /\ th'[t].mine = th[t].mine
      /\ th'[t].as = th[t].as /\ th'[t].key = th[t].key /\ th'[t].got = th[t].got
  BY <1>1 DEF Goes, Moves, SameItems
<1>3. PICK x0 : x0 = th[t].got
  OBVIOUS
<1>4. x0 \in Linked /\ x0 \in Blocks
  <2>1. x0 \in Linked
    BY <1>1, <1>3 DEF UInv, UserOf, At
  <2> QED BY <2>1, LinkedBlocks
<1>5. Linked' = Linked \ {x0}
  <2>1. \A u \in Threads : ~At(u, "reclaim")
    BY <1>1, OneEvictor DEF At, Evicting, Choosing
  <2>2. {u \in Threads : At(u, "reclaim")} = {}
    BY <2>1
  <2>3. {u \in Threads : At(u, "reclaim")'} = {t}
    BY <1>2, <2>1 DEF Moved, At
  <2>4. {th'[u].got : u \in {v \in Threads : At(v, "reclaim")'}} = {x0}
    BY <1>2, <1>3, <2>3
  <2> QED BY <1>1, <2>2, <2>4 DEF Linked
<1>6. ChainsLaidOut(pos) /\ ChainsLaidOut(pos)'
  BY <1>3, <1>4, <1>5, UnchainLaysOut DEF Chained
<1>7. PICK p, n : p = block[x0].prev /\ n = block[x0].next
  OBVIOUS
<1>8. (p # NULL => p \in Linked) /\ (n # NULL => n \in Linked)
  BY <1>4, <1>6, <1>7 DEF ChainsLaidOut
<1>9. block' = Unlinked(p, n)
  BY <1>3, <1>7 DEF Unchain
<1>10. \A x \in Blocks : block'[x].hv = block[x].hv /\ block'[x].key = block[x].key
  BY <1>9, LinksOnly DEF SameHead, KeptUse
<1>11. \A x \in Linked' : Passable(x) => Passable(x)'
  <2> SUFFICES ASSUME NEW x \in Linked', Evictors(x) # {}
               PROVE  Evictors(x)' # {}
    BY <1>1 DEF Passable
  <2>1. PICK u \in Threads : th[u].pc \in {"unchain", "reclaim"} /\ th[u].got = x
    BY DEF Evictors
  <2>2. u # t
    BY <1>3, <1>5, <2>1
  <2>3. th'[u] = th[u]
    BY <1>2, <2>2 DEF Moved
  <2> QED BY <2>1, <2>3 DEF Evictors
<1>12. ASSUME NEW u \in Threads PROVE UnlinkedIfNew(u)'
  <2> SUFFICES ASSUME Fresh(u)' PROVE UnlinkedIfNew(u)'
    BY DEF UnlinkedIfNew
  <2>1. th'[u].mine = th[u].mine /\ th'[u].as = th[u].as
    BY <1>2 DEF Moved
  <2>2. Fresh(u)
    BY <2>1 DEF Fresh
  <2>3. PICK m : m = th[u].mine
    OBVIOUS
  <2>4. m \in Blocks /\ m \notin Linked /\ m # NULL
    BY <2>2, <2>3, LinkedBlocks DEF UInv, FreshOf, Fresh
  <2>5. block'[m] = block[m]
    BY <1>8, <1>9, <2>4 DEF Unlinked
  <2> QED BY <2>1, <2>2, <2>3, <2>5 DEF Chained, UnlinkedIfNew
<1>13. ASSUME NEW u \in Threads PROVE AloneIfFirst(u)'
  <2>1. /\ th'[u].as = th[u].as /\ th'[u].key = th[u].key
        /\ th[u].pc \in Writing \cup {"publish"} => th'[u].pc \in Writing \cup {"publish"}
        /\ th'[u].pc \in Writing => th[u].pc \in Writing
    BY <1>1, <1>2 DEF Moved, Writing
  <2> QED BY <1>5, <1>10, <2>1, LinkedBlocks DEF Chained, AloneIfFirst, B, Hv
<1>14. ASSUME Straight
       PROVE  OneOfEach' /\ \A u \in Threads : MissedNone(pos, u)'
  <2>1. OneOfEach'
    BY <1>5, <1>10, <1>11, <1>14, LinkedBlocks DEF Chained, OneOfEach
  <2>2. ASSUME NEW u \in Threads PROVE MissedNone(pos, u)'
    <3>1. MissedNone(pos, u)
      BY <1>14 DEF Chained
    <3>2. th'[u].as = th[u].as /\ th'[u].key = th[u].key
          /\ (th'[u].pc \in Writing => th[u].pc \in Writing)
      BY <1>1, <1>2 DEF Moved, Writing
    <3>3. th'[u].pc \in Writing /\ th'[u].as # "over" =>
            \A y \in Linked' : block'[y].key = th'[u].key => Passable(y)'
      BY <1>5, <1>10, <1>11, <3>1, <3>2, LinkedBlocks DEF MissedNone
    <3>4. CASE u = t
      <4>1. th'[u].pc \notin Searching
        BY <1>2, <3>4 DEF Searching
      <4> QED BY <3>3, <4>1 DEF MissedNone
    <3>5. CASE u # t
      <4>1. th'[u] = th[u]
        BY <1>2, <3>5 DEF Moved
      <4>2. InItsChain(u)' => InItsChain(u)
        BY <1>5, <1>10, <4>1, LinkedBlocks DEF InItsChain, Here, B, Hv
      <4>3. Ahead(pos, u) => Ahead(pos, u)'
        BY <1>5, <1>10, <1>11, <4>1, LinkedBlocks DEF Ahead
      <4> QED BY <3>1, <3>3, <4>1, <4>2, <4>3 DEF MissedNone
    <3> QED BY <3>4, <3>5
  <2> QED BY <2>1, <2>2
<1> QED BY <1>6, <1>12, <1>13, <1>14 DEF Chained, StraightStep

\* A bucket is one writer's.
LEMMA AloneInBucket ==
    ASSUME TInv, NEW t \in Threads, NEW u \in Threads \ {t},
           th[t].pc \in InEntry, th[u].pc \in InEntry
    PROVE  B(u) # B(t)
BY ThreadTypes DEF LocksOf

\* What the new item changes for the threads: its key was in no chain, and nobody else is
\* in its bucket.
LEMMA NewItemSeen ==
    ASSUME TInv, UInv, NEW t \in Threads, NEW x0, x0 = th[t].mine, Fresh(t),
           th[t].pc = "finish", Moved(t), th'[t].pc \in {"publish", "idle"},
           th'[t].mine = NULL, Linked' = Linked \cup {x0}, leaked' = leaked, x0 \in Blocks,
           \A x \in Blocks : block'[x].hv = block[x].hv /\ block'[x].key = block[x].key,
           NEW pos \in [Blocks -> Nat], NEW pos2 \in [Blocks -> Nat], Chained(pos),
           \A x, y \in Linked : pos[x] <= pos[y] => pos2[x] <= pos2[y],
           \A u \in Threads \ {t} : Fresh(u) => SameLinks(th[u].mine),
           AloneIfFirst(t)', StraightStep, ChainsLaidOut(pos2)'
    PROVE  Chained(pos2)'
<1>1. /\ block[x0].hv = Hv(t) /\ block[x0].key = th[t].key /\ th[t].pc \in Writing
      /\ th[t].pc \in InEntry
  BY DEF UInv, FreshOf, Writing, InEntry
<1>2. \A x \in Linked : Passable(x) => Passable(x)'
  BY PassableStays
<1>3. ASSUME NEW u \in Threads \ {t}
      PROVE  /\ UnlinkedIfNew(u)' /\ AloneIfFirst(u)'
             /\ Straight => MissedNone(pos2, u)'
  <2>1. th'[u] = th[u]
    BY DEF Moved
  <2>2. UnlinkedIfNew(u)'
    BY <2>1 DEF Chained, UnlinkedIfNew, Fresh, SameLinks
  <2>3. th[u].pc \in InEntry => Bucket(block[x0].hv) # B(u) /\ block[x0].key # th[u].key
    <3>1. th[u].pc \in InEntry => B(u) # B(t)
      BY <1>1, AloneInBucket
    <3> QED BY <1>1, <3>1 DEF B, Hv
  <2>4. AloneIfFirst(u)'
    <3>1. th[u].pc \in Writing => th[u].pc \in InEntry
      BY DEF InEntry
    <3>2. B(u)' = B(u)
      BY <2>1 DEF B, Hv
    <3>3. \A x \in Linked : Bucket(block'[x].hv) = Bucket(block[x].hv)
      BY LinkedBlocks
    <3>4. Bucket(block'[x0].hv) = Bucket(block[x0].hv)
      OBVIOUS
    <3> QED BY <2>1, <2>3, <3>1, <3>2, <3>3, <3>4 DEF Chained, AloneIfFirst
  <2>5. ASSUME Straight PROVE MissedNone(pos2, u)'
    <3>1. MissedNone(pos, u)
      BY <2>5 DEF Chained
    <3>2. ASSUME th[u].pc \in Searching, th[u].op = "set", InItsChain(u)'
          PROVE  Ahead(pos2, u)'
      <4>1. th[u].pc \in InEntry
        BY <3>2 DEF Searching, InEntry, Inside
      <4>2. th[u].it # x0
        BY <2>1, <2>3, <3>2, <4>1 DEF InItsChain, Here, B, Hv, Fresh
      <4>3. InItsChain(u)
        BY <2>1, <3>2, <4>2, LinkedBlocks DEF InItsChain, Here, B, Hv
      <4>4. Ahead(pos, u)
        BY <3>1, <3>2, <4>3 DEF MissedNone
      <4>5. ASSUME NEW y \in Linked', block'[y].key = th'[u].key
            PROVE  Passable(y)' \/ (th'[u].it # NULL /\ pos2[th'[u].it] <= pos2[y])
        <5>1. y \in Linked /\ block[y].key = th[u].key
          BY <2>1, <2>3, <4>1, <4>5, LinkedBlocks
        <5>2. Passable(y) \/ (th[u].it # NULL /\ pos[th[u].it] <= pos[y])
          BY <4>4, <5>1 DEF Ahead
        <5>3. th[u].it # NULL => th[u].it \in Linked
          BY <4>3 DEF InItsChain
        <5> QED BY <1>2, <2>1, <5>1, <5>2, <5>3
      <4> QED BY <4>5 DEF Ahead
    <3>3. ASSUME th[u].pc \in Writing, th[u].as # "over", NEW y \in Linked',
                 block'[y].key = th[u].key
          PROVE  Passable(y)'
      <4>1. y \in Linked /\ block[y].key = th[u].key
        BY <2>3, <3>3, LinkedBlocks DEF InEntry
      <4> QED BY <1>2, <3>1, <3>3, <4>1 DEF MissedNone
    <3> QED BY <2>1, <3>2, <3>3 DEF MissedNone
  <2> QED BY <2>2, <2>4, <2>5
<1>4. UnlinkedIfNew(t)' /\ MissedNone(pos2, t)'
  <2>1. th'[t].pc \notin Searching \cup Writing
    BY DEF Searching, Writing
  <2> QED BY <2>1 DEF UnlinkedIfNew, Fresh, MissedNone
<1>5. ASSUME Straight PROVE OneOfEach'
  <2>1. \A y \in Linked : block[y].key = block[x0].key => Passable(y)'
    <3>1. th[t].as # "over"
      BY DEF Fresh
    <3> QED BY <1>1, <1>2, <1>5, <3>1 DEF Chained, MissedNone
  <2>2. \A x, y \in Linked : block[x].key = block[y].key /\ x # y =>
            Passable(x)' \/ Passable(y)'
    BY <1>2, <1>5 DEF Chained, OneOfEach
  <2> QED BY <2>1, <2>2, LinkedBlocks DEF OneOfEach
<1>6. \A u \in Threads : UnlinkedIfNew(u)' /\ AloneIfFirst(u)'
                         /\ (Straight => MissedNone(pos2, u)')
  BY <1>3, <1>4
<1> QED BY <1>5, <1>6 DEF Chained, StraightStep

LEMMA FinishFirstChains ==
    ASSUME TInv, UInv, NEW t \in Threads, NEW pos \in [Blocks -> Nat], Chained(pos),
           FinishFirst(t), StraightStep
    PROVE  Chained(pos)'
<1>1. /\ th[t].pc = "finish" /\ UNCHANGED <<valid, block, leaked>>
      /\ Moves(t, "publish") /\ th'[t].mine = NULL /\ th'[t].as = th[t].as
  BY FinishFirstDoes DEF FinishFirst
<1>2. PICK x0, b : x0 = th[t].mine /\ b = B(t)
  OBVIOUS
<1>3. /\ th[t].as = "first" /\ lru' = ToFront(x0) /\ chain' = [chain EXCEPT ![b] = x0]
  BY <1>2 DEF FinishFirst
<1>4. Moved(t) /\ th'[t].pc = "publish" /\ th'[t].key = th[t].key
  BY <1>1 DEF Moves
<1>5. Fresh(t) /\ x0 # NULL
  BY <1>1, <1>2, <1>3, ThreadTypes DEF Fresh, PointersOf
<1>6. Linked' = Linked \cup {x0} /\ x0 \notin Linked /\ x0 \in Blocks
  BY <1>1, <1>2, <1>3, <1>4, <1>5, NewLinked
<1>7. /\ block[x0].hv = Hv(t) /\ block[x0].key = th[t].key
      /\ block[x0].prev = NULL /\ block[x0].next = NULL
  BY <1>2, <1>5 DEF UInv, FreshOf, Chained, UnlinkedIfNew
<1>8. \A x \in Linked : Bucket(block[x].hv) # b
  BY <1>1, <1>2, <1>3 DEF Chained, AloneIfFirst, Writing
<1>9. b \in Buckets /\ th[t].key \in Keys /\ Bucket(block[x0].hv) = b
  BY <1>1, <1>2, <1>7, PointerTypes DEF B
<1>10. chain'[b] = x0 /\ \A c \in Buckets \ {b} : chain'[c] = chain[c]
  BY <1>3, <1>9, StateTypes
<1>11. ChainsLaidOut(pos) /\ Linked \subseteq Blocks
  BY LinkedBlocks DEF Chained
<1>12. ASSUME NEW x \in Linked'
       PROVE  LET h == block'[x]
                  c == Bucket(h.hv)
              IN  /\ h.hv = Hash[h.key] /\ h.key \in Keys
                  /\ chain'[c] \in Linked' /\ pos[chain'[c]] <= pos[x]
                  /\ chain'[c] = x <=> h.prev = NULL
                  /\ h.prev # NULL => h.prev \in Linked' /\ block'[h.prev].next = x
                  /\ h.next # NULL => /\ h.next \in Linked'
                                      /\ block'[h.next].prev = x
                                      /\ Bucket(block'[h.next].hv) = c
                                      /\ pos[x] < pos[h.next]
  <2>1. CASE x = x0
    BY <1>1, <1>6, <1>7, <1>9, <1>10, <2>1 DEF Hv
  <2>2. CASE x \in Linked
    <3>1. PICK c : c = Bucket(block[x].hv)
      OBVIOUS
    <3>2. c \in Buckets /\ chain'[c] = chain[c]
      BY <1>8, <1>10, <2>2, <3>1, LinkedTypes
    <3> QED BY <1>1, <1>6, <1>11, <2>2, <3>1, <3>2 DEF ChainsLaidOut
  <2> QED BY <1>6, <2>1, <2>2
<1>13. \A x, y \in Linked' : Bucket(block'[x].hv) = Bucket(block'[y].hv) =>
          /\ pos[x] = pos[y] => x = y
          /\ pos[x] < pos[y] => block'[x].next # NULL /\ pos[block'[x].next] <= pos[y]
  <2>1. ~(pos[x0] < pos[x0])
    BY <1>6
  <2> QED BY <1>1, <1>6, <1>8, <1>9, <1>11, <2>1 DEF ChainsLaidOut
<1>14. ASSUME NEW c \in Buckets, chain'[c] # NULL
       PROVE  /\ chain'[c] \in Linked' /\ Bucket(block'[chain'[c]].hv) = c
              /\ valid'[c] \/ \E u \in Threads : At(u, "publish")' /\ B(u)' = c
  <2>1. CASE c = b
    <3>1. At(t, "publish")' /\ B(t)' = b
      BY <1>2, <1>4 DEF At, B, Hv
    <3> QED BY <1>1, <1>6, <1>9, <1>10, <2>1, <3>1
  <2>2. CASE c # b
    <3>1. /\ chain'[c] \in Linked' /\ Bucket(block'[chain'[c]].hv) = c /\ valid' = valid
          /\ valid[c] \/ \E u \in Threads : At(u, "publish") /\ B(u) = c
      BY <1>1, <1>6, <1>10, <1>11, <1>14, <2>2 DEF ChainsLaidOut
    <3>2. ASSUME NEW u \in Threads, At(u, "publish"), B(u) = c
          PROVE  At(u, "publish")' /\ B(u)' = c
      <4>1. th'[u] = th[u]
        BY <1>1, <1>4, <3>2 DEF Moved, At
      <4> QED BY <3>2, <4>1 DEF At, B, Hv
    <3> QED BY <3>1, <3>2
  <2> QED BY <2>1, <2>2
<1>15. ChainsLaidOut(pos)'
  BY <1>12, <1>13, <1>14 DEF ChainsLaidOut
<1>16. AloneIfFirst(t)'
  BY <1>4 DEF AloneIfFirst, Writing
<1>17. \A u \in Threads \ {t} : Fresh(u) => SameLinks(th[u].mine)
  BY <1>1 DEF SameLinks
<1> QED BY <1>1, <1>2, <1>4, <1>5, <1>6, <1>15, <1>16, <1>17, NewItemSeen

LEMMA InsertLaysOut ==
    ASSUME TInv, UInv, NEW t \in Threads, NEW pos \in [Blocks -> Nat], Chained(pos),
           FinishInsert(t), NEW x0, x0 = th[t].mine, Fresh(t), x0 \notin Linked, x0 \in Blocks,
           Linked' = Linked \cup {x0}, NEW pos2 \in [Blocks -> Nat],
           pos2 = [y \in Blocks |-> IF y = x0 THEN 0 ELSE pos[y] + 1]
    PROVE  ChainsLaidOut(pos2)'
<1>1. th[t].pc = "finish" /\ Moved(t)
  BY FinishInsertDoes DEF Returns
<1>2. PICK b, old : b = B(t) /\ old = chain[b]
  OBVIOUS
<1>3. /\ block' = LinkedBefore(x0, old) /\ chain' = [chain EXCEPT ![b] = x0]
      /\ valid' = [valid EXCEPT ![b] = @ \/ old = NULL]
  BY <1>2 DEF FinishInsert
<1>4. /\ block[x0].hv = Hv(t) /\ block[x0].key = th[t].key
      /\ block[x0].prev = NULL /\ block[x0].next = NULL
  BY DEF UInv, FreshOf, Chained, UnlinkedIfNew
<1>5. b \in Buckets /\ th[t].key \in Keys /\ Bucket(block[x0].hv) = b
  BY <1>1, <1>2, <1>4, PointerTypes DEF B
<1>6. /\ ChainsLaidOut(pos) /\ Linked \subseteq Blocks /\ NULL \notin Blocks
      /\ block \in [Blocks -> Header] /\ chain \in [Buckets -> 0 .. NumBlocks]
      /\ valid \in [Buckets -> BOOLEAN]
  BY LinkedBlocks, StateTypes, KeyTypes DEF Chained
<1>7. old # NULL => /\ old \in Linked /\ old \in Blocks /\ Bucket(block[old].hv) = b
                    /\ block[old].prev = NULL
  BY <1>2, <1>5, <1>6 DEF ChainsLaidOut
<1>8. old # x0
  BY <1>6, <1>7
<1>9. \A x \in Blocks : /\ block'[x].hv = block[x].hv /\ block'[x].key = block[x].key
                        /\ block'[x].next = IF x = x0 THEN old ELSE block[x].next
                        /\ block'[x].prev = IF x = old THEN x0 ELSE block[x].prev
  <2> SUFFICES ASSUME NEW x \in Blocks
               PROVE  /\ block'[x].hv = block[x].hv /\ block'[x].key = block[x].key
                      /\ block'[x].next = IF x = x0 THEN old ELSE block[x].next
                      /\ block'[x].prev = IF x = old THEN x0 ELSE block[x].prev
    OBVIOUS
  <2>1. block[x] \in Header
    BY <1>6
  <2>2. CASE x = x0
    <3>1. block'[x] = [block[x] EXCEPT !.next = old]
      BY <1>3, <1>8, <2>2 DEF LinkedBefore
    <3> QED BY <1>8, <2>1, <2>2, <3>1 DEF Header
  <2>3. CASE x = old
    <3>1. block'[x] = [block[x] EXCEPT !.prev = x0]
      BY <1>3, <1>8, <2>3 DEF LinkedBefore
    <3> QED BY <1>8, <2>1, <2>3, <3>1 DEF Header
  <2>4. CASE x # x0 /\ x # old
    BY <1>3, <2>4 DEF LinkedBefore
  <2> QED BY <2>2, <2>3, <2>4
<1>10. /\ chain'[b] = x0 /\ valid'[b] = (valid[b] \/ old = NULL)
       /\ \A c \in Buckets \ {b} : chain'[c] = chain[c] /\ valid'[c] = valid[c]
  BY <1>3, <1>5, <1>6
<1>11. /\ pos2[x0] = 0
       /\ \A x \in Linked : pos2[x] = pos[x] + 1 /\ pos[x] \in Nat /\ x # x0
  BY <1>6
<1>12. ASSUME NEW x \in Linked'
       PROVE  LET h == block'[x]
                  c == Bucket(h.hv)
              IN  /\ h.hv = Hash[h.key] /\ h.key \in Keys
                  /\ chain'[c] \in Linked' /\ pos2[chain'[c]] <= pos2[x]
                  /\ chain'[c] = x <=> h.prev = NULL
                  /\ h.prev # NULL => h.prev \in Linked' /\ block'[h.prev].next = x
                  /\ h.next # NULL => /\ h.next \in Linked'
                                      /\ block'[h.next].prev = x
                                      /\ Bucket(block'[h.next].hv) = c
                                      /\ pos2[x] < pos2[h.next]
  <2>1. CASE x = x0
    <3>1. /\ block'[x].hv = Hash[block'[x].key] /\ block'[x].key \in Keys
          /\ Bucket(block'[x].hv) = b /\ block'[x].prev = NULL /\ block'[x].next = old
      BY <1>4, <1>5, <1>8, <1>9, <2>1 DEF Hv
    <3>2. old # NULL => /\ old \in Linked' /\ block'[old].prev = x0
                        /\ Bucket(block'[old].hv) = b /\ pos2[x0] < pos2[old]
      BY <1>7, <1>9, <1>11
    <3> QED BY <1>10, <1>11, <2>1, <3>1, <3>2
  <2>2. CASE x \in Linked
    <3>1. PICK c, q, r : c = Bucket(block[x].hv) /\ q = block[x].prev /\ r = block[x].next
      OBVIOUS
    <3>2. /\ c \in Buckets /\ x \in Blocks
          /\ chain[c] = x <=> q = NULL
          /\ q # NULL => /\ q \in Linked /\ q \in Blocks /\ block[q].next = x
                         /\ Bucket(block[q].hv) = c /\ pos[q] < pos[x]
          /\ r # NULL => /\ r \in Linked /\ r \in Blocks /\ block[r].prev = x
                         /\ Bucket(block[r].hv) = c /\ pos[x] < pos[r]
      BY <1>6, <2>2, <3>1, Neighbours
    <3>3. /\ block'[x].hv = Hash[block'[x].key] /\ block'[x].key \in Keys
          /\ Bucket(block'[x].hv) = c /\ block'[x].next = r
          /\ block'[x].prev = IF x = old THEN x0 ELSE q
      BY <1>6, <1>9, <1>11, <2>2, <3>1, <3>2 DEF ChainsLaidOut
    <3>4. chain'[c] \in Linked' /\ pos2[chain'[c]] <= pos2[x]
      <4>1. CASE c = b
        BY <1>10, <1>11, <2>2, <4>1
      <4>2. CASE c # b
        <5>1. chain[c] \in Linked /\ pos[chain[c]] <= pos[x]
          BY <1>6, <2>2, <3>1 DEF ChainsLaidOut
        <5> QED BY <1>10, <1>11, <2>2, <3>2, <4>2, <5>1
      <4> QED BY <4>1, <4>2
    <3>5. chain'[c] = x <=> block'[x].prev = NULL
      <4>1. CASE c = b
        <5>1. chain'[c] # x
          BY <1>10, <1>11, <2>2, <4>1
        <5>2. block'[x].prev # NULL
          BY <1>2, <1>6, <3>2, <3>3, <4>1
        <5> QED BY <5>1, <5>2
      <4>2. CASE c # b
        <5>1. x # old
          BY <1>6, <1>7, <3>1, <3>2, <4>2
        <5> QED BY <1>10, <3>2, <3>3, <4>2, <5>1
      <4> QED BY <4>1, <4>2
    <3>6. block'[x].prev # NULL =>
             block'[x].prev \in Linked' /\ block'[block'[x].prev].next = x
      <4>1. CASE x = old
        BY <1>9, <3>3, <4>1
      <4>2. CASE x # old
        BY <1>9, <1>11, <3>2, <3>3, <4>2
      <4> QED BY <4>1, <4>2
    <3>7. r # NULL => /\ r \in Linked' /\ block'[r].prev = x
                      /\ Bucket(block'[r].hv) = c /\ pos2[x] < pos2[r]
      <4> SUFFICES ASSUME r # NULL
                   PROVE  /\ r \in Linked' /\ block'[r].prev = x
                          /\ Bucket(block'[r].hv) = c /\ pos2[x] < pos2[r]
        OBVIOUS
      <4>1. r # old
        BY <1>6, <1>7, <3>2
      <4>2. pos2[x] < pos2[r]
        BY <1>11, <2>2, <3>2
      <4> QED BY <1>9, <3>2, <4>1, <4>2
    <3> QED BY <3>3, <3>4, <3>5, <3>6, <3>7
  <2> QED BY <2>1, <2>2
<1>13. ASSUME NEW x \in Linked', NEW y \in Linked',
              Bucket(block'[x].hv) = Bucket(block'[y].hv)
       PROVE  /\ pos2[x] = pos2[y] => x = y
              /\ pos2[x] < pos2[y] =>
                    block'[x].next # NULL /\ pos2[block'[x].next] <= pos2[y]
  <2>1. x \in Blocks /\ y \in Blocks /\ Bucket(block[x].hv) = Bucket(block[y].hv)
    BY <1>6, <1>9, <1>13
  <2>2. CASE x \in Linked /\ y \in Linked
    <3>1. /\ pos[x] = pos[y] => x = y
          /\ pos[x] < pos[y] => block[x].next # NULL /\ pos[block[x].next] <= pos[y]
          /\ block[x].next # NULL => block[x].next \in Linked
      BY <1>6, <2>1, <2>2 DEF ChainsLaidOut
    <3>2. block'[x].next = block[x].next
      BY <1>9, <1>11, <2>1, <2>2
    <3> QED BY <1>11, <2>2, <3>1, <3>2
  <2>3. CASE x = x0 /\ y \in Linked
    <3>1. Bucket(block[y].hv) = b
      BY <1>5, <2>1, <2>3
    <3>2. old \in Linked /\ pos[old] <= pos[y]
      BY <1>2, <1>6, <2>3, <3>1 DEF ChainsLaidOut
    <3>3. block'[x].next = old
      BY <1>9, <2>1, <2>3
    <3>4. old # NULL
      BY <1>6, <3>2
    <3> QED BY <1>11, <2>3, <3>2, <3>3, <3>4
  <2>4. CASE y = x0
    <3>1. x = x0 \/ pos2[x] > pos2[y]
      BY <1>11, <2>4
    <3> QED BY <1>11, <2>4, <3>1
  <2> QED BY <2>2, <2>3, <2>4
<1>14. ASSUME NEW c \in Buckets, chain'[c] # NULL
       PROVE  /\ chain'[c] \in Linked' /\ Bucket(block'[chain'[c]].hv) = c
              /\ valid'[c] \/ \E u \in Threads : At(u, "publish")' /\ B(u)' = c
  <2>1. CASE c = b
    <3>1. ASSUME NEW u \in Threads, At(u, "publish") PROVE B(u) # b
      <4>1. u # t /\ th[u].pc \in InEntry /\ th[t].pc \in InEntry
        BY <1>1, <3>1 DEF At, InEntry, Writing
      <4> QED BY <1>2, <4>1, AloneInBucket
    <3>2. old # NULL => valid[b]
      BY <1>2, <1>5, <1>6, <3>1 DEF ChainsLaidOut
    <3> QED BY <1>5, <1>9, <1>10, <2>1, <3>2, ZenonT(40)
  <2>2. CASE c # b
    <3>1. /\ chain[c] \in Linked /\ Bucket(block[chain[c]].hv) = c
          /\ valid[c] \/ \E u \in Threads : At(u, "publish") /\ B(u) = c
      BY <1>6, <1>10, <1>14, <2>2 DEF ChainsLaidOut
    <3>2. ASSUME NEW u \in Threads, At(u, "publish"), B(u) = c
          PROVE  At(u, "publish")' /\ B(u)' = c
      <4>1. th'[u] = th[u]
        BY <1>1, <3>2 DEF Moved, At
      <4> QED BY <3>2, <4>1 DEF At, B, Hv
    <3> QED BY <1>6, <1>9, <1>10, <2>2, <3>1, <3>2
  <2> QED BY <2>1, <2>2
<1> QED BY <1>12, <1>13, <1>14 DEF ChainsLaidOut

LEMMA FinishInsertChains ==
    ASSUME TInv, UInv, NEW t \in Threads, NEW pos \in [Blocks -> Nat], Chained(pos),
           FinishInsert(t), StraightStep
    PROVE  \E pos2 \in [Blocks -> Nat] : Chained(pos2)'
<1>1. /\ th[t].pc = "finish" /\ leaked' = leaked /\ Moved(t) /\ th'[t] = Idle
  BY FinishInsertDoes DEF Returns
<1>2. PICK x0 : x0 = th[t].mine
  OBVIOUS
<1>3. /\ th[t].as = "insert" /\ lru' = ToFront(x0)
      /\ block' = LinkedBefore(x0, chain[B(t)])
  BY <1>2 DEF FinishInsert
<1>4. Fresh(t) /\ x0 # NULL
  BY <1>1, <1>2, <1>3, ThreadTypes DEF Fresh, PointersOf
<1>5. th'[t].pc = "idle" /\ th'[t].mine = NULL /\ th'[t].as = "insert"
  BY <1>1 DEF Idle
<1>6. Linked' = Linked \cup {x0} /\ x0 \notin Linked /\ x0 \in Blocks
  BY <1>1, <1>2, <1>3, <1>4, <1>5, NewLinked
<1>7. PICK pos2 : pos2 = [y \in Blocks |-> IF y = x0 THEN 0 ELSE pos[y] + 1]
  OBVIOUS
<1>8. pos2 \in [Blocks -> Nat]
  BY <1>7
<1>9. ChainsLaidOut(pos2)'
  BY <1>2, <1>4, <1>6, <1>7, <1>8, InsertLaysOut
<1>10. \A x, y \in Linked : pos[x] <= pos[y] => pos2[x] <= pos2[y]
  <2>1. \A x \in Linked : pos2[x] = pos[x] + 1 /\ pos[x] \in Nat
    BY <1>6, <1>7, LinkedBlocks
  <2> QED BY <2>1
<1>11. \A x \in Blocks : block'[x].hv = block[x].hv /\ block'[x].key = block[x].key
  BY <1>3, LinksOnly DEF SameHead, KeptUse
<1>12. ASSUME NEW u \in Threads \ {t}, Fresh(u) PROVE SameLinks(th[u].mine)
  <2>1. PICK m : m = th[u].mine
    OBVIOUS
  <2>2. m \in Blocks /\ m \notin Linked /\ m # NULL
    BY <1>12, <2>1, LinkedBlocks DEF UInv, FreshOf, Fresh
  <2>3. m # x0
    BY <1>2, <1>4, <1>12, <2>1 DEF UInv, FreshOf
  <2>4. m # chain[B(t)]
    <3>1. B(t) \in Buckets
      BY <1>1, PointerTypes
    <3> QED BY <2>2, <3>1 DEF Chained, ChainsLaidOut
  <2>5. block'[m] = block[m]
    BY <1>3, <2>2, <2>3, <2>4 DEF LinkedBefore
  <2> QED BY <2>1, <2>5 DEF SameLinks
<1>13. AloneIfFirst(t)'
  BY <1>5 DEF AloneIfFirst
<1>14. Chained(pos2)'
  BY <1>1, <1>2, <1>4, <1>5, <1>6, <1>8, <1>9, <1>10, <1>11, <1>12, <1>13, NewItemSeen
<1> QED BY <1>8, <1>14

-----------------------------------------------------------------------------
(* The specification. *)

LEMMA CInit == Init => CInv
<1> SUFFICES ASSUME Init PROVE CInv
  OBVIOUS
<1>1. /\ lru = << >> /\ leaked = {} /\ \A t \in Threads : th[t] = Idle
      /\ \A b \in Buckets : chain[b] = NULL
  BY DEF Init
<1>2. Linked = {}
  <2>1. ToSet(lru) = {}
    BY <1>1 DEF ToSet
  <2> QED BY <2>1 DEF Linked
<1>3. PICK pos : pos = [x \in Blocks |-> 0]
  OBVIOUS
<1>4. ASSUME NEW t \in Threads
      PROVE  /\ UnlinkedIfNew(t) /\ AloneIfFirst(t) /\ ~CutOff(t)
             /\ MissedNone(pos, t)
  BY <1>1 DEF UnlinkedIfNew, Fresh, AloneIfFirst, CutOff, MissedNone, Searching, Writing, Idle
<1>5. ChainsLaidOut(pos) /\ OneOfEach
  BY <1>1, <1>2 DEF ChainsLaidOut, OneOfEach
<1>6. Chained(pos)
  BY <1>4, <1>5 DEF Chained, NotCutOff
<1> QED BY <1>3, <1>6 DEF CInv

\* A step that cuts no walk off starts where none had been.
LEMMA StraightSteps ==
    ASSUME Next
    PROVE  StraightStep
BY DEF Next, Watch, StraightStep, Straight, NotCutOff

LEMMA CNext == TInv /\ (Calm => UInv /\ CInv) /\ [Next]_vars => (Calm => CInv)'
<1> SUFFICES ASSUME TInv, Calm => UInv /\ CInv, [Next]_vars, Calm' PROVE CInv'
  OBVIOUS
<1>1. CASE UNCHANGED vars
  <2>1. UNCHANGED <<entryLock, barrier, valid, chain, block, lru, free, th, leaked, harm>>
    BY <1>1 DEF vars, table, lists
  <2>2. Calm
    BY <2>1 DEF Calm
  <2>3. Linked' = Linked
    BY <2>1 DEF Linked, At
  <2>4. PICK pos \in [Blocks -> Nat] : Chained(pos)
    BY <2>2 DEF CInv
  <2>5. \A x : Passable(x)' <=> Passable(x)
    BY <2>1 DEF Passable, Evictors
  <2>6. ChainsLaidOut(pos)'
    BY <2>1, <2>3, <2>4 DEF Chained, ChainsLaidOut, At, B, Hv
  <2>7. ASSUME NEW t \in Threads
        PROVE  /\ UnlinkedIfNew(t)' /\ AloneIfFirst(t)'
               /\ CutOff(t)' = CutOff(t)
               /\ MissedNone(pos, t) => MissedNone(pos, t)'
    <3>1. UnlinkedIfNew(t)' /\ AloneIfFirst(t)'
      BY <2>1, <2>3, <2>4 DEF Chained, UnlinkedIfNew, Fresh, AloneIfFirst, B, Hv
    <3>2. CutOff(t)' = CutOff(t)
      BY <2>1, <2>3 DEF CutOff, Gone, Here, B, Hv
    <3>3. MissedNone(pos, t) => MissedNone(pos, t)'
      BY <2>1, <2>3, <2>5 DEF MissedNone, InItsChain, Ahead, Here, B, Hv
    <3> QED BY <3>1, <3>2, <3>3
  <2>8. Straight' => /\ NotCutOff' /\ OneOfEach'
                     /\ \A t \in Threads : MissedNone(pos, t)'
    <3>1. SUFFICES ASSUME Straight'
                   PROVE  /\ NotCutOff' /\ OneOfEach'
                          /\ \A t \in Threads : MissedNone(pos, t)'
      OBVIOUS
    <3>2. Straight
      BY <2>1, <3>1 DEF Straight
    <3>3. OneOfEach'
      BY <2>1, <2>3, <2>4, <2>5, <3>2 DEF Chained, OneOfEach
    <3> QED BY <2>4, <2>7, <3>2, <3>3 DEF Chained, NotCutOff
  <2>9. Chained(pos)'
    BY <2>6, <2>7, <2>8 DEF Chained
  <2> QED BY <2>9 DEF CInv
<1>2. CASE Next
  <2>1. UInv /\ CInv /\ StraightStep
    BY <1>2, CalmStep, StraightSteps
  <2>2. PICK pos \in [Blocks -> Nat] : Chained(pos)
    BY <2>1 DEF CInv
  <2>3. \E pos2 \in [Blocks -> Nat] : Chained(pos2)'
    BY <1>2, <2>1, <2>2, Actions, BeginGetChains, BeginSetChains, EnterChains, ReadHeadChains,
       TakeBarrierChains, WalkOnChains, WalkEndsChains, TakeStateChains, TryItemChains,
       SkipItemChains, OtherKeyChains, GetSharesChains, GetOwnChains, PassChains, LeaveChains,
       EndCopyChains, RoomChains, EvictLockChains, ReadTailChains, TryTailChains,
       UnchainChains, ReclaimChains, EvictEndChains, PopChains, SetWaitsChains,
       SetTooOldChains, SetOwnChains, FillItemChains, FillFragmentChains, GiveBackChains,
       CountBackChains, FinishFirstChains, PublishChains, FinishInsertChains,
       FinishOverwriteChains
  <2> QED BY <2>3 DEF CInv
<1> QED BY <1>1, <1>2

LEMMA ChainsHold == Spec => [](TInv /\ (Calm => UInv /\ CInv))
<1>1. Init => TInv /\ (Calm => UInv /\ CInv)
  BY TInit, UInit, CInit
<1>2. TInv /\ (Calm => UInv /\ CInv) /\ [Next]_vars => (TInv /\ (Calm => UInv /\ CInv))'
  BY TNext, UNext, CNext
<1> QED BY <1>1, <1>2, PTL DEF Spec

\* The chains are doubly linked lists of live items, each in its own bucket's chain,
\* whatever evicts and inserts at once, until a thread works on the locks of a block that
\* was evicted under it (ram_ht.c:239, 381, 474).
THEOREM ChainsStayIntact == Spec => []ChainsIntact
<1>1. ASSUME CInv PROVE ChainsIntact
  <2>1. PICK pos : ChainsLaidOut(pos)
    BY <1>1 DEF CInv, Chained
  <2>2. NoKey \notin Keys
    BY KeysAssumption
  <2>3. ASSUME NEW x \in Linked
        PROVE  LET h == block[x]
                   b == Bucket(h.hv)
               IN  /\ h.key # NoKey
                   /\ h.prev = NULL => chain[b] = x
                   /\ h.prev # NULL => h.prev \in Linked /\ block[h.prev].next = x
                   /\ h.next # NULL => /\ h.next \in Linked
                                       /\ block[h.next].prev = x
                                       /\ Bucket(block[h.next].hv) = b
    BY <2>1, <2>2 DEF ChainsLaidOut
  <2>4. ASSUME NEW b \in Buckets, chain[b] # NULL
        PROVE  /\ chain[b] \in Linked
               /\ block[chain[b]].prev = NULL
               /\ Bucket(block[chain[b]].hv) = b
               /\ valid[b] \/ \E t \in Threads : At(t, "publish") /\ B(t) = b
    BY <2>1, <2>4 DEF ChainsLaidOut
  <2> QED BY <2>3, <2>4 DEF ChainsIntact
<1>2. TInv /\ (Calm => UInv /\ CInv) => ChainsIntact
  BY <1>1 DEF Calm, ChainsIntact
<1> QED BY <1>2, ChainsHold, PTL

\* Two sets of one key never leave two items that a get could find, one with the older
\* value: a set sees every item of its key that may be there (ram_ht.c:254, 381-474).
THEOREM OneItemForEachKey == Spec => []OneItemPerKey
<1>1. TInv /\ (Calm => UInv /\ CInv) => OneItemPerKey
  <2> SUFFICES ASSUME Calm => CInv, harm \cap {"walk", "locks"} = {}, leaked = {},
                      NEW x \in Linked, NEW y \in Linked, block[x].key = block[y].key, x # y
               PROVE  Evictors(x) \cup Evictors(y) # {}
    BY DEF OneItemPerKey
  <2>1. CInv /\ Straight
    BY DEF Calm, Straight
  <2>2. OneOfEach
    BY <2>1 DEF CInv, Chained
  <2> QED BY <2>2 DEF OneOfEach, Passable
<1> QED BY <1>1, ChainsHold, PTL

-----------------------------------------------------------------------------
(* Sizes and counts. *)

\* Blocks on the free list that their evictor or giver has yet to count.
Owing == Evicting \cup {"count"}
Owed(t) == IF th[t].pc \in Owing THEN th[t].freed_tot ELSE 0
Uncounted == {p \in Threads \X Nat : p[2] \in 1 .. Owed(p[1])}

\* An item's size never promises more blocks than it has; an item that is overwritten
\* starts again from one.
Growing == Writing \ {"drop", "count", "finish"}
SizeOf(t) ==
    /\ th[t].pc = "drop" => /\ block[th[t].mine].size = 1
                            /\ Len(block[th[t].mine].frags) > th[t].frags
    /\ th[t].pc \in Growing /\ th[t].mine # NULL =>
          Len(block[th[t].mine].frags) < th[t].frags

SizesHold ==
    /\ \A x \in Items : block[x].size <= 1 + Len(block[x].frags)
    /\ \A t \in Threads : SizeOf(t)

Exact == \A t \in Threads : ~Misreads(t)
Covered == IsFiniteSet(Uncounted) /\ num_free_blocks + Cardinality(Uncounted) <= Len(free)

NInv == SizesHold /\ ("count" \notin harm => Exact /\ Covered)

-----------------------------------------------------------------------------
(* Steps that leave sizes and counts alone. *)

\* A step that makes no release read another thread's size starts where none had.
ExactStep == "count" \notin harm' => "count" \notin harm /\ Exact'

SameSizes(x) == block'[x].size = block[x].size /\ block'[x].frags = block[x].frags

LEMMA Column ==
    ASSUME NEW x, NEW n \in Nat
    PROVE  IsFiniteSet({x} \X (1 .. n)) /\ Cardinality({x} \X (1 .. n)) = n
<1>1. IsFiniteSet({x}) /\ Cardinality({x}) = 1
  BY FS_Singleton
<1>2. IsFiniteSet(1 .. n) /\ Cardinality(1 .. n) = n
  BY FS_Interval
<1>3. /\ IsFiniteSet({x} \X (1 .. n))
      /\ Cardinality({x} \X (1 .. n)) = Cardinality({x}) * Cardinality(1 .. n)
  BY <1>1, <1>2, FS_Product
<1>4. 1 * n = n
  OBVIOUS
<1> QED BY <1>1, <1>2, <1>3, <1>4

LEMMA OwedTypes ==
    ASSUME TInv, NEW t \in Threads
    PROVE  Owed(t) \in Nat
BY ThreadTypes DEF Owed

\* What a step of t adds to the blocks that are owed, t adds.
LEMMA OwedStep ==
    ASSUME TInv, NEW t \in Threads, Moved(t), IsFiniteSet(Uncounted),
           NEW n \in Nat, n = Owed(t)'
    PROVE  /\ IsFiniteSet(Uncounted)'
           /\ Cardinality(Uncounted) \in Nat
           /\ Cardinality(Uncounted)' = Cardinality(Uncounted) - Owed(t) + n
<1> DEFINE Rest == {p \in Uncounted : p[1] # t}
           Old == {t} \X (1 .. Owed(t))
           New == {t} \X (1 .. n)
<1>1. Owed(t) \in Nat
  BY OwedTypes
<1>2. \A u \in Threads \ {t} : Owed(u)' = Owed(u)
  BY DEF Moved, Owed
<1>3. Uncounted = Rest \cup Old
  BY <1>1 DEF Uncounted
<1>4. Uncounted' = Rest \cup New
  <2>1. ASSUME NEW p \in Threads \X Nat
        PROVE  p \in Uncounted' <=> p \in Rest \cup New
    <3>1. p \in Uncounted' <=> p[2] \in 1 .. Owed(p[1])'
      BY <2>1 DEF Uncounted
    <3>2. CASE p[1] = t
      <4>1. p \in New <=> p[2] \in 1 .. n
        BY <2>1, <3>2
      <4> QED BY <3>1, <3>2, <4>1
    <3>3. CASE p[1] # t
      <4>1. Owed(p[1])' = Owed(p[1])
        BY <1>2, <2>1, <3>3
      <4>2. p \in Uncounted <=> p[2] \in 1 .. Owed(p[1])
        BY <2>1 DEF Uncounted
      <4>3. p \notin New
        BY <3>3
      <4> QED BY <3>1, <3>3, <4>1, <4>2, <4>3
    <3> QED BY <3>2, <3>3
  <2>2. Uncounted' \subseteq Threads \X Nat /\ Rest \cup New \subseteq Threads \X Nat
    BY DEF Uncounted
  <2> QED BY <2>1, <2>2
<1>5. Rest \cap Old = {} /\ Rest \cap New = {}
  OBVIOUS
<1>6. IsFiniteSet(Rest) /\ Cardinality(Rest) \in Nat /\ Cardinality(Uncounted) \in Nat
  BY FS_Subset, FS_CardinalityType
<1>7. /\ IsFiniteSet(Old) /\ Cardinality(Old) = Owed(t)
      /\ IsFiniteSet(New) /\ Cardinality(New) = n
  BY <1>1, Column
<1> HIDE DEF Rest, Old, New
<1>8. Cardinality(Rest \cap Old) = 0 /\ Cardinality(Rest \cap New) = 0
  BY <1>5, FS_EmptySet
<1>9. Cardinality(Uncounted) = Cardinality(Rest) + Owed(t)
  <2>1. Cardinality(Rest \cup Old)
            = Cardinality(Rest) + Cardinality(Old) - Cardinality(Rest \cap Old)
    BY <1>6, <1>7, FS_Union
  <2>2. PICK o \in Nat : o = Owed(t)
    BY <1>1
  <2>3. Cardinality(Rest \cup Old) = Cardinality(Rest) + o - 0
    BY <1>7, <1>8, <2>1, <2>2
  <2>4. Cardinality(Rest) + o - 0 = Cardinality(Rest) + o
    BY <1>6, <2>2
  <2> QED BY <1>3, <2>2, <2>3, <2>4
<1>10. IsFiniteSet(Uncounted') /\ Cardinality(Uncounted') = Cardinality(Rest) + n
  <2>1. /\ IsFiniteSet(Rest \cup New)
        /\ Cardinality(Rest \cup New)
            = Cardinality(Rest) + Cardinality(New) - Cardinality(Rest \cap New)
    BY <1>6, <1>7, FS_Union
  <2>2. Cardinality(Rest \cup New) = Cardinality(Rest) + n - 0
    BY <1>7, <1>8, <2>1
  <2>3. Cardinality(Rest) + n - 0 = Cardinality(Rest) + n
    BY <1>6
  <2> QED BY <1>4, <2>1, <2>2, <2>3
<1> QED BY <1>1, <1>6, <1>9, <1>10

LEMMA CoveredStep ==
    ASSUME TInv, NEW t \in Threads, Moved(t), Covered,
           num_free_blocks' \in Int, Len(free') \in Nat, Owed(t)' \in Nat,
           num_free_blocks' + Owed(t)' + Len(free)
              <= num_free_blocks + Owed(t) + Len(free')
    PROVE  Covered'
<1>1. PICK n \in Nat : n = Owed(t)'
  OBVIOUS
<1>2. /\ IsFiniteSet(Uncounted)' /\ Cardinality(Uncounted) \in Nat
      /\ Cardinality(Uncounted)' = Cardinality(Uncounted) - Owed(t) + n
  BY <1>1, OwedStep DEF Covered
<1>3. num_free_blocks \in Int /\ Len(free) \in Nat /\ Owed(t) \in Nat
  BY StateTypes, OwedTypes
<1>4. num_free_blocks + Cardinality(Uncounted) <= Len(free)
  BY DEF Covered
<1>5. PICK a \in Int : a = num_free_blocks'
  OBVIOUS
<1>6. PICK k \in Nat : k = Len(free')
  OBVIOUS
<1>7. PICK o \in Nat, m \in Int, l \in Nat, c \in Nat :
         o = Owed(t) /\ m = num_free_blocks /\ l = Len(free) /\ c = Cardinality(Uncounted)
  BY <1>2, <1>3
<1>8. a + n + l <= m + o + k /\ m + c <= l
  BY <1>1, <1>4, <1>5, <1>6, <1>7
<1>9. a + (c - o + n) <= k
  BY <1>8
<1>10. num_free_blocks' + Cardinality(Uncounted)' <= Len(free')
  BY <1>2, <1>5, <1>6, <1>7, <1>9
<1> QED BY <1>2, <1>10 DEF Covered

\* Sizes stay with the items, and with the thread at work on one.
LEMMA SizesStay ==
    ASSUME TInv, SizesHold, NEW t \in Threads, Moved(t), Items' \subseteq Items,
           \A x \in Items : SameSizes(x), SizeOf(t)'
    PROVE  SizesHold'
<1>1. \A x \in Items' : block'[x].size <= 1 + Len(block'[x].frags)
  BY DEF SizesHold, SameSizes
<1>2. ASSUME NEW u \in Threads \ {t} PROVE SizeOf(u)'
  <2>1. SizeOf(u) /\ th'[u] = th[u]
    BY DEF SizesHold, Moved
  <2>2. th[u].mine # NULL => SameSizes(th[u].mine)
    BY LinkedBlocks
  <2>3. th[u].pc = "drop" => th[u].mine # NULL
    BY ThreadTypes DEF PointersOf
  <2> QED BY <2>1, <2>2, <2>3 DEF SizeOf, SameSizes
<1> QED BY <1>1, <1>2 DEF SizesHold

LEMMA ItemsWithin ==
    ASSUME TInv, UInv, NEW t \in Threads, Moved(t),
           lru' = lru \/ \E x \in Items : lru' = ToFront(x),
           th'[t].mine \in {th[t].mine, NULL}
    PROVE  Items' \subseteq Items
<1>1. ASSUME NEW x \in Items, lru' = ToFront(x)
      PROVE  ToSet(lru') \subseteq Items
  <2>1. x \in Blocks /\ lru \in Seq(Blocks) /\ IsInjective(lru) /\ ToSet(lru) \subseteq Items
    BY LinkedBlocks, StateTypes DEF UInv, Placed
  <2>2. ToSet(lru') = ToSet(lru) \cup {x}
    BY <1>1, <2>1, ToFrontFacts
  <2> QED BY <2>1, <2>2
<1>2. ToSet(lru') \subseteq Items
  BY <1>1, LinkedBlocks
<1>3. \A u \in Threads : th'[u].mine \in {th[u].mine, NULL}
  BY DEF Moved
<1>4. Items' \subseteq ToSet(lru') \cup ({th'[u].mine : u \in Threads} \ {NULL})
  BY DEF Items
<1> QED BY <1>2, <1>3, <1>4, LinkedBlocks

\* What most steps leave alone.
KeepsSizes(t) ==
    /\ Moved(t) /\ \A x \in Blocks : SameSizes(x)
    /\ lru' = lru \/ \E x \in Items : lru' = ToFront(x)
    /\ th'[t].pc # "drop"
    /\ \/ th'[t].mine = NULL
       \/ /\ th'[t].mine = th[t].mine /\ th'[t].frags = th[t].frags
          /\ th[t].pc \in Growing \/ th'[t].pc \notin Growing

LEMMA SizesKept ==
    ASSUME TInv, UInv, SizesHold, NEW t \in Threads, KeepsSizes(t)
    PROVE  SizesHold'
<1>1. Items' \subseteq Items
  BY ItemsWithin DEF KeepsSizes
<1>2. \A x \in Items : SameSizes(x)
  BY LinkedBlocks DEF KeepsSizes
<1>3. SizeOf(t)'
  <2>1. CASE th'[t].mine = NULL
    BY <2>1 DEF KeepsSizes, SizeOf
  <2>2. CASE th'[t].mine # NULL /\ th'[t].pc \in Growing
    <3>1. /\ th[t].mine # NULL /\ th'[t].mine = th[t].mine /\ th'[t].frags = th[t].frags
          /\ th[t].pc \in Growing /\ th'[t].pc # "drop"
      BY <2>2 DEF KeepsSizes
    <3>2. SameSizes(th[t].mine)
      BY <1>2, <3>1, LinkedBlocks
    <3> QED BY <3>1, <3>2 DEF SizeOf, SizesHold, SameSizes
  <2>3. CASE th'[t].pc \notin Growing
    BY <2>3 DEF KeepsSizes, SizeOf
  <2> QED BY <2>1, <2>2, <2>3
<1> QED BY <1>1, <1>2, <1>3, SizesStay DEF KeepsSizes

LEMMA QuietCounts ==
    ASSUME TInv, UInv, NInv, NEW t \in Threads, KeepsSizes(t), ExactStep,
           free' = free, num_free_blocks' = num_free_blocks,
           \/ th'[t].pc \notin Owing
           \/ th'[t].freed_tot = 0
           \/ th[t].pc \in Owing /\ th'[t].freed_tot = th[t].freed_tot
    PROVE  NInv'
<1>1. SizesHold'
  BY SizesKept DEF NInv
<1>2. ASSUME "count" \notin harm' PROVE Exact' /\ Covered'
  <2>1. Exact' /\ Covered
    BY <1>2 DEF ExactStep, NInv
  <2>2. Moved(t) /\ Owed(t) \in Nat /\ num_free_blocks \in Int /\ Len(free) \in Nat
    BY OwedTypes, StateTypes DEF KeepsSizes
  <2>3. Owed(t)' \in Nat /\ Owed(t)' <= Owed(t)
    BY <2>2 DEF Owed
  <2> QED BY <2>1, <2>2, <2>3, CoveredStep
<1> QED BY <1>1, <1>2 DEF NInv

-----------------------------------------------------------------------------
(* Sizes and counts: calls, gets and walks. *)

\* A thread without an item has nothing to count.
LEMMA WalkerCounts ==
    ASSUME TInv, UInv, NInv, NEW t \in Threads, th[t].pc \notin Writing,
           \/ Returns(t)
           \/ Moves(t, th'[t].pc) /\ th'[t].mine = th[t].mine,
           th'[t].pc \notin Owing \cup {"drop"}, \A x \in Blocks : SameSizes(x),
           lru' = lru \/ \E x \in Items : lru' = ToFront(x),
           free' = free, num_free_blocks' = num_free_blocks, ExactStep
    PROVE  NInv'
<1>1. Moved(t) /\ th'[t].mine = NULL
  BY OnlyWritersHaveItems DEF Returns, Moves, Idle
<1> QED BY <1>1, QuietCounts DEF KeepsSizes

\* Links, locks and states of a header may change.
LEMMA OneSize ==
    ASSUME TInv, NEW y \in Blocks, NEW h, block' = [block EXCEPT ![y] = h],
           h.size = block[y].size, h.frags = block[y].frags
    PROVE  \A x \in Blocks : SameSizes(x)
BY OneHeader DEF SameSizes

LEMMA ReleaseSizes ==
    ASSUME TInv, NEW x \in Blocks, block' = [block EXCEPT ![x] = Released(@)]
    PROVE  \A y \in Blocks : SameSizes(y)
<1>1. PICK h : h = Released(block[x])
  OBVIOUS
<1>2. h.size = block[x].size /\ h.frags = block[x].frags
  <2>1. PICK n : n = (block[x].readers + 255) % 256
    OBVIOUS
  <2>2. h = IF n = 0 THEN [block[x] EXCEPT !.readers = 0, !.state = "-", !.lock = FALSE]
                     ELSE [block[x] EXCEPT !.readers = n]
    BY <1>1, <2>1 DEF Released
  <2> QED BY <2>2, HeaderTypes DEF Header
<1>3. block' = [block EXCEPT ![x] = h]
  BY <1>1
<1> QED BY <1>2, <1>3, OneSize

LEMMA BeginGetCounts ==
    ASSUME TInv, UInv, NInv, NEW t \in Threads, NEW k \in Keys, BeginGet(t, k), ExactStep
    PROVE  NInv'
<1>1. /\ Moved(t) /\ UNCHANGED <<block, lru, free, num_free_blocks>>
      /\ th'[t].pc = "enter" /\ th'[t].mine = NULL
  BY BeginGetDoes
<1>2. \A x \in Blocks : SameSizes(x)
  BY <1>1 DEF SameSizes
<1> QED BY <1>1, <1>2, QuietCounts DEF KeepsSizes, Owing, Evicting, Choosing

LEMMA BeginSetCounts ==
    ASSUME TInv, UInv, NInv, NEW t \in Threads, NEW k \in Keys, NEW w \in Writes,
           BeginSet(t, k, w), ExactStep
    PROVE  NInv'
<1>1. /\ Moved(t) /\ UNCHANGED <<block, lru, free, num_free_blocks>>
      /\ th'[t].pc = "enter" /\ th'[t].mine = NULL
  BY BeginSetDoes
<1>2. \A x \in Blocks : SameSizes(x)
  BY <1>1 DEF SameSizes
<1> QED BY <1>1, <1>2, QuietCounts DEF KeepsSizes, Owing, Evicting, Choosing

LEMMA EnterCounts ==
    ASSUME TInv, UInv, NInv, NEW t \in Threads, Enter(t), ExactStep
    PROVE  NInv'
<1>1. /\ th[t].pc = "enter" /\ UNCHANGED <<block, lru, free, num_free_blocks>>
      /\ Moves(t, th'[t].pc) /\ th'[t].mine = th[t].mine
      /\ th'[t].pc \in {"barrier", "head", "room"}
  BY EnterDoes DEF Goes, Moves, SameItems
<1>2. \A x \in Blocks : SameSizes(x)
  BY <1>1 DEF SameSizes
<1> QED BY <1>1, <1>2, WalkerCounts DEF Writing, Owing, Evicting, Choosing

LEMMA ReadHeadCounts ==
    ASSUME TInv, UInv, NInv, NEW t \in Threads, ReadHead(t), ExactStep
    PROVE  NInv'
<1>1. /\ th[t].pc = "head" /\ UNCHANGED <<block, lru, free, num_free_blocks>>
      /\ Moves(t, th'[t].pc) /\ th'[t].mine = th[t].mine
      /\ th'[t].pc \in {"walk"}
  BY ReadHeadDoes DEF Goes, Moves, SameItems
<1>2. \A x \in Blocks : SameSizes(x)
  BY <1>1 DEF SameSizes
<1> QED BY <1>1, <1>2, WalkerCounts DEF Writing, Owing, Evicting, Choosing

LEMMA TakeBarrierCounts ==
    ASSUME TInv, UInv, NInv, NEW t \in Threads, TakeBarrier(t), ExactStep
    PROVE  NInv'
<1>1. /\ th[t].pc = "barrier" /\ UNCHANGED <<block, lru, free, num_free_blocks>>
      /\ Moves(t, th'[t].pc) /\ th'[t].mine = th[t].mine
      /\ th'[t].pc \in {"walk"}
  BY TakeBarrierDoes DEF Goes, Moves, SameItems
<1>2. \A x \in Blocks : SameSizes(x)
  BY <1>1 DEF SameSizes
<1> QED BY <1>1, <1>2, WalkerCounts DEF Writing, Owing, Evicting, Choosing

LEMMA WalkOnCounts ==
    ASSUME TInv, UInv, NInv, NEW t \in Threads, WalkOn(t), ExactStep
    PROVE  NInv'
<1>1. /\ th[t].pc = "walk" /\ UNCHANGED <<block, lru, free, num_free_blocks>>
      /\ Moves(t, th'[t].pc) /\ th'[t].mine = th[t].mine
      /\ th'[t].pc \in {"state", "walk"}
  BY WalkOnDoes DEF Goes, Moves, SameItems
<1>2. \A x \in Blocks : SameSizes(x)
  BY <1>1 DEF SameSizes
<1> QED BY <1>1, <1>2, WalkerCounts DEF Writing, Owing, Evicting, Choosing

LEMMA LeaveCounts ==
    ASSUME TInv, UInv, NInv, NEW t \in Threads, Leave(t), ExactStep
    PROVE  NInv'
<1>1. /\ th[t].pc = "leave" /\ UNCHANGED <<block, lru, free, num_free_blocks>>
      /\ Moves(t, th'[t].pc) /\ th'[t].mine = th[t].mine
      /\ th'[t].pc \in {"copy"}
  BY LeaveDoes DEF Goes, Moves, SameItems
<1>2. \A x \in Blocks : SameSizes(x)
  BY <1>1 DEF SameSizes
<1> QED BY <1>1, <1>2, WalkerCounts DEF Writing, Owing, Evicting, Choosing

LEMMA WalkEndsCounts ==
    ASSUME TInv, UInv, NInv, NEW t \in Threads, WalkEnds(t), ExactStep
    PROVE  NInv'
<1>1. /\ th[t].pc = "walk" /\ UNCHANGED <<block, lru, free, num_free_blocks>>
      /\ Returns(t) \/ Goes(t, "room", th[t].it)
  BY WalkEndsDoes
<1>2. \A x \in Blocks : SameSizes(x)
  BY <1>1 DEF SameSizes
<1>3. \/ Returns(t) /\ th'[t].pc = "idle"
      \/ Moves(t, th'[t].pc) /\ th'[t].pc = "room" /\ th'[t].mine = th[t].mine
  BY <1>1 DEF Goes, Moves, SameItems, Returns, Idle
<1> QED BY <1>1, <1>2, <1>3, WalkerCounts DEF Writing, Owing, Evicting, Choosing

LEMMA SetTooOldCounts ==
    ASSUME TInv, UInv, NInv, NEW t \in Threads, SetTooOld(t), ExactStep
    PROVE  NInv'
<1>1. /\ th[t].pc = "own" /\ UNCHANGED <<block, lru, free, num_free_blocks>>
      /\ Returns(t) /\ th'[t].pc = "idle"
  BY SetTooOldDoes DEF Returns, Idle
<1>2. \A x \in Blocks : SameSizes(x)
  BY <1>1 DEF SameSizes
<1> QED BY <1>1, <1>2, WalkerCounts DEF Writing, Owing, Evicting, Choosing

LEMMA PublishCounts ==
    ASSUME TInv, UInv, NInv, NEW t \in Threads, Publish(t), ExactStep
    PROVE  NInv'
<1>1. /\ th[t].pc = "publish" /\ UNCHANGED <<block, lru, free, num_free_blocks>>
      /\ Returns(t) /\ th'[t].pc = "idle"
  BY PublishDoes DEF Returns, Idle
<1>2. \A x \in Blocks : SameSizes(x)
  BY <1>1 DEF SameSizes
<1> QED BY <1>1, <1>2, WalkerCounts DEF Writing, Owing, Evicting, Choosing

LEMMA TakeStateCounts ==
    ASSUME TInv, UInv, NInv, NEW t \in Threads, TakeState(t), ExactStep
    PROVE  NInv'
<1>1. /\ th[t].pc = "state" /\ UNCHANGED <<lru, free, num_free_blocks>>
      /\ Moves(t, th'[t].pc) /\ th'[t].mine = th[t].mine
      /\ th'[t].pc \in {"choose"}
  BY TakeStateDoes DEF Goes, Moves, SameItems
<1>2. PICK x : x = th[t].it
  OBVIOUS
<1>3. x \in Blocks
  BY <1>1, <1>2, PointerTypes
<1>4. \A y \in Blocks : SameSizes(y)
  <2>1. block' = [block EXCEPT ![x] = [block[x] EXCEPT !.slock = 1]]
    BY <1>2 DEF TakeState, Here
  <2> QED BY <1>3, <2>1, OneSize, HeaderTypes DEF Header
<1> QED BY <1>1, <1>4, WalkerCounts DEF Writing, Owing, Evicting, Choosing

LEMMA TryItemCounts ==
    ASSUME TInv, UInv, NInv, NEW t \in Threads, TryItem(t), ExactStep
    PROVE  NInv'
<1>1. /\ th[t].pc = "choose" /\ UNCHANGED <<lru, free, num_free_blocks>>
      /\ Moves(t, th'[t].pc) /\ th'[t].mine = th[t].mine
      /\ th'[t].pc \in {"own"}
  BY TryItemDoes DEF Goes, Moves, SameItems
<1>2. PICK x : x = th[t].it
  OBVIOUS
<1>3. x \in Blocks
  BY <1>1, <1>2, PointerTypes
<1>4. \A y \in Blocks : SameSizes(y)
  <2>1. block' = [block EXCEPT ![x] = [block[x] EXCEPT !.slock = 0, !.lock = TRUE]]
    BY <1>2 DEF TryItem, Here
  <2> QED BY <1>3, <2>1, OneSize, HeaderTypes DEF Header
<1> QED BY <1>1, <1>4, WalkerCounts DEF Writing, Owing, Evicting, Choosing

LEMMA SkipItemCounts ==
    ASSUME TInv, UInv, NInv, NEW t \in Threads, SkipItem(t), ExactStep
    PROVE  NInv'
<1>1. /\ th[t].pc = "choose" /\ UNCHANGED <<lru, free, num_free_blocks>>
      /\ Moves(t, th'[t].pc) /\ th'[t].mine = th[t].mine
      /\ th'[t].pc \in {"barrier"}
  BY SkipItemDoes DEF Goes, Moves, SameItems
<1>2. PICK x : x = th[t].it
  OBVIOUS
<1>3. x \in Blocks
  BY <1>1, <1>2, PointerTypes
<1>4. \A y \in Blocks : SameSizes(y)
  <2>1. block' = [block EXCEPT ![x] = [block[x] EXCEPT !.slock = 0]]
    BY <1>2 DEF SkipItem, Here
  <2> QED BY <1>3, <2>1, OneSize, HeaderTypes DEF Header
<1> QED BY <1>1, <1>4, WalkerCounts DEF Writing, Owing, Evicting, Choosing

LEMMA SetWaitsCounts ==
    ASSUME TInv, UInv, NInv, NEW t \in Threads, SetWaits(t), ExactStep
    PROVE  NInv'
<1>1. /\ th[t].pc = "choose" /\ UNCHANGED <<lru, free, num_free_blocks>>
      /\ Moves(t, th'[t].pc) /\ th'[t].mine = th[t].mine
      /\ th'[t].pc \in {"barrier"}
  BY SetWaitsDoes DEF Goes, Moves, SameItems
<1>2. PICK x : x = th[t].it
  OBVIOUS
<1>3. x \in Blocks
  BY <1>1, <1>2, PointerTypes
<1>4. \A y \in Blocks : SameSizes(y)
  <2>1. block' = [block EXCEPT ![x] = [block[x] EXCEPT !.slock = 0]]
    BY <1>2 DEF SetWaits, Here
  <2> QED BY <1>3, <2>1, OneSize, HeaderTypes DEF Header
<1> QED BY <1>1, <1>4, WalkerCounts DEF Writing, Owing, Evicting, Choosing

LEMMA OtherKeyCounts ==
    ASSUME TInv, UInv, NInv, NEW t \in Threads, OtherKey(t), ExactStep
    PROVE  NInv'
<1>1. /\ th[t].pc = "own" /\ UNCHANGED <<lru, free, num_free_blocks>>
      /\ Moves(t, th'[t].pc) /\ th'[t].mine = th[t].mine
      /\ th'[t].pc \in {"walk"}
  BY OtherKeyDoes DEF Goes, Moves, SameItems
<1>2. PICK x : x = th[t].it
  OBVIOUS
<1>3. x \in Blocks
  BY <1>1, <1>2, PointerTypes
<1>4. \A y \in Blocks : SameSizes(y)
  <2>1. block' = [block EXCEPT ![x] = [block[x] EXCEPT !.lock = FALSE]]
    BY <1>2 DEF OtherKey, Here
  <2> QED BY <1>3, <2>1, OneSize, HeaderTypes DEF Header
<1> QED BY <1>1, <1>4, WalkerCounts DEF Writing, Owing, Evicting, Choosing

LEMMA PassCounts ==
    ASSUME TInv, UInv, NInv, NEW t \in Threads, Pass(t), ExactStep
    PROVE  NInv'
<1>1. /\ th[t].pc = "pass" /\ UNCHANGED <<lru, free, num_free_blocks>>
      /\ Moves(t, th'[t].pc) /\ th'[t].mine = th[t].mine
      /\ th'[t].pc \in {"walk"}
  BY PassDoes DEF Goes, Moves, SameItems
<1>2. PICK x : x = th[t].it
  OBVIOUS
<1>3. x \in Blocks
  BY <1>1, <1>2, PointerTypes
<1>4. \A y \in Blocks : SameSizes(y)
  BY <1>2, <1>3, ReleaseSizes DEF Pass
<1> QED BY <1>1, <1>4, WalkerCounts DEF Writing, Owing, Evicting, Choosing

LEMMA EndCopyCounts ==
    ASSUME TInv, UInv, NInv, NEW t \in Threads, EndCopy(t), ExactStep
    PROVE  NInv'
<1>1. /\ th[t].pc = "copy" /\ UNCHANGED <<lru, free, num_free_blocks>>
      /\ Returns(t) /\ th'[t].pc = "idle"
  BY EndCopyDoes DEF Returns, Idle
<1>2. PICK x : x = th[t].it
  OBVIOUS
<1>3. x \in Blocks
  BY <1>1, <1>2, PointerTypes
<1>4. \A y \in Blocks : SameSizes(y)
  BY <1>2, <1>3, ReleaseSizes DEF EndCopy
<1> QED BY <1>1, <1>4, WalkerCounts DEF Writing, Owing, Evicting, Choosing

LEMMA GetSharesCounts ==
    ASSUME TInv, UInv, NInv, NEW t \in Threads, GetShares(t), ExactStep
    PROVE  NInv'
<1>1. /\ th[t].pc = "choose" /\ UNCHANGED <<free, num_free_blocks>>
      /\ Moves(t, th'[t].pc) /\ th'[t].mine = th[t].mine
      /\ th'[t].pc \in {"leave", "pass"}
  BY GetSharesDoes DEF Goes, Moves, SameItems
<1>2. PICK x : x = th[t].it
  OBVIOUS
<1>3. x \in Blocks /\ x \in Items
  BY <1>1, <1>2, LinkedBlocks DEF UInv, NotAstray, Astray, Gone
<1>4. \A y \in Blocks : SameSizes(y)
  <2>1. PICK n : n = (block[x].readers + 1) % 256
    OBVIOUS
  <2>2. block' = [block EXCEPT ![x] = [block[x] EXCEPT !.slock = 0, !.readers = n]]
    BY <1>2, <2>1 DEF GetShares, Here
  <2> QED BY <1>3, <2>2, OneSize, HeaderTypes DEF Header
<1>5. lru' = lru \/ \E y \in Items : lru' = ToFront(y)
  BY <1>2, <1>3, LinkedBlocks DEF GetShares
<1> QED BY <1>1, <1>4, <1>5, WalkerCounts DEF Writing, Owing, Evicting, Choosing

LEMMA GetOwnCounts ==
    ASSUME TInv, UInv, NInv, NEW t \in Threads, GetOwn(t), ExactStep
    PROVE  NInv'
<1>1. /\ th[t].pc = "own" /\ UNCHANGED <<free, num_free_blocks>>
      /\ Moves(t, th'[t].pc) /\ th'[t].mine = th[t].mine
      /\ th'[t].pc \in {"leave"}
  BY GetOwnDoes DEF Goes, Moves, SameItems
<1>2. PICK x : x = th[t].it
  OBVIOUS
<1>3. x \in Blocks /\ x \in Items
  BY <1>1, <1>2, LinkedBlocks DEF UInv, NotAstray, Astray, Gone
<1>4. \A y \in Blocks : SameSizes(y)
  <2>1. block' = [block EXCEPT ![x] = [block[x] EXCEPT !.state = "r", !.readers = 1]]
    BY <1>2 DEF GetOwn, Here
  <2> QED BY <1>3, <2>1, OneSize, HeaderTypes DEF Header
<1>5. lru' = lru \/ \E y \in Items : lru' = ToFront(y)
  BY <1>2, <1>3, LinkedBlocks DEF GetOwn
<1> QED BY <1>1, <1>4, <1>5, WalkerCounts DEF Writing, Owing, Evicting, Choosing

-----------------------------------------------------------------------------
(* Sizes and counts: a set that writes its item, and the evictor. *)

LEMMA WriterCounts ==
    ASSUME TInv, UInv, NInv, NEW t \in Threads, Moves(t, th'[t].pc),
           th'[t].mine = th[t].mine, th'[t].pc # "drop",
           th[t].pc \in Growing \/ th'[t].pc \notin Growing,
           \A x \in Blocks : SameSizes(x),
           lru' = lru \/ \E x \in Items : lru' = ToFront(x),
           free' = free, num_free_blocks' = num_free_blocks, ExactStep,
           \/ th'[t].pc \notin Owing
           \/ th'[t].freed_tot = 0
           \/ th[t].pc \in Owing /\ th'[t].freed_tot = th[t].freed_tot
    PROVE  NInv'
BY QuietCounts DEF KeepsSizes, Moves

\* What changes the counts keeps the sum of what is counted and what is owed.
LEMMA CountsKept ==
    ASSUME TInv, NInv, NEW t \in Threads, Moved(t), ExactStep, SizesHold',
           num_free_blocks' \in Int, Len(free') \in Nat, Owed(t)' \in Nat,
           Exact => num_free_blocks' + Owed(t)' + Len(free)
                       <= num_free_blocks + Owed(t) + Len(free')
    PROVE  NInv'
<1>1. ASSUME "count" \notin harm' PROVE Exact' /\ Covered'
  <2>1. Exact' /\ Exact /\ Covered
    BY <1>1 DEF ExactStep, NInv
  <2> QED BY <2>1, CoveredStep
<1> QED BY <1>1 DEF NInv

LEMMA SizesMove ==
    ASSUME TInv, UInv, NInv, NEW t \in Threads, Moves(t, th'[t].pc),
           th'[t].mine = th[t].mine, th'[t].pc # "drop",
           th[t].pc \in Growing \/ th'[t].pc \notin Growing,
           \A x \in Blocks : SameSizes(x), lru' = lru
    PROVE  SizesHold'
BY SizesKept DEF KeepsSizes, Moves, NInv

LEMMA RoomCounts ==
    ASSUME TInv, UInv, NInv, NEW t \in Threads, Room(t), ExactStep
    PROVE  NInv'
<1>1. /\ th[t].pc = "room" /\ UNCHANGED <<block, lru, free, num_free_blocks>>
      /\ Moves(t, th'[t].pc) /\ th'[t].mine = th[t].mine
      /\ th'[t].pc \in {"evict_lock", "pop"}
  BY RoomDoes DEF Goes, Moves, SameItems
<1>2. \A x \in Blocks : SameSizes(x)
  BY <1>1 DEF SameSizes
<1> QED BY <1>1, <1>2, WriterCounts DEF Growing, Writing, Owing, Evicting, Choosing

LEMMA EvictLockCounts ==
    ASSUME TInv, UInv, NInv, NEW t \in Threads, EvictLock(t), ExactStep
    PROVE  NInv'
<1>1. /\ th[t].pc = "evict_lock" /\ UNCHANGED <<block, lru, free, num_free_blocks>>
      /\ Moves(t, th'[t].pc) /\ th'[t].mine = th[t].mine
      /\ \/ th'[t].pc = "pop"
         \/ th'[t].pc = "tail" /\ th'[t].freed_tot = 0
  BY EvictLockDoes DEF Goes, Moves, SameItems
<1>2. \A x \in Blocks : SameSizes(x)
  BY <1>1 DEF SameSizes
<1> QED BY <1>1, <1>2, WriterCounts DEF Growing, Writing, Owing, Evicting, Choosing

LEMMA ReadTailCounts ==
    ASSUME TInv, UInv, NInv, NEW t \in Threads, ReadTail(t), ExactStep
    PROVE  NInv'
<1>1. /\ th[t].pc = "tail" /\ UNCHANGED <<block, lru, free, num_free_blocks>>
      /\ Moves(t, th'[t].pc) /\ th'[t].mine = th[t].mine
      /\ th'[t].freed_tot = th[t].freed_tot /\ th'[t].pc \in {"crash", "try"}
  BY ReadTailDoes DEF Goes, Moves, SameItems, SameAmounts
<1>2. \A x \in Blocks : SameSizes(x)
  BY <1>1 DEF SameSizes
<1> QED BY <1>1, <1>2, WriterCounts DEF Growing, Writing, Owing, Evicting, Choosing

LEMMA TryTailCounts ==
    ASSUME TInv, UInv, NInv, NEW t \in Threads, TryTail(t), ExactStep
    PROVE  NInv'
<1>1. /\ th[t].pc = "try" /\ UNCHANGED <<free, num_free_blocks>>
      /\ Moves(t, th'[t].pc) /\ th'[t].mine = th[t].mine
      /\ th'[t].freed_tot = th[t].freed_tot /\ th'[t].pc \in {"tail", "unchain"}
  BY TryTailDoes DEF Goes, Moves, SameItems, SameAmounts
<1>2. PICK x : x = th[t].got
  OBVIOUS
<1>3. x \in Blocks /\ x \in Items
  BY <1>1, <1>2, TailIsLinked, LinkedBlocks DEF At
<1>4. \/ lru' = ToFront(x) /\ block' = block
      \/ lru' = lru /\ block' = [block EXCEPT ![x] = [block[x] EXCEPT !.lock = TRUE]]
  BY <1>2 DEF TryTail
<1>5. \A y \in Blocks : SameSizes(y)
  <2>1. CASE block' = block
    BY <2>1 DEF SameSizes
  <2>2. CASE block' = [block EXCEPT ![x] = [block[x] EXCEPT !.lock = TRUE]]
    BY <1>3, <2>2, OneSize, HeaderTypes DEF Header
  <2> QED BY <1>4, <2>1, <2>2
<1>6. lru' = lru \/ \E y \in Items : lru' = ToFront(y)
  BY <1>3, <1>4
<1> QED BY <1>1, <1>5, <1>6, WriterCounts DEF Growing, Writing, Owing, Evicting, Choosing

LEMMA UnchainCounts ==
    ASSUME TInv, UInv, NInv, NEW t \in Threads, Unchain(t), ExactStep
    PROVE  NInv'
<1>1. /\ th[t].pc = "unchain" /\ UNCHANGED <<lru, free, num_free_blocks>>
      /\ Moves(t, th'[t].pc) /\ th'[t].mine = th[t].mine
      /\ th'[t].freed_tot = th[t].freed_tot /\ th'[t].pc = "reclaim"
  BY UnchainDoes DEF Goes, Moves, SameItems, SameAmounts
<1>2. PICK p, n : block' = Unlinked(p, n)
  BY DEF Unchain
<1>3. ASSUME NEW x \in Blocks PROVE SameSizes(x)
  <2>1. block[x] \in Header
    BY HeaderTypes
  <2>2. \/ block'[x] = [block[x] EXCEPT !.next = n]
        \/ block'[x] = [block[x] EXCEPT !.prev = p]
        \/ block'[x] = block[x]
    BY <1>2 DEF Unlinked
  <2> QED BY <2>1, <2>2 DEF SameSizes, Header
<1> QED BY <1>1, <1>3, WriterCounts DEF Growing, Writing, Owing, Evicting, Choosing

\* The evictor counts what it freed,
LEMMA EvictEndCounts ==
    ASSUME TInv, UInv, NInv, NEW t \in Threads, EvictEnd(t), ExactStep
    PROVE  NInv'
<1>1. /\ th[t].pc = "evict_end" /\ UNCHANGED <<block, lru, free>>
      /\ Moves(t, th'[t].pc) /\ th'[t].mine = th[t].mine /\ th'[t].pc = "pop"
      /\ num_free_blocks' = num_free_blocks + th[t].freed_tot
  BY EvictEndDoes DEF Goes, Moves, SameItems, EvictEnd
<1>2. \A x \in Blocks : SameSizes(x)
  BY <1>1 DEF SameSizes
<1>3. SizesHold'
  BY <1>1, <1>2, SizesMove DEF Growing, Writing
<1>4. Owed(t) = th[t].freed_tot /\ Owed(t)' = 0
  BY <1>1 DEF Owed, Owing, Evicting, Choosing
<1>5. num_free_blocks \in Int /\ th[t].freed_tot \in Nat /\ Len(free) \in Nat /\ Moved(t)
  BY <1>1, StateTypes, ThreadTypes DEF Moves
<1>6. /\ num_free_blocks' \in Int /\ Len(free') \in Nat /\ Owed(t)' \in Nat
      /\ num_free_blocks' + Owed(t)' + Len(free) <= num_free_blocks + Owed(t) + Len(free')
  BY <1>1, <1>4, <1>5
<1> QED BY <1>3, <1>5, <1>6, CountsKept

\* ... a shorter value what it gave back, when it reads its own size.
LEMMA CountBackCounts ==
    ASSUME TInv, UInv, NInv, NEW t \in Threads, CountBack(t), ExactStep
    PROVE  NInv'
<1>1. /\ th[t].pc = "count" /\ UNCHANGED <<block, lru, free>>
      /\ Moves(t, th'[t].pc) /\ th'[t].mine = th[t].mine /\ th'[t].pc = "finish"
      /\ num_free_blocks' = num_free_blocks + block[th[t].got].slock
  BY CountBackDoes DEF Goes, Moves, SameItems, CountBack
<1>2. \A x \in Blocks : SameSizes(x)
  BY <1>1 DEF SameSizes
<1>3. SizesHold'
  BY <1>1, <1>2, SizesMove DEF Growing
<1>4. Owed(t) = th[t].freed_tot /\ Owed(t)' = 0
  BY <1>1 DEF Owed, Owing, Evicting, Choosing
<1>5. /\ num_free_blocks \in Int /\ th[t].freed_tot \in Nat /\ Len(free) \in Nat /\ Moved(t)
      /\ block[th[t].got].slock \in Nat
  BY <1>1, StateTypes, ThreadTypes, PointerTypes, HeaderTypes DEF Moves
<1>6. Exact => block[th[t].got].slock = th[t].freed_tot
  BY <1>1 DEF Exact, Misreads, At
<1>7. /\ num_free_blocks' \in Int /\ Len(free') \in Nat /\ Owed(t)' \in Nat
      /\ Exact => num_free_blocks' + Owed(t)' + Len(free)
                     <= num_free_blocks + Owed(t) + Len(free')
  BY <1>1, <1>4, <1>5, <1>6
<1> QED BY <1>3, <1>5, <1>7, CountsKept

LEMMA FinishFirstCounts ==
    ASSUME TInv, UInv, NInv, NEW t \in Threads, FinishFirst(t), ExactStep
    PROVE  NInv'
<1>1. /\ th[t].pc = "finish" /\ UNCHANGED <<block, free, num_free_blocks>>
      /\ Moved(t) /\ th'[t].mine = NULL /\ th'[t].pc = "publish"
      /\ lru' = ToFront(th[t].mine)
  BY FinishFirstDoes DEF Moves, FinishFirst
<1>2. th[t].mine \in Items
  BY <1>1, ThreadTypes, LinkedBlocks DEF PointersOf
<1>3. \A x \in Blocks : SameSizes(x)
  BY <1>1 DEF SameSizes
<1> QED BY <1>1, <1>2, <1>3, QuietCounts DEF KeepsSizes, Owing, Evicting, Choosing

LEMMA FinishInsertCounts ==
    ASSUME TInv, UInv, NInv, NEW t \in Threads, FinishInsert(t), ExactStep
    PROVE  NInv'
<1>1. /\ th[t].pc = "finish" /\ UNCHANGED <<free, num_free_blocks>>
      /\ Moved(t) /\ th'[t].mine = NULL /\ th'[t].pc = "idle"
  BY FinishInsertDoes DEF Returns, Idle
<1>0. lru' = ToFront(th[t].mine)
  BY DEF FinishInsert
<1>2. th[t].mine \in Items
  BY <1>1, ThreadTypes, LinkedBlocks DEF PointersOf
<1>3. PICK m, old : block' = LinkedBefore(m, old)
  BY DEF FinishInsert
<1>4. ASSUME NEW x \in Blocks PROVE SameSizes(x)
  <2>1. block[x] \in Header
    BY HeaderTypes
  <2>2. \/ block'[x] = [block[x] EXCEPT !.next = old]
        \/ block'[x] = [block[x] EXCEPT !.prev = m]
        \/ block'[x] = block[x]
    BY <1>3 DEF LinkedBefore
  <2> QED BY <2>1, <2>2 DEF SameSizes, Header
<1> QED BY <1>0, <1>1, <1>2, <1>4, QuietCounts DEF KeepsSizes, Owing, Evicting, Choosing

LEMMA FinishOverwriteCounts ==
    ASSUME TInv, UInv, NInv, NEW t \in Threads, FinishOverwrite(t), ExactStep
    PROVE  NInv'
<1>1. /\ th[t].pc = "finish" /\ UNCHANGED <<free, num_free_blocks>>
      /\ Moved(t) /\ th'[t].mine = NULL /\ th'[t].pc = "idle"
  BY FinishOverwriteDoes DEF Returns, Idle
<1>0. lru' = ToFront(th[t].mine)
  BY DEF FinishOverwrite
<1>2. PICK m : m = th[t].mine
  OBVIOUS
<1>3. m \in Items /\ m \in Blocks
  BY <1>1, <1>2, ThreadTypes, LinkedBlocks DEF PointersOf
<1>4. block' = [block EXCEPT ![m] = [block[m] EXCEPT !.state = "-", !.lock = FALSE]]
  BY <1>2 DEF FinishOverwrite
<1>5. \A x \in Blocks : SameSizes(x)
  BY <1>3, <1>4, OneSize, HeaderTypes DEF Header
<1> QED BY <1>0, <1>1, <1>2, <1>3, <1>5, QuietCounts DEF KeepsSizes, Owing, Evicting, Choosing

-----------------------------------------------------------------------------
(* Sizes and counts: steps that give sizes to items and move blocks. *)

\* Nobody else writes the item that t does.
LEMMA MineApart ==
    ASSUME TInv, UInv, NEW t \in Threads, th[t].mine # NULL, NEW u \in Threads \ {t}
    PROVE  th[u].mine # th[t].mine
<1> SUFFICES ASSUME th[u].mine = th[t].mine PROVE FALSE
  OBVIOUS
<1>1. FreshOf(t) /\ FreshOf(u)
  BY DEF UInv
<1>2. CASE Fresh(t) \/ Fresh(u)
  BY <1>1, <1>2 DEF FreshOf
<1>3. CASE Overwrites(t) /\ Overwrites(u)
  BY <1>3, WriterAlone DEF Uses
<1> QED BY <1>2, <1>3 DEF Fresh, Overwrites

\* The sizes after a step of t, put together.
LEMMA SizesStep ==
    ASSUME TInv, SizesHold, NEW t \in Threads, Moved(t),
           \A x \in Items' : block'[x].size <= 1 + Len(block'[x].frags),
           \A u \in Threads \ {t} : th[u].mine # NULL =>
              /\ block'[th[u].mine].frags = block[th[u].mine].frags
              /\ block'[th[u].mine].size \in {1, block[th[u].mine].size},
           SizeOf(t)'
    PROVE  SizesHold'
<1>1. ASSUME NEW u \in Threads \ {t} PROVE SizeOf(u)'
  <2>1. SizeOf(u) /\ th'[u] = th[u]
    BY DEF SizesHold, Moved
  <2>2. th[u].pc = "drop" => th[u].mine # NULL
    BY ThreadTypes DEF PointersOf
  <2> QED BY <2>1, <2>2 DEF SizeOf
<1> QED BY <1>1 DEF SizesHold

\* Items that a step adds to those there are.
LEMMA ItemsWith ==
    ASSUME TInv, NEW t \in Threads, Moved(t), lru' = lru
    PROVE  Items' \subseteq Items \cup {th'[t].mine}
<1>1. \A u \in Threads : th'[u].mine \in {th[u].mine, th'[t].mine}
  BY DEF Moved
<1> QED BY <1>1 DEF Items

\* overwrite starts again from one block.
LEMMA SetOwnCounts ==
    ASSUME TInv, UInv, NInv, NEW t \in Threads, SetOwn(t), ExactStep
    PROVE  NInv'
<1>1. /\ th[t].pc = "own" /\ UNCHANGED <<lru, free, num_free_blocks>>
      /\ Moved(t) /\ th'[t].frags = th[t].frags
      /\ th'[t].pc \in {"room", "drop", "finish"} /\ th'[t].mine = th[t].it
  BY SetOwnDoes DEF Moves
<1>2. PICK x : x = th[t].it
  OBVIOUS
<1>3. x \in Items /\ x \in Blocks /\ block[x] \in Header
  BY <1>1, <1>2, LinkedBlocks, HeaderTypes DEF UInv, UserOf, At
<1>4. block' = [block EXCEPT ![x] = [block[x] EXCEPT !.state = "w", !.size = 1,
                                                     !.ver = th[t].ver]]
  BY <1>2 DEF SetOwn
<1>5. /\ \A y \in Blocks \ {x} : block'[y] = block[y]
      /\ block'[x].size = 1 /\ block'[x].frags = block[x].frags
      /\ Len(block[x].frags) \in Nat
  <2>1. /\ \A y \in Blocks \ {x} : block'[y] = block[y]
        /\ block'[x] = [block[x] EXCEPT !.state = "w", !.size = 1, !.ver = th[t].ver]
    BY <1>3, <1>4, OneHeader
  <2>2. block[x].frags \in Seq(Blocks)
    BY <1>3 DEF Header
  <2> QED BY <1>3, <2>1, <2>2 DEF Header
<1>6. SizesHold'
  <2>1. \A y \in Items' : block'[y].size <= 1 + Len(block'[y].frags)
    <3>1. Items' \subseteq Items
      BY <1>1, <1>2, <1>3, ItemsWith
    <3> QED BY <1>3, <1>5, <3>1, LinkedBlocks DEF NInv, SizesHold
  <2>2. \A u \in Threads \ {t} : th[u].mine # NULL =>
              /\ block'[th[u].mine].frags = block[th[u].mine].frags
              /\ block'[th[u].mine].size \in {1, block[th[u].mine].size}
    BY <1>5, LinkedBlocks
  <2>3. SizeOf(t)'
    <3>1. th'[t].pc = AfterWrite(Len(block[x].frags), th[t].frags)
      BY <1>2, StateTypes DEF SetOwn, Thread, Here
    <3>2. th[t].frags \in Nat
      BY ThreadTypes
    <3>3. /\ th'[t].pc = "room" => Len(block[x].frags) < th[t].frags
          /\ th'[t].pc = "drop" => Len(block[x].frags) > th[t].frags
      BY <1>5, <3>1, <3>2, AfterWriteLabels
    <3> QED BY <1>1, <1>2, <1>5, <3>3 DEF SizeOf, Growing
  <2> QED BY <1>1, <2>1, <2>2, <2>3, SizesStep DEF NInv
<1>7. Owed(t) = 0 /\ Owed(t)' = 0
  BY <1>1 DEF Owed, Owing, Evicting, Choosing
<1>8. num_free_blocks \in Int /\ Len(free) \in Nat
  BY StateTypes
<1> QED BY <1>1, <1>6, <1>7, <1>8, CountsKept

LEMMA FillItemCounts ==
    ASSUME TInv, UInv, NInv, NEW t \in Threads, FillItem(t), ExactStep
    PROVE  NInv'
<1>1. /\ th[t].pc = "fill" /\ UNCHANGED <<lru, free, num_free_blocks>>
      /\ Moved(t) /\ th'[t].frags = th[t].frags
      /\ th'[t].pc \in {"room", "drop", "finish"} /\ th'[t].mine = th[t].got
  BY FillItemDoes DEF Moves
<1>2. PICK g : g = th[t].got
  OBVIOUS
<1>3. g \in Blocks /\ g \notin Items
  BY <1>1, <1>2, InHandApart
<1>4. /\ \A x \in Blocks \ {g} : block'[x] = block[x]
      /\ block'[g] = [Zero EXCEPT !.hv = Hv(t), !.key = th[t].key, !.size = 1,
                                  !.ver = th[t].ver]
  BY <1>2, <1>3, OneHeader DEF FillItem
<1>5. block'[g].size = 1 /\ block'[g].frags = << >>
  BY <1>4 DEF Zero
<1>6. SizesHold'
  <2>1. \A y \in Items' : block'[y].size <= 1 + Len(block'[y].frags)
    <3>1. Items' \subseteq Items \cup {g}
      BY <1>1, <1>2, ItemsWith
    <3>2. \A y \in Items : block'[y] = block[y]
      BY <1>3, <1>4, LinkedBlocks
    <3> QED BY <1>5, <3>1, <3>2 DEF NInv, SizesHold
  <2>2. \A u \in Threads \ {t} : th[u].mine # NULL =>
              /\ block'[th[u].mine].frags = block[th[u].mine].frags
              /\ block'[th[u].mine].size \in {1, block[th[u].mine].size}
    BY <1>3, <1>4, LinkedBlocks
  <2>3. SizeOf(t)'
    <3>1. th'[t].pc = AfterWrite(0, th[t].frags)
      BY StateTypes DEF FillItem, Thread
    <3>2. th[t].frags \in Nat
      BY ThreadTypes
    <3>3. /\ th'[t].pc = "room" => 0 < th[t].frags
          /\ th'[t].pc # "drop"
      BY <3>1, <3>2, AfterWriteLabels
    <3>4. Len(block'[g].frags) = 0
      BY <1>5
    <3> QED BY <1>1, <1>2, <3>3, <3>4 DEF SizeOf, Growing
  <2> QED BY <1>1, <2>1, <2>2, <2>3, SizesStep DEF NInv
<1>7. Owed(t) = 0 /\ Owed(t)' = 0
  BY <1>1 DEF Owed, Owing, Evicting, Choosing
<1>8. num_free_blocks \in Int /\ Len(free) \in Nat
  BY StateTypes
<1> QED BY <1>1, <1>6, <1>7, <1>8, CountsKept

LEMMA FillFragmentCounts ==
    ASSUME TInv, UInv, NInv, NEW t \in Threads, FillFragment(t), ExactStep
    PROVE  NInv'
<1>1. /\ th[t].pc = "fill" /\ UNCHANGED <<lru, free, num_free_blocks>>
      /\ Moved(t) /\ th'[t].frags = th[t].frags /\ th[t].mine # NULL
      /\ th'[t].pc \in {"room", "drop", "finish"} /\ th'[t].mine = th[t].mine
  BY FillFragmentDoes DEF Moves
<1>2. PICK g, m : g = th[t].got /\ m = th[t].mine
  OBVIOUS
<1>3. /\ g \in Blocks /\ g \notin Items /\ m \in Items /\ m \in Blocks /\ m # g
      /\ block[m] \in Header
  BY <1>1, <1>2, InHandApart, LinkedBlocks, HeaderTypes
<1>4. PICK f, n : /\ f = Append(block[m].frags, g) /\ n = block[m].size + 1
                  /\ block' = [block EXCEPT ![g].slock = FragBytes, ![m].frags = f,
                                            ![m].size = n]
                  /\ th' = [th EXCEPT ![t] = [@ EXCEPT !.got = NULL,
                                                !.pc = AfterWrite(Len(f), th[t].frags)]]
  BY <1>2 DEF FillFragment
<1>5. /\ \A x \in Items \ {m} : block'[x] = block[x]
      /\ block'[m].frags = f /\ block'[m].size = n
  <2>1. block \in [Blocks -> Header]
    BY StateTypes
  <2>2. block'[m] = [block[m] EXCEPT !.frags = f, !.size = n]
    BY <1>3, <1>4, <2>1
  <2>3. \A x \in Items \ {m} : block'[x] = block[x]
    BY <1>3, <1>4, <2>1, LinkedBlocks
  <2> QED BY <1>3, <2>2, <2>3 DEF Header
<1>6. /\ Len(f) = Len(block[m].frags) + 1 /\ Len(block[m].frags) \in Nat
      /\ block[m].size \in Nat
  <2>1. block[m].frags \in Seq(Blocks) /\ block[m].size \in Nat
    BY <1>3 DEF Header
  <2> QED BY <1>3, <1>4, <2>1
<1>7. block[m].size <= 1 + Len(block[m].frags) /\ Len(block[m].frags) < th[t].frags
  BY <1>1, <1>2, <1>3 DEF NInv, SizesHold, SizeOf, Growing, Writing
<1>8. SizesHold'
  <2>1. \A y \in Items' : block'[y].size <= 1 + Len(block'[y].frags)
    <3>1. Items' \subseteq Items
      BY <1>1, <1>2, <1>3, ItemsWith
    <3>2. block'[m].size <= 1 + Len(block'[m].frags)
      BY <1>4, <1>5, <1>6, <1>7
    <3> QED BY <1>5, <3>1, <3>2 DEF NInv, SizesHold
  <2>2. \A u \in Threads \ {t} : th[u].mine # NULL =>
              /\ block'[th[u].mine].frags = block[th[u].mine].frags
              /\ block'[th[u].mine].size \in {1, block[th[u].mine].size}
    BY <1>1, <1>2, <1>5, MineApart, LinkedBlocks
  <2>3. SizeOf(t)'
    <3>1. th'[t].pc = AfterWrite(Len(f), th[t].frags)
      BY <1>4, StateTypes DEF Thread
    <3>2. th[t].frags \in Nat /\ Len(f) \in Nat /\ Len(f) <= th[t].frags
      BY <1>6, <1>7, ThreadTypes
    <3>3. /\ th'[t].pc = "room" => Len(f) < th[t].frags
          /\ th'[t].pc # "drop"
      BY <3>1, <3>2, AfterWriteLabels
    <3> QED BY <1>1, <1>2, <1>5, <3>3 DEF SizeOf, Growing
  <2> QED BY <1>1, <2>1, <2>2, <2>3, SizesStep DEF NInv
<1>9. Owed(t) = 0 /\ Owed(t)' = 0
  BY <1>1 DEF Owed, Owing, Evicting, Choosing
<1>10. num_free_blocks \in Int /\ Len(free) \in Nat
  BY StateTypes
<1> QED BY <1>1, <1>8, <1>9, <1>10, CountsKept

\* What was given back is owed until it is counted.
LEMMA GiveBackCounts ==
    ASSUME TInv, UInv, NInv, NEW t \in Threads, GiveBack(t), ExactStep
    PROVE  NInv'
<1>1. /\ th[t].pc = "drop" /\ UNCHANGED <<lru, num_free_blocks>> /\ Moves(t, th'[t].pc)
      /\ th'[t].mine = th[t].mine
      /\ \/ th'[t].pc = "finish" /\ UNCHANGED <<block, free>>
         \/ th'[t].pc = "count"
  BY GiveBackDoes DEF Goes, Moves, SameItems
<1>2. CASE th'[t].pc = "finish" /\ UNCHANGED <<block, free>>
  <2>1. \A x \in Blocks : SameSizes(x)
    BY <1>2 DEF SameSizes
  <2> QED BY <1>1, <1>2, <2>1, WriterCounts DEF Growing, Owing, Evicting, Choosing
<1>3. CASE th'[t].pc = "count"
  <2>0. th'[t].pc # "finish"
    BY <1>3
  <2>9. PICK m \in Blocks, kept, extra \in Seq(Blocks) : GivenBack(t, m, kept, extra)
    BY <2>0, GiveBackHeads
  <2>1. /\ m = th[t].mine /\ m \in Items /\ m # NULL /\ block[m] \in Header
        /\ \A y \in ToSet(extra) : y \notin Items
        /\ \A x \in Blocks \ ToSet(extra) : x # m => block'[x] = block[x]
        /\ block'[m] = [block[m] EXCEPT !.frags = kept]
        /\ free' = extra \o free
        /\ Len(extra) = th'[t].freed_tot
    BY <2>9 DEF GivenBack
  <2>2. /\ block'[m].frags = kept /\ block'[m].size = 1 /\ Len(kept) \in Nat
        /\ \A x \in Items \ {m} : block'[x] = block[x]
    <3>1. SizeOf(t)
      BY DEF NInv, SizesHold
    <3>2. block[m].size = 1
      BY <1>1, <2>1, <3>1 DEF SizeOf
    <3> QED BY <2>1, <3>2, LinkedBlocks DEF Header
  <2>3. SizesHold'
    <3>1. \A y \in Items' : block'[y].size <= 1 + Len(block'[y].frags)
      <4>1. Items' \subseteq Items
        BY <1>1, <2>1, ItemsWith DEF Moves
      <4> QED BY <2>2, <4>1 DEF NInv, SizesHold
    <3>2. \A u \in Threads \ {t} : th[u].mine # NULL =>
              /\ block'[th[u].mine].frags = block[th[u].mine].frags
              /\ block'[th[u].mine].size \in {1, block[th[u].mine].size}
      BY <2>1, <2>2, MineApart, LinkedBlocks
    <3>3. SizeOf(t)' /\ Moved(t)
      BY <1>1, <1>3 DEF SizeOf, Growing, Moves
    <3> QED BY <3>1, <3>2, <3>3, SizesStep DEF NInv
  <2>4. PICK n \in Nat : n = Len(extra)
    BY <2>1
  <2>5. Owed(t) = 0 /\ Owed(t)' = n
    BY <1>1, <1>3, <2>1, <2>4 DEF Owed, Owing, Evicting, Choosing
  <2>6. Len(free') = n + Len(free) /\ Len(free) \in Nat /\ num_free_blocks \in Int
    <3>1. free \in Seq(Blocks) /\ extra \in Seq(Blocks) /\ num_free_blocks \in Int
      BY StateTypes
    <3>2. Len(extra \o free) = Len(extra) + Len(free)
      BY <3>1
    <3> QED BY <2>1, <2>4, <3>1, <3>2
  <2>7. Moved(t)
    BY <1>1 DEF Moves
  <2> QED BY <1>1, <2>3, <2>5, <2>6, <2>7, CountsKept
<1> QED BY <1>1, <1>2, <1>3

\* An item's blocks are on the free list before its size is counted.
LEMMA ReclaimCounts ==
    ASSUME TInv, UInv, NInv, NEW t \in Threads, Reclaim(t), ExactStep
    PROVE  NInv'
<1>1. /\ th[t].pc = "reclaim" /\ num_free_blocks' = num_free_blocks /\ Moved(t)
      /\ th'[t].pc \in {"tail", "evict_end"} /\ th'[t].mine = th[t].mine
      /\ th'[t].frags = th[t].frags
      /\ th'[t].freed_tot = th[t].freed_tot + block[th[t].got].size
  BY ReclaimDoes DEF Moves
<1>2. PICK x0 \in Blocks, f \in Seq(Blocks) :
           /\ x0 = th[t].got /\ f = block[x0].frags /\ free' = <<x0>> \o f \o free
           /\ x0 \in Items /\ \A u \in Threads : th[u].mine # x0
           /\ Items' = Items \ {x0}
           /\ \A x \in Items \ {x0} : block'[x] = block[x]
  BY ReclaimSets
<1>3. SizesHold'
  <2>1. \A y \in Items' : block'[y].size <= 1 + Len(block'[y].frags)
    BY <1>2 DEF NInv, SizesHold
  <2>2. \A u \in Threads : th[u].mine # NULL => block'[th[u].mine] = block[th[u].mine]
    BY <1>2, LinkedBlocks
  <2>3. SizeOf(t)'
    <3>1. SizeOf(t)
      BY DEF NInv, SizesHold
    <3> QED BY <1>1, <2>2, <3>1 DEF SizeOf, Growing, Writing
  <2> QED BY <1>1, <2>1, <2>2, <2>3, SizesStep DEF NInv
<1>4. PICK n \in Nat : n = block[x0].size
  BY HeaderTypes
<1>5. PICK k \in Nat : k = Len(f)
  OBVIOUS
<1>6. n <= 1 + k
  BY <1>2, <1>4, <1>5 DEF NInv, SizesHold
<1>7. Owed(t) = th[t].freed_tot /\ Owed(t)' = th[t].freed_tot + n
  BY <1>1, <1>2, <1>4 DEF Owed, Owing, Evicting, Choosing
<1>8. Len(free') = 1 + k + Len(free) /\ Len(free) \in Nat
  <2>1. free \in Seq(Blocks) /\ <<x0>> \in Seq(Blocks) /\ Len(<<x0>>) = 1
    BY StateTypes
  <2> QED BY <1>2, <1>5, <2>1
<1>9. num_free_blocks \in Int /\ th[t].freed_tot \in Nat
  BY StateTypes, ThreadTypes
<1>10. /\ Len(free') \in Nat /\ Owed(t)' \in Nat /\ num_free_blocks' \in Int
       /\ num_free_blocks' + Owed(t)' + Len(free) <= num_free_blocks + Owed(t) + Len(free')
  BY <1>1, <1>6, <1>7, <1>8, <1>9
<1> QED BY <1>1, <1>3, <1>10, CountsKept

\* A block leaves the count before it leaves the list.
LEMMA PopCounts ==
    ASSUME TInv, UInv, NInv, NEW t \in Threads, Pop(t), ExactStep
    PROVE  NInv'
<1>1. /\ th[t].pc = "pop" /\ lru' = lru /\ Moves(t, th'[t].pc) /\ th'[t].mine = th[t].mine
      /\ th'[t].pc \in {"crash", "fill"}
      /\ \/ UNCHANGED <<free, block>>
         \/ th'[t].got = Head(free) /\ free # << >> /\ Head(free) \in Blocks
  BY PopDoes DEF Goes, Moves, SameItems
<1>2. num_free_blocks' = num_free_blocks - 1 /\ num_free_blocks \in Int
      /\ free \in Seq(Blocks) /\ Len(free) \in Nat
  BY StateTypes DEF Pop
<1>3. /\ Len(free') \in Nat /\ Len(free) <= Len(free') + 1
      /\ \A x \in Items : SameSizes(x)
  <2>1. CASE UNCHANGED <<free, block>>
    BY <1>2, <2>1 DEF SameSizes
  <2>2. CASE ~UNCHANGED <<free, block>>
    <3>1. free # << >> /\ Head(free) \in Blocks
      BY <1>1, <2>2
    <3>2. PICK h \in Blocks : h = Head(free)
      BY <3>1
    <3>3. free' = Tail(free) /\ block' = [block EXCEPT ![h] = Zero]
      BY <3>1, <3>2 DEF Pop
    <3>4. h \in ToSet(free) /\ Len(Tail(free)) = Len(free) - 1 /\ Len(free) >= 1
      <4>1. ToSet(free) = ToSet(Tail(free)) \cup {h}
        BY <1>2, <3>1, <3>2, TailFacts DEF UInv, Placed
      <4>2. Len(Tail(free)) = Len(free) - 1 /\ Len(free) >= 1
        BY <1>2, <3>1
      <4> QED BY <4>1, <4>2
    <3>5. h \notin Items
      BY <3>4 DEF UInv, Placed
    <3>6. \A x \in Items : block'[x] = block[x]
      BY <3>3, <3>5, OneHeader, LinkedBlocks
    <3> QED BY <1>2, <3>3, <3>4, <3>6 DEF SameSizes
  <2> QED BY <2>1, <2>2
<1>4. SizesHold'
  <2>1. Items' \subseteq Items /\ Moved(t)
    BY <1>1, ItemsWithin DEF Moves
  <2>2. SizeOf(t)'
    <3>1. SizeOf(t)
      BY DEF NInv, SizesHold
    <3>2. th[t].mine # NULL => SameSizes(th[t].mine)
      BY <1>3, LinkedBlocks
    <3> QED BY <1>1, <3>1, <3>2 DEF SizeOf, Growing, Writing, Moves, SameSizes
  <2> QED BY <1>3, <2>1, <2>2, SizesStay DEF NInv
<1>5. Owed(t) = 0 /\ Owed(t)' = 0
  BY <1>1 DEF Owed, Owing, Evicting, Choosing
<1>6. /\ num_free_blocks' \in Int /\ Owed(t)' \in Nat /\ Moved(t)
      /\ num_free_blocks' + Owed(t)' + Len(free) <= num_free_blocks + Owed(t) + Len(free')
  BY <1>1, <1>2, <1>3, <1>5 DEF Moves
<1> QED BY <1>3, <1>4, <1>6, CountsKept

-----------------------------------------------------------------------------
(* The specification. *)

LEMMA NInit == Init => NInv
<1> SUFFICES ASSUME Init PROVE NInv
  OBVIOUS
<1>1. /\ lru = << >> /\ free = [x \in Blocks |-> x] /\ num_free_blocks = NumBlocks
      /\ \A t \in Threads : th[t] = Idle
  BY DEF Init
<1>2. Items = {}
  <2>1. ToSet(lru) = {}
    BY <1>1 DEF ToSet
  <2> QED BY <1>1, <2>1 DEF Items, Idle
<1>3. SizesHold
  BY <1>1, <1>2 DEF SizesHold, SizeOf, Idle, Growing, Writing
<1>4. Exact
  BY <1>1 DEF Exact, Misreads, At, Idle
<1>5. Covered
  <2>1. \A t \in Threads : Owed(t) = 0
    BY <1>1 DEF Owed, Idle, Owing, Evicting, Choosing
  <2>2. Uncounted = {}
    BY <2>1 DEF Uncounted
  <2>3. IsFiniteSet(Uncounted) /\ Cardinality(Uncounted) = 0
    BY <2>2, FS_EmptySet
  <2>4. NumBlocks \in Nat /\ Len(free) = NumBlocks
    BY <1>1, BlocksAssumption, KeyTypes DEF Blocks
  <2> QED BY <1>1, <2>3, <2>4 DEF Covered
<1> QED BY <1>3, <1>4, <1>5 DEF NInv

\* A step after which no release reads another thread's size is noted by Watch.
LEMMA ExactSteps ==
    ASSUME Next
    PROVE  ExactStep
BY DEF Next, Watch, ExactStep, Exact

LEMMA NNext == TInv /\ (Calm => UInv /\ NInv) /\ [Next]_vars => (Calm => NInv)'
<1> SUFFICES ASSUME TInv, Calm => UInv /\ NInv, [Next]_vars, Calm' PROVE NInv'
  OBVIOUS
<1>1. CASE UNCHANGED vars
  <2>1. UNCHANGED <<block, lru, free, num_free_blocks, th, harm>>
    BY <1>1 DEF vars, table, lists
  <2>2. NInv
    BY <2>1 DEF Calm
  <2>3. Items' = Items /\ Uncounted' = Uncounted
    BY <2>1 DEF Items, Uncounted, Owed
  <2>4. SizesHold' /\ (Exact => Exact')
    BY <2>1, <2>2, <2>3 DEF NInv, SizesHold, SizeOf, Exact, Misreads, At
  <2>5. Covered => Covered'
    BY <2>1, <2>3 DEF Covered
  <2> QED BY <2>1, <2>2, <2>4, <2>5 DEF NInv
<1>2. CASE Next
  <2>1. UInv /\ NInv /\ ExactStep
    BY <1>2, CalmStep, ExactSteps
  <2> QED BY <1>2, <2>1, Actions, BeginGetCounts, BeginSetCounts, EnterCounts, ReadHeadCounts,
       TakeBarrierCounts, WalkOnCounts, WalkEndsCounts, TakeStateCounts, TryItemCounts,
       SkipItemCounts, OtherKeyCounts, GetSharesCounts, GetOwnCounts, PassCounts, LeaveCounts,
       EndCopyCounts, RoomCounts, EvictLockCounts, ReadTailCounts, TryTailCounts,
       UnchainCounts, ReclaimCounts, EvictEndCounts, PopCounts, SetWaitsCounts,
       SetTooOldCounts, SetOwnCounts, FillItemCounts, FillFragmentCounts, GiveBackCounts,
       CountBackCounts, FinishFirstCounts, PublishCounts, FinishInsertCounts,
       FinishOverwriteCounts
<1> QED BY <1>1, <1>2

LEMMA CountsHold == Spec => [](TInv /\ (Calm => UInv /\ NInv))
<1>1. Init => TInv /\ (Calm => UInv /\ NInv)
  BY TInit, UInit, NInit
<1>2. TInv /\ (Calm => UInv /\ NInv) /\ [Next]_vars => (TInv /\ (Calm => UInv /\ NInv))'
  BY TNext, UNext, NNext
<1> QED BY <1>1, <1>2, PTL DEF Spec

\* Whatever the number of threads, the count of free blocks promises no more than the list
\* has, unless it has wrapped; and with no more threads than EVICT_POINT it covers the threads
\* about to take a block, so that it never wraps, although blocks reach the list and leave it
\* at other moments than they are counted (ram_ht.c:1015-1072, 1273-1283).
THEOREM FreeBlocksCounted == Spec => []FreeCount
<1>1. TInv /\ (Calm => UInv /\ NInv) => FreeCount
  <2> SUFFICES ASSUME TInv, Calm => NInv PROVE FreeCount
    OBVIOUS
  <2>1. FewThreads => num_free_blocks >= Cardinality({t \in Threads : At(t, "pop")})
    BY StateTypes DEF CountCovers, Popping
  <2>2. ASSUME harm \cap {"count", "locks"} = {} PROVE num_free_blocks <= Len(free)
    <3>1. Covered
      BY <2>2 DEF Calm, NInv
    <3>2. PICK c \in Nat : c = Cardinality(Uncounted)
      BY <3>1, FS_CardinalityType DEF Covered
    <3>3. num_free_blocks \in Int /\ Len(free) \in Nat /\ num_free_blocks + c <= Len(free)
      BY <3>1, <3>2, StateTypes DEF Covered
    <3> QED BY <3>3
  <2> QED BY <2>1, <2>2 DEF FreeCount
<1> QED BY <1>1, CountsHold, PTL
=============================================================================
