-------------------------- MODULE RamCacheUseProofs --------------------------
(***************************************************************************)
(* Who uses which item of RamCache, and where each block is: theorems for  *)
(* the same constants as RamCacheProofs, whose invariant they build on.    *)
(***************************************************************************)
EXTENDS RamCacheProofs

-----------------------------------------------------------------------------
(* Who uses which item, and where each block is. *)

Calm == "locks" \notin harm

Reads(t) == th[t].pc \in {"leave", "copy", "pass"}
Fresh(t) == th[t].mine # NULL /\ th[t].as # "over"
Overwrites(t) == th[t].mine # NULL /\ th[t].as = "over"

UserOf(t) ==
    /\ Reads(t) => /\ th[t].it \in Linked
                   /\ Here(t).state = "r"
    /\ At(t, "own") =>
          /\ th[t].it \in Linked \ leaked
          /\ Bucket(Here(t).hv) = B(t)
          /\ Here(t).lock /\ Here(t).state = "-"
          /\ \A u \in Threads : At(u, "unchain") => th[u].got # th[t].it
    /\ Overwrites(t) =>
          /\ th[t].mine \in Linked
          /\ Bucket(block[th[t].mine].hv) = B(t)
          /\ block[th[t].mine].lock /\ block[th[t].mine].state = "w"
    /\ th[t].pc \in {"try", "unchain", "reclaim"} => th[t].got \in ToSet(lru)
    /\ At(t, "unchain") =>
          /\ th[t].got \in Linked \ leaked
          /\ block[th[t].got].lock /\ block[th[t].got].state = "-"
    /\ th[t].as = "over" => th[t].mine # NULL

Uses(t, x) == \/ Reads(t) /\ th[t].it = x
              \/ At(t, "own") /\ th[t].it = x
              \/ Overwrites(t) /\ th[t].mine = x
              \/ At(t, "unchain") /\ th[t].got = x

\* A linked item is locked while it is used and only then.
ItemOk(x) ==
    /\ x \in leaked => block[x].lock /\ block[x].state = "-"
    /\ block[x].lock => x \in leaked \/ \E t \in Threads : Uses(t, x)
    /\ block[x].state # "-" => block[x].lock
    /\ block[x].state = "r" => /\ block[x].readers = Cardinality(Readers(x))
                               /\ Readers(x) # {}

ItemUse == leaked \subseteq Linked /\ \A x \in Linked : ItemOk(x)

NotAstray == \A t \in Threads : ~Astray(t)

\* An item that its maker has not linked yet.
FreshOf(t) ==
    Fresh(t) => LET h == block[th[t].mine]
                IN  /\ th[t].mine \notin ToSet(lru)
                    /\ h.hv = Hv(t) /\ h.key = th[t].key
                    /\ ~h.lock /\ h.state = "-"
                    /\ \A u \in Threads : u # t => th[u].mine # th[t].mine

\* The places of a block: BlocksOnce, block by block.
IsFragment(y) == \E x \in Items : y \in Fragments(x)
IsInHand(y) == \E t \in InHand : th[t].got = y

Placed ==
    /\ \A y \in Blocks :
          /\ y \in ToSet(free) \/ y \in Items \/ IsFragment(y) \/ IsInHand(y)
          /\ y \in ToSet(free) => y \notin Items /\ ~IsFragment(y) /\ ~IsInHand(y)
          /\ y \in Items => ~IsFragment(y) /\ ~IsInHand(y)
          /\ IsFragment(y) => ~IsInHand(y)
    /\ IsInjective(free) /\ IsInjective(lru)
    /\ \A x \in Items : IsInjective(block[x].frags)
    /\ \A x, y \in Items : x # y => \A z \in Fragments(x) : z \notin Fragments(y)
    /\ \A t, u \in InHand : t # u => th[t].got # th[u].got

UInv == NotAstray /\ ItemUse /\ Placed
        /\ \A t \in Threads : UserOf(t) /\ FreshOf(t)

-----------------------------------------------------------------------------
(* Who uses which item, and where each block is: the lemmas that the steps *)
(* share.                                                                   *)

LEMMA LinkedBlocks ==
    ASSUME TInv
    PROVE  /\ Linked \subseteq ToSet(lru) /\ ToSet(lru) \subseteq Blocks
           /\ ToSet(lru) \subseteq Items /\ Items \subseteq Blocks
           /\ \A t \in Threads : th[t].mine # NULL => th[t].mine \in Items
           /\ NULL \notin Linked /\ NULL \notin Items /\ NULL \notin ToSet(lru)
<1>1. ToSet(lru) \subseteq Blocks
  BY StateTypes, ToSetFacts
<1>2. \A t \in Threads : th[t].mine # NULL => th[t].mine \in Blocks
  BY PointerTypes
<1>3. \A t \in Threads : th[t].mine # NULL => th[t].mine \in Items
  BY DEF Items
<1> QED BY <1>1, <1>2, <1>3, KeyTypes DEF Items, Linked

\* What a thread uses is linked and locked; its state says for what.
LEMMA UsedItems ==
    ASSUME TInv, UInv, NEW u \in Threads, NEW x, Uses(u, x)
    PROVE  /\ x \in Linked /\ x \in Blocks /\ block[x].lock
           /\ Reads(u) /\ th[u].it = x => block[x].state = "r"
           /\ At(u, "own") => /\ th[u].it \notin leaked /\ block[th[u].it].state = "-"
           /\ Overwrites(u) => block[th[u].mine].state = "w"
           /\ At(u, "unchain") => /\ th[u].got \notin leaked
                                  /\ block[th[u].got].state = "-"
<1>1. UserOf(u)
  BY DEF UInv
<1>2. x \in Linked
  BY <1>1 DEF UserOf, Uses
<1>3. x \in Blocks /\ ItemOk(x)
  BY <1>2, LinkedBlocks DEF UInv, ItemUse
<1> QED BY <1>1, <1>2, <1>3 DEF UserOf, Uses, ItemOk, Here

\* An item's owner has it alone.
LEMMA OwnerAlone ==
    ASSUME TInv, UInv, NEW t \in Threads, At(t, "own"), NEW u \in Threads \ {t}
    PROVE  ~Uses(u, th[t].it)
<1> SUFFICES ASSUME Uses(u, th[t].it) PROVE FALSE
  OBVIOUS
<1>1. UserOf(t) /\ UserOf(u)
  BY DEF UInv
<1>2. block[th[t].it].state = "-"
  BY <1>1 DEF UserOf, Here
<1>3. CASE Reads(u) /\ th[u].it = th[t].it
  BY <1>1, <1>2, <1>3 DEF UserOf, Here
<1>4. CASE At(u, "own") /\ th[u].it = th[t].it
  <2>1. B(t) = B(u)
    BY <1>1, <1>4 DEF UserOf, Here
  <2>2. barrier[B(t)] = t /\ barrier[B(u)] = u
    BY <1>4, ThreadTypes DEF LocksOf, Inside, At
  <2> QED BY <2>1, <2>2
<1>5. CASE Overwrites(u) /\ th[u].mine = th[t].it
  BY <1>1, <1>2, <1>5 DEF UserOf
<1>6. CASE At(u, "unchain") /\ th[u].got = th[t].it
  BY <1>1, <1>6 DEF UserOf
<1> QED BY <1>3, <1>4, <1>5, <1>6 DEF Uses

\* So has its writer,
LEMMA WriterAlone ==
    ASSUME TInv, UInv, NEW t \in Threads, Overwrites(t), NEW u \in Threads \ {t}
    PROVE  ~Uses(u, th[t].mine)
<1> SUFFICES ASSUME Uses(u, th[t].mine) PROVE FALSE
  OBVIOUS
<1>1. UserOf(t) /\ UserOf(u)
  BY DEF UInv
<1>2. block[th[t].mine].state = "w"
  BY <1>1 DEF UserOf
<1>3. CASE Reads(u) /\ th[u].it = th[t].mine
  BY <1>1, <1>2, <1>3 DEF UserOf, Here
<1>4. CASE At(u, "own") /\ th[u].it = th[t].mine
  BY <1>1, <1>2, <1>4 DEF UserOf, Here
<1>5. CASE Overwrites(u) /\ th[u].mine = th[t].mine
  <2>1. B(t) = B(u)
    BY <1>1, <1>5 DEF UserOf
  <2>2. th[t].pc \in Writing /\ th[u].pc \in Writing
    BY <1>5, ThreadTypes DEF Overwrites, PointersOf
  <2>3. entryLock[B(t)] = t /\ entryLock[B(u)] = u
    BY <2>2, ThreadTypes DEF LocksOf, InEntry
  <2> QED BY <2>1, <2>3
<1>6. CASE At(u, "unchain") /\ th[u].got = th[t].mine
  BY <1>1, <1>2, <1>6 DEF UserOf
<1> QED BY <1>3, <1>4, <1>5, <1>6 DEF Uses

\* ... and so has the evictor; and there is one evictor.
LEMMA EvictorAlone ==
    ASSUME TInv, UInv, NEW t \in Threads, At(t, "unchain"), NEW u \in Threads \ {t}
    PROVE  ~Uses(u, th[t].got)
<1> SUFFICES ASSUME Uses(u, th[t].got) PROVE FALSE
  OBVIOUS
<1>1. UserOf(t) /\ UserOf(u)
  BY DEF UInv
<1>2. block[th[t].got].state = "-"
  BY <1>1 DEF UserOf
<1>3. CASE Reads(u) /\ th[u].it = th[t].got
  BY <1>1, <1>2, <1>3 DEF UserOf, Here
<1>4. CASE At(u, "own") /\ th[u].it = th[t].got
  BY <1>1, <1>4 DEF UserOf
<1>5. CASE Overwrites(u) /\ th[u].mine = th[t].got
  BY <1>1, <1>2, <1>5 DEF UserOf
<1>6. CASE At(u, "unchain") /\ th[u].got = th[t].got
  BY <1>6, ThreadTypes DEF LocksOf, Evicting, Choosing, At
<1> QED BY <1>3, <1>4, <1>5, <1>6 DEF Uses

LEMMA OneEvictor ==
    ASSUME TInv, NEW t \in Threads, th[t].pc \in Evicting, NEW u \in Threads \ {t}
    PROVE  th[u].pc \notin Evicting
BY ThreadTypes DEF LocksOf

\* Nobody uses an item that is not locked; readers share theirs with readers.
LEMMA UnlockedUnused ==
    ASSUME TInv, UInv, NEW x, ~block[x].lock, NEW u \in Threads
    PROVE  ~Uses(u, x)
BY UsedItems

LEMMA ReadersShare ==
    ASSUME TInv, UInv, NEW x, block[x].state = "r", NEW u \in Threads, Uses(u, x)
    PROVE  Reads(u) /\ th[u].it = x
BY UsedItems DEF Uses

LEMMA UnlinkedUnused ==
    ASSUME TInv, UInv, NEW x, x \notin Linked, NEW u \in Threads
    PROVE  ~Uses(u, x)
BY UsedItems

\* What a step leaves of a header.
KeptUse(x) == /\ block'[x].lock = block[x].lock /\ block'[x].state = block[x].state
              /\ block'[x].hv = block[x].hv /\ block'[x].key = block[x].key
SameHead(x) == KeptUse(x) /\ block'[x].readers = block[x].readers
                          /\ block'[x].frags = block[x].frags

\* The others keep what they have when a step of t leaves alone what they use.
LEMMA OthersKeep ==
    ASSUME TInv, UInv, NEW t \in Threads, NEW x0, Moved(t),
           \A u \in Threads \ {t} : Uses(u, x0) => KeptUse(x0) /\ x0 \in Linked',
           \A x \in Items \ {x0} : KeptUse(x),
           Linked \ {x0} \subseteq Linked', leaked' \subseteq leaked \cup {x0},
           x0 \in leaked' => x0 \in leaked \/ \A u \in Threads \ {t} : ~Uses(u, x0),
           \/ ToSet(lru) \subseteq ToSet(lru')
           \/ \A u \in Threads \ {t} : th[u].pc \notin Evicting,
           ToSet(lru') \subseteq ToSet(lru) \cup {th[t].mine},
           \A u \in Threads \ {t} : Fresh(u) => th[u].mine # x0 /\ th'[t].mine # th[u].mine,
           th'[t].pc = "unchain" =>
              \A u \in Threads \ {t} : At(u, "own") => th[u].it # th'[t].got
    PROVE  \A u \in Threads \ {t} : UserOf(u)' /\ FreshOf(u)'
<1> SUFFICES ASSUME NEW u \in Threads \ {t} PROVE UserOf(u)' /\ FreshOf(u)'
  OBVIOUS
<1>1. th'[u] = th[u] /\ UserOf(u) /\ FreshOf(u)
  BY DEF Moved, UInv
<1>2. \A v \in Threads \ {t} : th'[v] = th[v]
  BY DEF Moved
<1>3. ASSUME NEW x, Uses(u, x)
      PROVE  x \in Linked' /\ KeptUse(x) /\ (x \in leaked' => x \in leaked)
  <2>1. x \in Linked /\ x \in Items
    BY <1>3, UsedItems, LinkedBlocks
  <2>2. CASE x = x0
    BY <1>3, <2>2
  <2>3. CASE x # x0
    BY <2>1, <2>3
  <2> QED BY <2>2, <2>3
<1>4. Reads(u)' = Reads(u) /\ Overwrites(u)' = Overwrites(u) /\ Fresh(u)' = Fresh(u)
      /\ B(u)' = B(u) /\ Hv(u)' = Hv(u)
  BY <1>1 DEF Reads, Overwrites, Fresh, B, Hv
<1>5. Reads(u) => th[u].it \in Linked' /\ Here(u)'.state = "r"
  <2> SUFFICES ASSUME Reads(u) PROVE th[u].it \in Linked' /\ Here(u)'.state = "r"
    OBVIOUS
  <2>1. Uses(u, th[u].it)
    BY DEF Uses
  <2> QED BY <1>1, <1>3, <2>1 DEF UserOf, KeptUse, Here
<1>6. At(u, "own") =>
          /\ th[u].it \in Linked' \ leaked'
          /\ Bucket(Here(u)'.hv) = B(u)
          /\ Here(u)'.lock /\ Here(u)'.state = "-"
          /\ \A v \in Threads : At(v, "unchain")' => th'[v].got # th[u].it
  <2> SUFFICES ASSUME At(u, "own")
               PROVE  /\ th[u].it \in Linked' \ leaked'
                      /\ Bucket(Here(u)'.hv) = B(u)
                      /\ Here(u)'.lock /\ Here(u)'.state = "-"
                      /\ \A v \in Threads : At(v, "unchain")' => th'[v].got # th[u].it
    OBVIOUS
  <2>1. Uses(u, th[u].it)
    BY DEF Uses
  <2>2. /\ th[u].it \in Linked' \ leaked' /\ Bucket(Here(u)'.hv) = B(u)
        /\ Here(u)'.lock /\ Here(u)'.state = "-"
    BY <1>1, <1>3, <2>1 DEF UserOf, KeptUse, Here
  <2>3. \A v \in Threads : At(v, "unchain")' => th'[v].got # th[u].it
    BY <1>1, <1>2 DEF UserOf, At
  <2> QED BY <2>2, <2>3
<1>7. Overwrites(u) =>
          /\ th[u].mine \in Linked'
          /\ Bucket(block'[th[u].mine].hv) = B(u)
          /\ block'[th[u].mine].lock /\ block'[th[u].mine].state = "w"
  <2> SUFFICES ASSUME Overwrites(u)
               PROVE  /\ th[u].mine \in Linked'
                      /\ Bucket(block'[th[u].mine].hv) = B(u)
                      /\ block'[th[u].mine].lock /\ block'[th[u].mine].state = "w"
    OBVIOUS
  <2>1. Uses(u, th[u].mine)
    BY DEF Uses
  <2> QED BY <1>1, <1>3, <2>1 DEF UserOf, KeptUse
<1>8. th[u].pc \in {"try", "unchain", "reclaim"} => th[u].got \in ToSet(lru')
  BY <1>1 DEF UserOf, Evicting, Choosing
<1>9. At(u, "unchain") =>
          /\ th[u].got \in Linked' \ leaked'
          /\ block'[th[u].got].lock /\ block'[th[u].got].state = "-"
  <2> SUFFICES ASSUME At(u, "unchain")
               PROVE  /\ th[u].got \in Linked' \ leaked'
                      /\ block'[th[u].got].lock /\ block'[th[u].got].state = "-"
    OBVIOUS
  <2>1. Uses(u, th[u].got)
    BY DEF Uses
  <2> QED BY <1>1, <1>3, <2>1 DEF UserOf, KeptUse
<1>10. UserOf(u)'
  BY <1>1, <1>4, <1>5, <1>6, <1>7, <1>8, <1>9 DEF UserOf, At
<1>11. FreshOf(u)'
  <2> SUFFICES ASSUME Fresh(u) PROVE FreshOf(u)'
    BY <1>4 DEF FreshOf
  <2>1. th[u].mine \in Items /\ th[u].mine # x0 /\ th[u].mine # NULL
    BY LinkedBlocks DEF Fresh
  <2>2. KeptUse(th[u].mine)
    BY <2>1
  <2>3. th[u].mine \notin ToSet(lru')
    BY <1>1 DEF FreshOf
  <2>4. \A v \in Threads : v # u => th'[v].mine # th[u].mine
    BY <1>1, <1>2 DEF FreshOf
  <2> QED BY <1>1, <1>4, <2>2, <2>3, <2>4 DEF FreshOf, KeptUse
<1> QED BY <1>10, <1>11

\* A step of t that changes the use of no other item than x0.
LEMMA ItemsKeep ==
    ASSUME TInv, UInv, NEW t \in Threads, NEW x0, Moved(t),
           \A x \in Linked \ {x0} : KeptUse(x) /\ block'[x].readers = block[x].readers,
           Linked' \ {x0} \subseteq Linked, leaked' \subseteq Linked',
           \A x \in Linked \ {x0} : x \in leaked' <=> x \in leaked,
           \A x \in Linked \ {x0} : Uses(t, x)' = Uses(t, x),
           \A x \in Linked \ {x0} : (Reads(t) /\ th[t].it = x)' = (Reads(t) /\ th[t].it = x),
           x0 \in Linked' => ItemOk(x0)'
    PROVE  ItemUse'
<1> SUFFICES ASSUME NEW x \in Linked', x # x0 PROVE ItemOk(x)'
  BY DEF ItemUse
<1>1. x \in Linked /\ ItemOk(x)
  BY DEF UInv, ItemUse
<1>2. \A u \in Threads : Uses(u, x)' = Uses(u, x)
  BY <1>1 DEF Moved, Uses, Reads, Overwrites, At
<1>3. Readers(x)' = Readers(x)
  <2>1. Readers(x) = {u \in Threads : Reads(u) /\ th[u].it = x}
        /\ Readers(x)' = {u \in Threads : (Reads(u) /\ th[u].it = x)'}
    BY DEF Readers, Reads
  <2>2. \A u \in Threads : (Reads(u) /\ th[u].it = x)' = (Reads(u) /\ th[u].it = x)
    BY <1>1 DEF Moved, Reads
  <2> QED BY <2>1, <2>2
<1> QED BY <1>1, <1>2, <1>3 DEF ItemOk, KeptUse

\* The linked items after a step of t.
LEMMA SameLinked ==
    ASSUME TInv, NEW t \in Threads, Moved(t), ToSet(lru') = ToSet(lru),
           th[t].pc # "reclaim", th'[t].pc # "reclaim"
    PROVE  Linked' = Linked
<1> DEFINE R == {u \in Threads : At(u, "reclaim")}
<1>1. R' = R /\ t \notin R
  BY DEF Moved, At
<1>2. \A u \in R : th'[u].got = th[u].got
  BY <1>1 DEF Moved
<1>3. {th'[u].got : u \in R'} = {th[u].got : u \in R}
  BY <1>1, <1>2
<1> QED BY <1>3 DEF Linked

\* The items after a step of t.
LEMMA ItemsAre ==
    ASSUME TInv, NEW t \in Threads, Moved(t)
    PROVE  Items' \cup {NULL} = ToSet(lru') \cup {th'[t].mine, NULL}
                                  \cup {th[u].mine : u \in Threads \ {t}}
BY DEF Items, Moved

LEMMA SameItemSet ==
    ASSUME TInv, NEW t \in Threads, Moved(t), lru' \in Seq(Blocks),
           ToSet(lru') \cup {th'[t].mine} \cup {NULL}
              = ToSet(lru) \cup {th[t].mine} \cup {NULL}
    PROVE  Items' = Items
<1>1. Items' \cup {NULL} = ToSet(lru') \cup {th'[t].mine, NULL}
                                  \cup {th[u].mine : u \in Threads \ {t}}
  BY ItemsAre
<1>2. Items \cup {NULL} = ToSet(lru) \cup {th[t].mine, NULL}
                                  \cup {th[u].mine : u \in Threads \ {t}}
  BY DEF Items
<1>3. Items \cup {NULL} = Items' \cup {NULL}
  BY <1>1, <1>2
<1>4. NULL \notin Items
  BY LinkedBlocks
<1>5. ToSet(lru') \subseteq Blocks
  BY ToSetFacts
<1>6. NULL \notin Items'
  BY <1>5, KeyTypes DEF Items
<1> QED BY <1>3, <1>4, <1>6

\* The blocks stay where they are when no list, item or fragment changes.
LEMMA PlacedSame ==
    ASSUME TInv, UInv, NEW t \in Threads, Moved(t), free' = free, IsInjective(lru'),
           Items' = Items, \A x \in Items : block'[x].frags = block[x].frags,
           th[t].pc # "fill", th'[t].pc # "fill"
    PROVE  Placed'
<1>1. InHand' = InHand /\ t \notin InHand
  BY DEF InHand, At, Moved
<1>2. \A u \in InHand : th'[u].got = th[u].got
  BY <1>1 DEF InHand, Moved
<1>3. \A x \in Items : Fragments(x)' = Fragments(x)
  BY DEF Fragments
<1>4. \A y : IsFragment(y)' = IsFragment(y) /\ IsInHand(y)' = IsInHand(y)
  BY <1>1, <1>2, <1>3 DEF IsFragment, IsInHand
<1>5. Placed
  BY DEF UInv
<1> QED BY <1>1, <1>2, <1>3, <1>4, <1>5 DEF Placed

\* A step that concerns no item.
Active == {"own", "leave", "copy", "pass", "unchain", "reclaim", "fill"}
Quiet(t) ==
    /\ Moved(t) /\ lru' = lru /\ free' = free /\ leaked' = leaked
    /\ \A x \in Blocks : SameHead(x)
    /\ th[t].pc \notin Active /\ th'[t].pc \notin Active
    /\ th'[t].mine = th[t].mine
    /\ th[t].mine # NULL => th'[t].as = th[t].as /\ th'[t].key = th[t].key
    /\ th'[t].pc = "try" => th'[t].got \in ToSet(lru)
    /\ th'[t].as = "over" => th'[t].mine # NULL

LEMMA QuietUse ==
    ASSUME TInv, UInv, NEW t \in Threads, Quiet(t), NotAstray'
    PROVE  UInv'
<1>1. Moved(t) /\ lru \in Seq(Blocks)
  BY StateTypes DEF Quiet
<1>2. Linked' = Linked
  BY <1>1, SameLinked DEF Quiet, Active
<1>3. Items' = Items
  BY <1>1, SameItemSet DEF Quiet
<1>4. Placed'
  <2>1. \A x \in Items : block'[x].frags = block[x].frags
    BY LinkedBlocks DEF Quiet, SameHead
  <2>2. IsInjective(lru)
    BY DEF UInv, Placed
  <2> QED BY <1>1, <1>3, <2>1, <2>2, PlacedSame DEF Quiet, Active
<1>5. \A x : Uses(t, x)' = Uses(t, x)
  BY DEF Quiet, Active, Uses, Reads, Overwrites, At
<1>6. \A x : (Reads(t) /\ th[t].it = x)' = (Reads(t) /\ th[t].it = x)
  BY DEF Quiet, Active, Reads
<1>7. \A x \in Items : KeptUse(x)
  BY LinkedBlocks DEF Quiet, SameHead
<1>8. ItemUse'
  <2>1. \A x \in Linked \ {NULL} : KeptUse(x) /\ block'[x].readers = block[x].readers
    BY LinkedBlocks DEF Quiet, SameHead
  <2>2. leaked' = leaked /\ leaked \subseteq Linked /\ NULL \notin Linked
    BY LinkedBlocks DEF Quiet, UInv, ItemUse
  <2> QED BY <1>1, <1>2, <1>5, <1>6, <2>1, <2>2, ItemsKeep
<1>9. \A u \in Threads \ {t} : UserOf(u)' /\ FreshOf(u)'
  <2>1. \A u \in Threads \ {t} : ~Uses(u, NULL)
    BY UnlinkedUnused, LinkedBlocks
  <2>2. \A u \in Threads \ {t} : Fresh(u) => th[u].mine # NULL /\ th'[t].mine # th[u].mine
    <3> SUFFICES ASSUME NEW u \in Threads \ {t}, Fresh(u)
                 PROVE th[u].mine # NULL /\ th[t].mine # th[u].mine
      BY DEF Quiet
    <3> QED BY DEF UInv, FreshOf, Fresh
  <2>3. leaked' = leaked /\ lru' = lru /\ th'[t].pc # "unchain"
    BY DEF Quiet, Active
  <2> QED BY <1>1, <1>2, <1>7, <2>1, <2>2, <2>3, OthersKeep
<1>10. UserOf(t) /\ FreshOf(t)
  BY DEF UInv
<1>11. th'[t].mine # NULL => /\ th'[t].as = th[t].as /\ B(t)' = B(t) /\ Hv(t)' = Hv(t)
                            /\ th'[t].key = th[t].key
                            /\ KeptUse(th[t].mine) /\ th'[t].mine = th[t].mine
  BY PointerTypes DEF Quiet, SameHead, B, Hv
<1>12. UserOf(t)'
  <2>1. ~Reads(t)' /\ th'[t].pc # "own" /\ th'[t].pc \notin {"unchain", "reclaim"}
    BY DEF Quiet, Active, Reads
  <2>2. Overwrites(t)' => /\ th'[t].mine \in Linked'
                          /\ Bucket(block'[th'[t].mine].hv) = B(t)'
                          /\ block'[th'[t].mine].lock /\ block'[th'[t].mine].state = "w"
    BY <1>2, <1>10, <1>11 DEF UserOf, Overwrites, KeptUse
  <2>3. th'[t].pc = "try" => th'[t].got \in ToSet(lru')
    BY DEF Quiet
  <2>4. th'[t].as = "over" => th'[t].mine # NULL
    BY DEF Quiet
  <2> QED BY <2>1, <2>2, <2>3, <2>4 DEF UserOf, At
<1>13. FreshOf(t)'
  <2> SUFFICES ASSUME Fresh(t)' PROVE FreshOf(t)'
    BY DEF FreshOf
  <2>1. Fresh(t) /\ lru' = lru
    BY <1>11 DEF Fresh, Quiet
  <2>2. \A u \in Threads : u # t => th'[u].mine # th'[t].mine
    BY <1>1, <1>10, <1>11, <2>1 DEF FreshOf, Fresh, Moved
  <2> QED BY <1>10, <1>11, <2>1, <2>2 DEF FreshOf, KeptUse, Fresh
<1> QED BY <1>4, <1>8, <1>9, <1>12, <1>13 DEF UInv

LEMMA Unmoved ==
    ASSUME block' = block
    PROVE  \A x \in Blocks : SameHead(x)
BY DEF SameHead, KeptUse

LEMMA StateLockOnly ==
    ASSUME TInv, NEW y \in Blocks, NEW n, block' = [block EXCEPT ![y].slock = n]
    PROVE  \A x \in Blocks : SameHead(x)
<1> SUFFICES ASSUME NEW x \in Blocks PROVE SameHead(x)
  OBVIOUS
<1>1. block \in [Blocks -> Header]
  BY StateTypes
<1>2. CASE x = y
  BY <1>1, <1>2 DEF SameHead, KeptUse, Header
<1>3. CASE x # y
  BY <1>1, <1>3 DEF SameHead, KeptUse
<1> QED BY <1>2, <1>3

LEMMA QuietMoves ==
    ASSUME TInv, UInv, NEW t \in Threads, NEW p, Moves(t, p), NotAstray',
           th[t].pc \notin Active, p \notin Active, \A x \in Blocks : SameHead(x),
           UNCHANGED <<lru, free, leaked>>, th'[t].mine = th[t].mine,
           th[t].pc # "enter" => th'[t].as = th[t].as,
           th[t].pc = "enter" => th'[t].as # "over",
           p = "try" => th'[t].got \in ToSet(lru)
    PROVE  UInv'
<1>1. th[t].as = "over" => th[t].mine # NULL
  BY DEF UInv, UserOf
<1>0. th[t].pc = "enter" => th[t].mine = NULL
  BY ThreadTypes DEF PointersOf, Writing
<1>2. Quiet(t)
  BY <1>0, <1>1 DEF Quiet, Moves
<1> QED BY <1>2, QuietUse

LEMMA QuietGoes ==
    ASSUME TInv, UInv, NEW t \in Threads, NEW p, NEW i, Goes(t, p, i), NotAstray',
           th[t].pc \notin Active, p \notin Active \cup {"try"},
           \A x \in Blocks : SameHead(x), UNCHANGED <<lru, free, leaked>>
    PROVE  UInv'
<1>1. Moves(t, p) /\ th'[t].mine = th[t].mine /\ th'[t].as = th[t].as
  BY DEF Goes, SameItems
<1>2. p \notin Active /\ p # "try"
  OBVIOUS
<1>3. th[t].as = "over" => th[t].mine # NULL
  BY DEF UInv, UserOf
<1>4. th[t].pc = "enter" => th[t].mine = NULL
  BY ThreadTypes DEF PointersOf, Writing
<1>5. th[t].pc = "enter" => th'[t].as # "over"
  BY <1>1, <1>3, <1>4
<1> QED BY <1>1, <1>2, <1>5, QuietMoves

LEMMA QuietReturns ==
    ASSUME TInv, UInv, NEW t \in Threads, Returns(t), NotAstray',
           th[t].pc \notin Active \cup Writing, block' = block,
           UNCHANGED <<lru, free, leaked>>
    PROVE  UInv'
<1>1. th[t].mine = NULL
  BY ThreadTypes DEF PointersOf
<1>2. Moved(t) /\ th'[t] = Idle
  BY DEF Returns
<1>3. Quiet(t)
  BY <1>1, <1>2, Unmoved DEF Quiet, Active, Idle
<1> QED BY <1>3, QuietUse

\* The quiet actions.
LEMMA BeginGetUses ==
    ASSUME TInv, UInv, NEW t \in Threads, NEW k \in Keys, BeginGet(t, k), NotAstray'
    PROVE  UInv'
<1>1. th[t].pc = "idle" /\ Moved(t) /\ th'[t].pc = "enter" /\ th'[t].mine = NULL
      /\ UNCHANGED <<block, lru, free, leaked>>
  BY BeginGetDoes
<1>2. th'[t].as = "insert"
  BY StateTypes DEF BeginGet, Idle
<1>3. th[t].mine = NULL
  BY <1>1, ThreadTypes DEF PointersOf, Writing
<1>4. Quiet(t)
  BY <1>1, <1>2, <1>3, Unmoved DEF Quiet, Active
<1> QED BY <1>4, QuietUse

LEMMA BeginSetUses ==
    ASSUME TInv, UInv, NEW t \in Threads, NEW k \in Keys, NEW w \in Writes,
           BeginSet(t, k, w), NotAstray'
    PROVE  UInv'
<1>1. th[t].pc = "idle" /\ Moved(t) /\ th'[t].pc = "enter" /\ th'[t].mine = NULL
      /\ UNCHANGED <<block, lru, free, leaked>>
  BY BeginSetDoes
<1>2. th'[t].as = "insert"
  BY StateTypes DEF BeginSet, Idle
<1>3. th[t].mine = NULL
  BY <1>1, ThreadTypes DEF PointersOf, Writing
<1>4. Quiet(t)
  BY <1>1, <1>2, <1>3, Unmoved DEF Quiet, Active
<1> QED BY <1>4, QuietUse

LEMMA EnterUses ==
    ASSUME TInv, UInv, NEW t \in Threads, Enter(t), NotAstray'
    PROVE  UInv'
<1>1. th[t].pc = "enter" /\ UNCHANGED <<block, lru, free, leaked>>
      /\ \/ Goes(t, "barrier", chain[B(t)])
         \/ Goes(t, "head", th[t].it)
         \/ Moves(t, "room") /\ th'[t].mine = th[t].mine /\ th'[t].as = "first"
  BY EnterDoes
<1>2. th[t].mine = NULL
  BY <1>1, ThreadTypes DEF PointersOf, Writing
<1>3. CASE Goes(t, "barrier", chain[B(t)])
  BY <1>1, <1>3, Unmoved, QuietGoes DEF Active
<1>4. CASE Goes(t, "head", th[t].it)
  BY <1>1, <1>4, Unmoved, QuietGoes DEF Active
<1>5. CASE Moves(t, "room") /\ th'[t].mine = th[t].mine /\ th'[t].as = "first"
  BY <1>1, <1>2, <1>5, Unmoved, QuietMoves DEF Active
<1> QED BY <1>1, <1>3, <1>4, <1>5

LEMMA ReadHeadUses ==
    ASSUME TInv, UInv, NEW t \in Threads, ReadHead(t), NotAstray'
    PROVE  UInv'
<1>1. th[t].pc = "head" /\ UNCHANGED <<block, lru, free, leaked>>
      /\ (Goes(t, "walk", chain[B(t)]))
  BY ReadHeadDoes
<1> QED BY <1>1, Unmoved, QuietGoes DEF Active

LEMMA TakeBarrierUses ==
    ASSUME TInv, UInv, NEW t \in Threads, TakeBarrier(t), NotAstray'
    PROVE  UInv'
<1>1. th[t].pc = "barrier" /\ UNCHANGED <<block, lru, free, leaked>>
      /\ (Goes(t, "walk", th[t].it))
  BY TakeBarrierDoes
<1> QED BY <1>1, Unmoved, QuietGoes DEF Active

LEMMA WalkOnUses ==
    ASSUME TInv, UInv, NEW t \in Threads, WalkOn(t), NotAstray'
    PROVE  UInv'
<1>1. th[t].pc = "walk" /\ UNCHANGED <<block, lru, free, leaked>>
      /\ (Goes(t, "state", th[t].it) \/ Goes(t, "walk", Here(t).next))
  BY WalkOnDoes
<1> QED BY <1>1, Unmoved, QuietGoes DEF Active

LEMMA TakeStateUses ==
    ASSUME TInv, UInv, NEW t \in Threads, TakeState(t), NotAstray'
    PROVE  UInv'
<1>1. th[t].pc = "state" /\ UNCHANGED <<lru, free, leaked>>
      /\ (Goes(t, "choose", th[t].it))
  BY TakeStateDoes
<1>2. \A x \in Blocks : SameHead(x)
  BY <1>1, PointerTypes, StateLockOnly DEF TakeState
<1> QED BY <1>1, <1>2, QuietGoes DEF Active

LEMMA SetWaitsUses ==
    ASSUME TInv, UInv, NEW t \in Threads, SetWaits(t), NotAstray'
    PROVE  UInv'
<1>1. th[t].pc = "choose" /\ UNCHANGED <<lru, free, leaked>>
      /\ (Goes(t, "barrier", th[t].it))
  BY SetWaitsDoes
<1>2. \A x \in Blocks : SameHead(x)
  BY <1>1, PointerTypes, StateLockOnly DEF SetWaits
<1> QED BY <1>1, <1>2, QuietGoes DEF Active

LEMMA SkipItemUses ==
    ASSUME TInv, UInv, NEW t \in Threads, SkipItem(t), NotAstray'
    PROVE  UInv'
<1>1. th[t].pc = "choose" /\ UNCHANGED <<lru, free, leaked>>
      /\ (Goes(t, "barrier", Here(t).next))
  BY SkipItemDoes
<1>2. \A x \in Blocks : SameHead(x)
  BY <1>1, PointerTypes, StateLockOnly DEF SkipItem
<1> QED BY <1>1, <1>2, QuietGoes DEF Active

LEMMA RoomUses ==
    ASSUME TInv, UInv, NEW t \in Threads, Room(t), NotAstray'
    PROVE  UInv'
<1>1. th[t].pc = "room" /\ UNCHANGED <<block, lru, free, leaked>>
      /\ (Goes(t, "evict_lock", th[t].it) \/ Goes(t, "pop", th[t].it))
  BY RoomDoes
<1> QED BY <1>1, Unmoved, QuietGoes DEF Active

LEMMA EvictEndUses ==
    ASSUME TInv, UInv, NEW t \in Threads, EvictEnd(t), NotAstray'
    PROVE  UInv'
<1>1. th[t].pc = "evict_end" /\ UNCHANGED <<block, lru, free, leaked>>
      /\ (Goes(t, "pop", th[t].it))
  BY EvictEndDoes
<1> QED BY <1>1, Unmoved, QuietGoes DEF Active

LEMMA CountBackUses ==
    ASSUME TInv, UInv, NEW t \in Threads, CountBack(t), NotAstray'
    PROVE  UInv'
<1>1. th[t].pc = "count" /\ UNCHANGED <<block, lru, free, leaked>>
      /\ (Goes(t, "finish", th[t].it))
  BY CountBackDoes
<1> QED BY <1>1, Unmoved, QuietGoes DEF Active

LEMMA WalkEndsUses ==
    ASSUME TInv, UInv, NEW t \in Threads, WalkEnds(t), NotAstray'
    PROVE  UInv'
<1>1. th[t].pc = "walk" /\ UNCHANGED <<block, lru, free, leaked>>
      /\ (Returns(t) \/ Goes(t, "room", th[t].it))
  BY WalkEndsDoes
<1>2. CASE Returns(t)
  BY <1>1, <1>2, QuietReturns DEF Active, Writing
<1>3. CASE Goes(t, "room", th[t].it)
  BY <1>1, <1>3, Unmoved, QuietGoes DEF Active
<1> QED BY <1>1, <1>2, <1>3

LEMMA PublishUses ==
    ASSUME TInv, UInv, NEW t \in Threads, Publish(t), NotAstray'
    PROVE  UInv'
<1>1. th[t].pc = "publish" /\ UNCHANGED <<block, lru, free, leaked>> /\ Returns(t)
  BY PublishDoes
<1> QED BY <1>1, QuietReturns DEF Active, Writing

LEMMA EvictLockUses ==
    ASSUME TInv, UInv, NEW t \in Threads, EvictLock(t), NotAstray'
    PROVE  UInv'
<1>1. th[t].pc = "evict_lock" /\ UNCHANGED <<block, lru, free, leaked>>
      /\ ((Moves(t, "tail") /\ SameItems(t)) \/ Goes(t, "pop", th[t].it))
  BY EvictLockDoes
<1>2. CASE Moves(t, "tail") /\ SameItems(t)
  <2>1. th'[t].mine = th[t].mine /\ th'[t].as = th[t].as
    BY <1>2 DEF SameItems
  <2>2. th[t].pc \notin Active /\ "tail" \notin Active /\ "tail" # "try"
    BY <1>1 DEF Active
  <2>3. \A x \in Blocks : SameHead(x)
    BY <1>1, Unmoved
  <2> QED BY <1>1, <1>2, <2>1, <2>2, <2>3, QuietMoves
<1>3. CASE Goes(t, "pop", th[t].it)
  BY <1>1, <1>3, Unmoved, QuietGoes DEF Active
<1> QED BY <1>1, <1>2, <1>3

LEMMA ReadTailUses ==
    ASSUME TInv, UInv, NEW t \in Threads, ReadTail(t), NotAstray'
    PROVE  UInv'
<1>1. th[t].pc = "tail" /\ UNCHANGED <<block, lru, free, leaked>>
      /\ \/ Goes(t, "crash", th[t].it)
         \/ Moves(t, "try") /\ th'[t].as = th[t].as /\ th'[t].mine = th[t].mine
  BY ReadTailDoes
<1>2. CASE Goes(t, "crash", th[t].it)
  BY <1>1, <1>2, Unmoved, QuietGoes DEF Active
<1>3. CASE Moves(t, "try") /\ th'[t].as = th[t].as /\ th'[t].mine = th[t].mine
  <2>1. lru # << >> /\ th'[t].got = Last(lru)
    BY <1>3, StateTypes DEF ReadTail, Moves, Thread
  <2>2. th'[t].got \in ToSet(lru)
    BY <2>1, StateTypes, ToSetFacts
  <2>3. th[t].pc \notin Active /\ "try" \notin Active
    BY <1>1 DEF Active
  <2>4. \A x \in Blocks : SameHead(x)
    BY <1>1, Unmoved
  <2> QED BY <1>1, <1>3, <2>2, <2>3, <2>4, QuietMoves
<1> QED BY <1>1, <1>2, <1>3

\* A step of t that concerns one linked item and moves no block.
TouchesOnly(t, x0) ==
    /\ Moved(t) /\ free' = free /\ (lru' = lru \/ lru' = ToFront(x0))
    /\ x0 \in Linked
    /\ \A x \in Blocks \ {x0} : SameHead(x)
    /\ block'[x0].frags = block[x0].frags
    /\ th[t].pc # "fill" /\ th'[t].pc # "fill"
    /\ th'[t].mine = th[t].mine \/ th'[t].mine = x0 \/ th'[t].mine = NULL
    /\ th[t].mine = th'[t].mine \/ th[t].mine = x0 \/ th[t].mine = NULL
    /\ \A x : x # x0 => /\ Uses(t, x)' <=> Uses(t, x)
                        /\ (Reads(t) /\ th[t].it = x)' <=> (Reads(t) /\ th[t].it = x)

LEMMA TouchedLists ==
    ASSUME TInv, UInv, NEW t \in Threads, NEW x0, TouchesOnly(t, x0)
    PROVE  /\ lru' \in Seq(Blocks) /\ IsInjective(lru') /\ ToSet(lru') = ToSet(lru)
           /\ Items' = Items /\ Placed' /\ x0 \in Blocks /\ x0 \in Items
<1>1. x0 \in ToSet(lru) /\ x0 \in Blocks /\ x0 \in Items
  BY LinkedBlocks DEF TouchesOnly
<1>2. lru \in Seq(Blocks) /\ IsInjective(lru)
  BY StateTypes DEF UInv, Placed
<1>3. lru' \in Seq(Blocks) /\ IsInjective(lru') /\ ToSet(lru') = ToSet(lru)
  <2>1. CASE lru' = lru
    BY <1>2, <2>1
  <2>2. CASE lru' = ToFront(x0)
    <3>1. ToSet(ToFront(x0)) = ToSet(lru) \cup {x0} /\ ToFront(x0) \in Seq(Blocks)
          /\ IsInjective(ToFront(x0))
      BY <1>1, <1>2, ToFrontFacts
    <3> QED BY <1>1, <2>2, <3>1
  <2> QED BY <2>1, <2>2 DEF TouchesOnly
<1>4. Items' = Items
  <2>1. ToSet(lru') \cup {th'[t].mine} \cup {NULL} = ToSet(lru) \cup {th[t].mine} \cup {NULL}
    BY <1>1, <1>3 DEF TouchesOnly
  <2> QED BY <1>3, <2>1, SameItemSet DEF TouchesOnly
<1>5. \A x \in Items : block'[x].frags = block[x].frags
  BY LinkedBlocks DEF TouchesOnly, SameHead
<1>6. Placed'
  BY <1>3, <1>4, <1>5, PlacedSame DEF TouchesOnly
<1> QED BY <1>1, <1>3, <1>4, <1>6

LEMMA TouchUse ==
    ASSUME TInv, UInv, NEW t \in Threads, NEW x0, TouchesOnly(t, x0), NotAstray',
           Linked' \ {x0} = Linked \ {x0}, leaked' \ {x0} = leaked \ {x0},
           \A u \in Threads \ {t} : Uses(u, x0) =>
              KeptUse(x0) /\ x0 \in Linked' /\ (x0 \in leaked' => x0 \in leaked),
           x0 \in leaked' => x0 \in Linked',
           x0 \in Linked' => ItemOk(x0)',
           th'[t].pc = "unchain" =>
              \A u \in Threads \ {t} : At(u, "own") => th[u].it # th'[t].got,
           UserOf(t)', FreshOf(t)'
    PROVE  UInv'
<1>1. /\ ToSet(lru') = ToSet(lru) /\ Items' = Items /\ Placed'
      /\ x0 \in Blocks /\ x0 \in Items
  BY TouchedLists
<1>2. Moved(t) /\ x0 \in Linked /\ \A x \in Blocks \ {x0} : SameHead(x)
  BY DEF TouchesOnly
<1>3. \A u \in Threads \ {t} : Fresh(u) => th[u].mine # x0 /\ th'[t].mine # th[u].mine
  <2> SUFFICES ASSUME NEW u \in Threads \ {t}, Fresh(u)
               PROVE  th[u].mine # x0 /\ th'[t].mine # th[u].mine
    OBVIOUS
  <2>1. th[u].mine \notin ToSet(lru) /\ th[u].mine # th[t].mine /\ th[u].mine # NULL
    BY DEF UInv, FreshOf, Fresh
  <2>2. x0 \in ToSet(lru)
    BY <1>2, LinkedBlocks
  <2> QED BY <2>1, <2>2 DEF TouchesOnly
<1>4. \A u \in Threads \ {t} : UserOf(u)' /\ FreshOf(u)'
  <2>1. \A x \in Items \ {x0} : KeptUse(x)
    BY <1>2, LinkedBlocks DEF SameHead
  <2>2. Linked \ {x0} \subseteq Linked' /\ leaked' \subseteq leaked \cup {x0}
    OBVIOUS
  <2>3. x0 \in leaked' => x0 \in leaked \/ \A u \in Threads \ {t} : ~Uses(u, x0)
    OBVIOUS
  <2>4. ToSet(lru) \subseteq ToSet(lru') /\ ToSet(lru') \subseteq ToSet(lru) \cup {th[t].mine}
    BY <1>1
  <2> QED BY <1>2, <1>3, <2>1, <2>2, <2>3, <2>4, OthersKeep
<1>5. ItemUse'
  <2>1. \A x \in Linked \ {x0} : KeptUse(x) /\ block'[x].readers = block[x].readers
    BY <1>2, LinkedBlocks DEF SameHead
  <2>2. Linked' \ {x0} \subseteq Linked /\ leaked' \subseteq Linked'
    BY DEF UInv, ItemUse
  <2>3. \A x \in Linked \ {x0} : x \in leaked' <=> x \in leaked
    OBVIOUS
  <2>4. \A x \in Linked \ {x0} : Uses(t, x)' = Uses(t, x)
    BY DEF TouchesOnly, Uses
  <2>6. \A x \in Linked \ {x0} : (Reads(t) /\ th[t].it = x)' = (Reads(t) /\ th[t].it = x)
    BY DEF TouchesOnly
  <2> QED BY <1>2, <2>1, <2>2, <2>3, <2>4, <2>6, ItemsKeep
<1> QED BY <1>1, <1>4, <1>5 DEF UInv

\* What t uses at each place.
LEMMA UsesAt ==
    ASSUME NEW t, NEW x
    PROVE  /\ th[t].pc \notin {"own", "leave", "copy", "pass", "unchain"}
                /\ ~Overwrites(t) => ~Uses(t, x)
           /\ Reads(t) /\ ~Overwrites(t) => (Uses(t, x) <=> th[t].it = x)
           /\ At(t, "own") /\ ~Overwrites(t) => (Uses(t, x) <=> th[t].it = x)
BY DEF Uses, Reads, At

LEMMA OnlyWritersHaveItems ==
    ASSUME TInv, NEW t \in Threads, th[t].pc \notin Writing
    PROVE  th[t].mine = NULL /\ ~Overwrites(t) /\ ~Fresh(t)
BY ThreadTypes DEF PointersOf, Overwrites, Fresh
-----------------------------------------------------------------------------
(* Steps on an item of the chain, by a thread that writes none. *)

UsingPc == {"own", "leave", "copy", "pass"}
Walks(t, p, i) ==
    /\ Moved(t) /\ th'[t].pc = p /\ th'[t].it = i
    /\ th'[t].mine = NULL /\ th'[t].as # "over"
    /\ th'[t].key = th[t].key \/ p = "idle"

LEMMA GoesWalks ==
    ASSUME TInv, UInv, NEW t \in Threads, NEW p, NEW i, Goes(t, p, i),
           th[t].pc \notin Writing
    PROVE  Walks(t, p, i)
<1>1. th[t].mine = NULL
  BY OnlyWritersHaveItems
<1>2. th[t].as = "over" => th[t].mine # NULL
  BY DEF UInv, UserOf
<1> QED BY <1>1, <1>2 DEF Walks, Goes, Moves, SameItems

LEMMA ReturnsWalks ==
    ASSUME NEW t \in Threads, Returns(t)
    PROVE  Walks(t, "idle", NULL)
BY DEF Walks, Returns, Idle

\* What such a step does to its item, and what is left to show.
OnItem(t) ==
    /\ th[t].it \in Linked
    /\ free' = free /\ (lru' = lru \/ lru' = ToFront(th[t].it))
    /\ \A x \in Blocks \ {th[t].it} : SameHead(x)
    /\ block'[th[t].it].frags = block[th[t].it].frags

LEMMA WalkerTouches ==
    ASSUME TInv, UInv, NEW t \in Threads, NEW p, NEW i, NEW x0, x0 = th[t].it,
           Walks(t, p, i), OnItem(t),
           th[t].pc \in UsingPc \cup {"choose"},
           p \in UsingPc \cup {"walk", "barrier", "idle"},
           p \in UsingPc => i = x0
    PROVE  /\ TouchesOnly(t, x0) /\ Linked' = Linked /\ FreshOf(t)'
           /\ \A x : Uses(t, x)' <=> p \in UsingPc /\ x = x0
           /\ \A x : Uses(t, x) <=> th[t].pc \in UsingPc /\ x = x0
<1>1. th[t].mine = NULL /\ ~Overwrites(t)
  BY OnlyWritersHaveItems DEF UsingPc, Writing
<1>2. th'[t].mine = NULL /\ ~Overwrites(t)' /\ ~Fresh(t)'
  BY DEF Walks, Overwrites, Fresh
<1>3. \A x : Uses(t, x)' <=> p \in UsingPc /\ x = x0
  BY <1>2 DEF Walks, Uses, UsingPc, Reads, At
<1>4. \A x : Uses(t, x) <=> th[t].pc \in UsingPc /\ x = x0
  BY <1>1 DEF Uses, UsingPc, Reads, At
<1>5. TouchesOnly(t, x0)
  <2>1. \A x : x # x0 =>
            /\ Uses(t, x)' <=> Uses(t, x)
            /\ (Reads(t) /\ th[t].it = x)' <=> (Reads(t) /\ th[t].it = x)
    BY <1>3, <1>4 DEF Walks, Reads, UsingPc
  <2> QED BY <1>1, <1>2, <2>1 DEF TouchesOnly, Walks, OnItem, UsingPc
<1>6. Linked' = Linked
  <2>1. ToSet(lru') = ToSet(lru)
    BY <1>5, TouchedLists
  <2> QED BY <2>1, SameLinked DEF Walks, UsingPc
<1> QED BY <1>2, <1>3, <1>4, <1>5, <1>6 DEF FreshOf

LEMMA WalkerUse ==
    ASSUME TInv, UInv, NEW t \in Threads, NEW p, NEW i, NEW x0, x0 = th[t].it,
           Walks(t, p, i), OnItem(t), NotAstray', th[t].pc \in UsingPc \cup {"choose"},
           p \in UsingPc \cup {"walk", "barrier", "idle"},
           p \in UsingPc => i = th[t].it,
           \A u \in Threads \ {t} : Uses(u, th[t].it) => KeptUse(th[t].it),
           leaked' = leaked,
           p \in {"leave", "copy", "pass"} => block'[th[t].it].state = "r",
           p = "own" => /\ th[t].it \notin leaked
                        /\ Bucket(block'[th[t].it].hv) = B(t)
                        /\ block'[th[t].it].lock /\ block'[th[t].it].state = "-"
                        /\ \A u \in Threads : At(u, "unchain") => th[u].got # th[t].it,
           ItemOk(x0)'
    PROVE  UInv'
<1>1. /\ TouchesOnly(t, x0) /\ Linked' = Linked /\ FreshOf(t)'
      /\ \A x : Uses(t, x)' <=> p \in UsingPc /\ x = x0
  BY WalkerTouches
<1>2. x0 \in Linked
  BY DEF OnItem
<1>3. th'[t].pc = p /\ th'[t].mine = NULL /\ ~Overwrites(t)' /\ th'[t].as # "over"
      /\ (p \in UsingPc => th'[t].it = x0)
      /\ p \notin {"unchain", "reclaim", "try"}
  BY DEF Walks, Overwrites, UsingPc
<1>4. Reads(t)' => th'[t].it \in Linked' /\ Here(t)'.state = "r"
  BY <1>1, <1>2, <1>3 DEF Reads, Here, UsingPc
<1>5. At(t, "own")' =>
          /\ th'[t].it \in Linked' \ leaked'
          /\ Bucket(Here(t)'.hv) = B(t)'
          /\ Here(t)'.lock /\ Here(t)'.state = "-"
          /\ \A u \in Threads : At(u, "unchain")' => th'[u].got # th'[t].it
  <2> SUFFICES ASSUME p = "own"
               PROVE  /\ th'[t].it \in Linked' \ leaked'
                      /\ Bucket(Here(t)'.hv) = B(t)'
                      /\ Here(t)'.lock /\ Here(t)'.state = "-"
                      /\ \A u \in Threads : At(u, "unchain")' => th'[u].got # th'[t].it
    BY <1>3 DEF At
  <2>1. th'[t].it = x0 /\ B(t)' = B(t)
    BY <1>3 DEF UsingPc, Walks, B, Hv
  <2>2. \A u \in Threads : At(u, "unchain")' => th'[u].got # x0
    BY <1>3 DEF Walks, Moved, At
  <2> QED BY <1>1, <1>2, <2>1, <2>2 DEF Here
<1>6. UserOf(t)'
  BY <1>3, <1>4, <1>5 DEF UserOf, At
<1>7. \A u \in Threads \ {t} : Uses(u, x0) =>
              KeptUse(x0) /\ x0 \in Linked' /\ (x0 \in leaked' => x0 \in leaked)
  BY <1>1, <1>2
<1>8. Linked' \ {x0} = Linked \ {x0} /\ leaked' \ {x0} = leaked \ {x0}
      /\ x0 \in Linked' /\ ItemOk(x0)' /\ th'[t].pc # "unchain"
  BY <1>1, <1>2, <1>3
<1>9. TouchesOnly(t, x0) /\ FreshOf(t)' /\ UserOf(t)'
  BY <1>1, <1>6
<1> QED BY <1>7, <1>8, <1>9, TouchUse

\* A change of one header.
LEMMA OneHeader ==
    ASSUME TInv, NEW y \in Blocks, NEW h, block' = [block EXCEPT ![y] = h]
    PROVE  /\ \A x \in Blocks \ {y} : SameHead(x) /\ block'[x] = block[x]
           /\ block'[y] = h
<1>1. block \in [Blocks -> Header]
  BY StateTypes
<1> QED BY <1>1 DEF SameHead, KeptUse

LEMMA ReadersAfter ==
    ASSUME NEW t \in Threads, NEW x, Moved(t)
    PROVE  /\ (Reads(t) /\ th[t].it = x)' => Readers(x)' = Readers(x) \cup {t}
           /\ ~(Reads(t) /\ th[t].it = x)' => Readers(x)' = Readers(x) \ {t}
BY DEF Readers, Reads, Moved

LEMMA ReadersCount ==
    ASSUME TInv, NEW x
    PROVE  /\ IsFiniteSet(Readers(x)) /\ Cardinality(Readers(x)) \in Nat
           /\ \A t \in Threads : t \notin Readers(x) =>
                 /\ Cardinality(Readers(x) \cup {t}) = Cardinality(Readers(x)) + 1
                 /\ Cardinality(Readers(x) \cup {t}) <= 255
           /\ \A t \in Readers(x) :
                 Cardinality(Readers(x) \ {t}) = Cardinality(Readers(x)) - 1
           /\ Readers(x) = {} <=> Cardinality(Readers(x)) = 0
<1>1. Readers(x) \subseteq Threads /\ IsFiniteSet(Threads) /\ Cardinality(Threads) <= 255
  BY ThreadsAssumption DEF Readers
<1>2. IsFiniteSet(Readers(x)) /\ Cardinality(Readers(x)) \in Nat
  BY <1>1, FS_Subset, FS_CardinalityType
<1>3. ASSUME NEW t \in Threads, t \notin Readers(x)
      PROVE  /\ Cardinality(Readers(x) \cup {t}) = Cardinality(Readers(x)) + 1
             /\ Cardinality(Readers(x) \cup {t}) <= 255
  <2>1. Cardinality(Readers(x) \cup {t}) = Cardinality(Readers(x)) + 1
    BY <1>2, <1>3, FS_AddElement
  <2>2. Readers(x) \cup {t} \subseteq Threads
    BY <1>1
  <2>3. Cardinality(Readers(x) \cup {t}) <= Cardinality(Threads)
    BY <1>1, <2>2, FS_Subset
  <2>4. Cardinality(Threads) \in Nat
    BY <1>1, FS_CardinalityType
  <2> QED BY <1>1, <1>2, <2>1, <2>3, <2>4
<1>4. ASSUME NEW t \in Readers(x)
      PROVE  Cardinality(Readers(x) \ {t}) = Cardinality(Readers(x)) - 1
  BY <1>2, FS_RemoveElement
<1>5. Readers(x) = {} <=> Cardinality(Readers(x)) = 0
  BY <1>2, FS_EmptySet
<1> QED BY <1>2, <1>3, <1>4, <1>5

LEMMA LeaveUses ==
    ASSUME TInv, UInv, NEW t \in Threads, Leave(t), NotAstray'
    PROVE  UInv'
<1>1. th[t].pc = "leave" /\ UNCHANGED <<block, lru, free, leaked>>
      /\ Goes(t, "copy", th[t].it)
  BY LeaveDoes
<1>2. PICK x0 : x0 = th[t].it
  OBVIOUS
<1>3. x0 \in Linked /\ block[x0].state = "r" /\ x0 \in Blocks /\ ItemOk(x0)
  <2>1. x0 \in Linked /\ block[x0].state = "r"
    BY <1>1, <1>2 DEF UInv, UserOf, Reads, Here
  <2> QED BY <2>1, LinkedBlocks DEF UInv, ItemUse
<1>4. Walks(t, "copy", x0)
  BY <1>1, <1>2, GoesWalks DEF Writing
<1>5. OnItem(t)
  BY <1>1, <1>2, <1>3, Unmoved DEF OnItem
<1>6. KeptUse(x0)
  BY <1>1 DEF KeptUse
<1>7. ItemOk(x0)'
  <2>1. Readers(x0)' = Readers(x0)
    BY <1>1, <1>2, <1>4 DEF Walks, Readers, Moved
  <2>2. (\E u \in Threads : Uses(u, x0)) => \E u \in Threads : Uses(u, x0)'
    <3>1. Uses(t, x0)'
      BY <1>2, <1>4 DEF Walks, Uses, Reads
    <3> QED BY <3>1
  <2> QED BY <1>1, <1>3, <2>1, <2>2 DEF ItemOk
<1> QED BY <1>1, <1>2, <1>3, <1>4, <1>5, <1>6, <1>7, WalkerUse DEF UsingPc

LEMMA TryItemUses ==
    ASSUME TInv, UInv, NEW t \in Threads, TryItem(t), NotAstray'
    PROVE  UInv'
<1>1. th[t].pc = "choose" /\ UNCHANGED <<lru, free, leaked>>
      /\ Goes(t, "own", th[t].it)
  BY TryItemDoes
<1>2. PICK x0 : x0 = th[t].it
  OBVIOUS
<1>3. x0 \in Linked /\ Bucket(block[x0].hv) = B(t) /\ x0 \in Blocks /\ ItemOk(x0)
  <2>1. ~Astray(t)
    BY DEF UInv, NotAstray
  <2>2. x0 \in Linked /\ Bucket(block[x0].hv) = B(t)
    BY <1>1, <1>2, <2>1 DEF Astray, Gone, Here
  <2> QED BY <2>2, LinkedBlocks DEF UInv, ItemUse
<1>4. Walks(t, "own", x0)
  BY <1>1, <1>2, GoesWalks DEF Writing
<1>5. /\ ~block[x0].lock /\ block[x0].state = "-" /\ x0 \notin leaked
      /\ \A u \in Threads : ~Uses(u, x0)
  <2>1. block[x0].state # "r" /\ ~block[x0].lock
    BY <1>2 DEF TryItem, Here
  <2> QED BY <1>3, <2>1, UnlockedUnused DEF ItemOk
<1>6. /\ \A x \in Blocks \ {x0} : SameHead(x)
      /\ block'[x0] = [block[x0] EXCEPT !.slock = 0, !.lock = TRUE]
  BY <1>2, <1>3, OneHeader DEF TryItem
<1>7. /\ block'[x0].lock /\ block'[x0].state = "-" /\ block'[x0].hv = block[x0].hv
      /\ block'[x0].frags = block[x0].frags
  BY <1>3, <1>5, <1>6, HeaderTypes DEF Header
<1>8. OnItem(t)
  BY <1>1, <1>2, <1>3, <1>6, <1>7 DEF OnItem
<1>9. ItemOk(x0)'
  <2>1. Uses(t, x0)'
    BY <1>4 DEF Walks, Uses, At
  <2> QED BY <1>1, <1>5, <1>7, <2>1 DEF ItemOk
<1>10. \A u \in Threads : At(u, "unchain") => th[u].got # x0
  BY <1>5 DEF Uses
<1> QED BY <1>1, <1>2, <1>3, <1>4, <1>5, <1>7, <1>8, <1>9, <1>10, WalkerUse DEF UsingPc

LEMMA OwnItem ==
    ASSUME TInv, UInv, NEW t \in Threads, At(t, "own"), NEW x0, x0 = th[t].it
    PROVE  /\ x0 \in Linked /\ x0 \notin leaked /\ x0 \in Blocks
           /\ Bucket(block[x0].hv) = B(t)
           /\ block[x0].lock /\ block[x0].state = "-"
           /\ \A u \in Threads \ {t} : ~Uses(u, x0)
           /\ Readers(x0) = {}
<1>1. UserOf(t)
  BY DEF UInv
<1>2. \A u \in Threads \ {t} : ~Uses(u, x0)
  BY OwnerAlone
<1>3. Readers(x0) = {}
  BY <1>2 DEF Readers, Uses, Reads, At
<1>4. x0 \in Linked
  BY <1>1 DEF UserOf
<1> QED BY <1>1, <1>2, <1>3, <1>4, LinkedBlocks DEF UserOf, Here

LEMMA OtherKeyUses ==
    ASSUME TInv, UInv, NEW t \in Threads, OtherKey(t), NotAstray'
    PROVE  UInv'
<1>1. th[t].pc = "own" /\ UNCHANGED <<lru, free, leaked>>
      /\ Goes(t, "walk", Here(t).next)
  BY OtherKeyDoes
<1>2. PICK x0 : x0 = th[t].it
  OBVIOUS
<1>3. /\ x0 \in Linked /\ x0 \notin leaked /\ x0 \in Blocks
      /\ block[x0].state = "-" /\ \A u \in Threads \ {t} : ~Uses(u, x0)
  BY <1>1, <1>2, OwnItem DEF At
<1>4. Walks(t, "walk", Here(t).next)
  BY <1>1, GoesWalks DEF Writing
<1>6. /\ \A x \in Blocks \ {x0} : SameHead(x)
      /\ block'[x0] = [block[x0] EXCEPT !.lock = FALSE]
  <2>1. block' = [block EXCEPT ![x0] = [block[x0] EXCEPT !.lock = FALSE]]
    BY <1>2 DEF OtherKey
  <2> QED BY <1>3, <2>1, OneHeader
<1>7. ~block'[x0].lock /\ block'[x0].state = "-" /\ block'[x0].frags = block[x0].frags
  BY <1>3, <1>6, HeaderTypes DEF Header
<1>8. OnItem(t)
  BY <1>1, <1>2, <1>3, <1>6, <1>7 DEF OnItem
<1>9. ItemOk(x0)'
  BY <1>1, <1>3, <1>7 DEF ItemOk
<1> QED BY <1>1, <1>2, <1>3, <1>4, <1>8, <1>9, WalkerUse DEF UsingPc

LEMMA GetOwnUses ==
    ASSUME TInv, UInv, NEW t \in Threads, GetOwn(t), NotAstray'
    PROVE  UInv'
<1>1. th[t].pc = "own" /\ UNCHANGED <<free, leaked>>
      /\ Goes(t, "leave", th[t].it)
  BY GetOwnDoes
<1>2. PICK x0 : x0 = th[t].it
  OBVIOUS
<1>3. /\ x0 \in Linked /\ x0 \notin leaked /\ x0 \in Blocks /\ block[x0].lock
      /\ \A u \in Threads \ {t} : ~Uses(u, x0)
      /\ Readers(x0) = {}
  BY <1>1, <1>2, OwnItem DEF At
<1>4. Walks(t, "leave", x0)
  BY <1>1, <1>2, GoesWalks DEF Writing
<1>6. /\ \A x \in Blocks \ {x0} : SameHead(x)
      /\ block'[x0] = [block[x0] EXCEPT !.state = "r", !.readers = 1]
  BY <1>2, <1>3, OneHeader DEF GetOwn
<1>7. /\ block'[x0].lock /\ block'[x0].state = "r" /\ block'[x0].frags = block[x0].frags
      /\ block'[x0].readers = 1
  BY <1>3, <1>6, HeaderTypes DEF Header
<1>8. OnItem(t)
  BY <1>1, <1>2, <1>3, <1>6, <1>7 DEF OnItem, GetOwn
<1>9. ItemOk(x0)'
  <2>1. Uses(t, x0)' /\ (Reads(t) /\ th[t].it = x0)' /\ Moved(t)
    BY <1>4 DEF Walks, Uses, Reads
  <2>2. Readers(x0)' = {t}
    BY <1>3, <2>1, ReadersAfter
  <2>3. Cardinality({t}) = 1
    BY FS_Singleton
  <2> QED BY <1>1, <1>3, <1>7, <2>1, <2>2, <2>3 DEF ItemOk
<1> QED BY <1>1, <1>2, <1>3, <1>4, <1>7, <1>8, <1>9, WalkerUse DEF UsingPc

LEMMA GetSharesUses ==
    ASSUME TInv, UInv, NEW t \in Threads, GetShares(t), NotAstray'
    PROVE  UInv'
<1>1. /\ th[t].pc = "choose" /\ UNCHANGED <<free, leaked>>
      /\ Goes(t, "leave", th[t].it) \/ Goes(t, "pass", th[t].it)
  BY GetSharesDoes
<1>2. PICK x0 : x0 = th[t].it
  OBVIOUS
<1>3. x0 \in Linked /\ x0 \in Blocks /\ ItemOk(x0)
  <2>1. ~Astray(t)
    BY DEF UInv, NotAstray
  <2>2. x0 \in Linked
    BY <1>1, <1>2, <2>1 DEF Astray, Gone, Here
  <2> QED BY <2>2, LinkedBlocks DEF UInv, ItemUse
<1>4. block[x0].state = "r"
  BY <1>2 DEF GetShares, Here
<1>5. /\ block[x0].readers = Cardinality(Readers(x0)) /\ Readers(x0) # {}
      /\ x0 \notin leaked /\ block[x0].lock /\ t \notin Readers(x0)
  BY <1>1, <1>3, <1>4, HeaderTypes DEF ItemOk, Readers
<1>6. /\ \A x \in Blocks \ {x0} : SameHead(x)
      /\ block'[x0] = [block[x0] EXCEPT !.slock = 0,
                                        !.readers = (block[x0].readers + 1) % 256]
  <2>1. block' = [block EXCEPT ![x0] = [block[x0] EXCEPT !.slock = 0,
                                        !.readers = (block[x0].readers + 1) % 256]]
    BY <1>2 DEF GetShares, Here
  <2> QED BY <1>3, <2>1, OneHeader
<1>7. block[x0].readers + 1 <= 255 /\ block[x0].readers \in Nat
      /\ Cardinality(Readers(x0) \cup {t}) = block[x0].readers + 1
  <2>1. /\ Cardinality(Readers(x0) \cup {t}) = Cardinality(Readers(x0)) + 1
        /\ Cardinality(Readers(x0) \cup {t}) <= 255
        /\ Cardinality(Readers(x0)) \in Nat
    BY <1>5, ReadersCount
  <2> QED BY <1>5, <2>1
<1>8. (block[x0].readers + 1) % 256 = block[x0].readers + 1
  BY <1>7
<1>9. /\ block'[x0].lock /\ block'[x0].state = "r" /\ block'[x0].frags = block[x0].frags
      /\ block'[x0].readers = block[x0].readers + 1 /\ KeptUse(x0)
  <2>1. block[x0] \in Header
    BY <1>3, HeaderTypes
  <2>2. /\ block'[x0].lock = block[x0].lock /\ block'[x0].state = block[x0].state
        /\ block'[x0].frags = block[x0].frags /\ block'[x0].hv = block[x0].hv
        /\ block'[x0].key = block[x0].key
        /\ block'[x0].readers = (block[x0].readers + 1) % 256
    <3>1. PICK n : n = (block[x0].readers + 1) % 256
      OBVIOUS
    <3>2. block'[x0] = [block[x0] EXCEPT !.slock = 0, !.readers = n]
      BY <1>6, <3>1
    <3>3. /\ block'[x0].lock = block[x0].lock /\ block'[x0].state = block[x0].state
          /\ block'[x0].frags = block[x0].frags /\ block'[x0].hv = block[x0].hv
          /\ block'[x0].key = block[x0].key /\ block'[x0].readers = n
      BY <2>1, <3>2 DEF Header
    <3> QED BY <3>1, <3>3
  <2> QED BY <1>4, <1>5, <1>8, <2>2 DEF KeptUse
<1>10. PICK p \in {"leave", "pass"} : Walks(t, p, x0)
  <2>1. Walks(t, "leave", x0) \/ Walks(t, "pass", x0)
    BY <1>1, <1>2, GoesWalks DEF Writing
  <2> QED BY <2>1
<1>11. OnItem(t)
  <2>1. lru' = lru \/ lru' = ToFront(x0)
    BY <1>2 DEF GetShares
  <2> QED BY <1>1, <1>2, <1>3, <1>6, <1>9, <2>1 DEF OnItem
<1>12. ItemOk(x0)'
  <2>1. Uses(t, x0)' /\ (Reads(t) /\ th[t].it = x0)' /\ Moved(t)
    BY <1>10 DEF Walks, Uses, Reads
  <2>2. Readers(x0)' = Readers(x0) \cup {t}
    BY <2>1, ReadersAfter
  <2> QED BY <1>1, <1>5, <1>7, <1>9, <2>1, <2>2 DEF ItemOk
<1>13. p \in UsingPc /\ p # "own" /\ th[t].pc \in UsingPc \cup {"choose"}
  BY <1>1, <1>10 DEF UsingPc
<1> QED BY <1>1, <1>2, <1>9, <1>10, <1>11, <1>12, <1>13, WalkerUse

LEMMA ReleasedFragments ==
    ASSUME NEW h \in Header
    PROVE  Released(h).frags = h.frags
<1>1. CASE (h.readers + 255) % 256 = 0
  <2>1. Released(h) = [h EXCEPT !.readers = 0, !.state = "-", !.lock = FALSE]
    BY <1>1 DEF Released
  <2> QED BY <2>1 DEF Header
<1>2. CASE (h.readers + 255) % 256 # 0
  <2>1. PICK r : r = (h.readers + 255) % 256
    OBVIOUS
  <2>2. Released(h) = [h EXCEPT !.readers = r]
    BY <1>2, <2>1 DEF Released
  <2> QED BY <2>2 DEF Header
<1> QED BY <1>1, <1>2

\* A reader's release.
LEMMA ReleaseUses ==
    ASSUME TInv, UInv, NEW t \in Threads, Reads(t), NEW x0, x0 = th[t].it,
           NEW p, NEW i, Walks(t, p, i), p \in {"walk", "idle"},
           block' = [block EXCEPT ![th[t].it] = Released(@)],
           UNCHANGED <<lru, free, leaked>>, NotAstray'
    PROVE  UInv'
<1>1. x0 \in Linked /\ block[x0].state = "r" /\ x0 \in Blocks /\ ItemOk(x0)
  <2>1. x0 \in Linked /\ block[x0].state = "r"
    BY DEF UInv, UserOf, Here
  <2> QED BY <2>1, LinkedBlocks DEF UInv, ItemUse
<1>2. /\ block[x0].readers = Cardinality(Readers(x0)) /\ t \in Readers(x0)
      /\ x0 \notin leaked /\ block[x0].lock
  BY <1>1, HeaderTypes DEF ItemOk, Readers, Reads
<1>3. Readers(x0)' = Readers(x0) \ {t}
  <2>1. ~(Reads(t) /\ th[t].it = x0)' /\ Moved(t)
    BY DEF Walks, Reads
  <2> QED BY <2>1, ReadersAfter
<1>4. /\ Cardinality(Readers(x0)') = block[x0].readers - 1
      /\ block[x0].readers \in 1 .. 255
  <2>1. Cardinality(Readers(x0) \ {t}) = Cardinality(Readers(x0)) - 1
        /\ Readers(x0) # {} /\ Cardinality(Readers(x0)) \in Nat
        /\ Cardinality(Readers(x0)) # 0
    BY <1>2, ReadersCount
  <2>2. block[x0].readers \in 0 .. 255
    BY <1>1, HeaderTypes
  <2> QED BY <1>2, <1>3, <2>1, <2>2
<1>5. (block[x0].readers + 255) % 256 = block[x0].readers - 1
  BY <1>4
<1>6. /\ \A x \in Blocks \ {x0} : SameHead(x)
      /\ block'[x0] = Released(block[x0])
  BY <1>1, OneHeader
<1>7. block[x0] \in Header
  BY <1>1, HeaderTypes
<1>8. block'[x0].frags = block[x0].frags
  BY <1>6, <1>7, ReleasedFragments
<1>9. OnItem(t)
  BY <1>1, <1>6, <1>8 DEF OnItem
<1>10. \A u \in Threads \ {t} : Uses(u, x0) => u \in Readers(x0)'
  BY <1>1, <1>3, ReadersShare DEF Readers, Reads
<1>11. CASE block[x0].readers = 1
  <2>1. block'[x0] = [block[x0] EXCEPT !.readers = 0, !.state = "-", !.lock = FALSE]
    BY <1>5, <1>6, <1>11 DEF Released
  <2>2. ~block'[x0].lock /\ block'[x0].state = "-"
    BY <1>7, <2>1, ZenonT(40) DEF Header
  <2>3. Readers(x0)' = {}
    <3>1. IsFiniteSet(Readers(x0)')
      BY <1>3, ReadersCount, FS_Subset
    <3> QED BY <1>4, <1>11, <3>1, FS_EmptySet
  <2>4. ItemOk(x0)'
    BY <1>2, <2>2 DEF ItemOk
  <2>5. \A u \in Threads \ {t} : ~Uses(u, x0)
    BY <1>10, <2>3
  <2>6. p \notin UsingPc /\ p \in {"walk", "barrier", "idle"}
        /\ th[t].pc \in UsingPc \cup {"choose"}
    BY DEF UsingPc, Reads
  <2>7. p \notin {"leave", "copy", "pass"} /\ p # "own"
    OBVIOUS
  <2> QED BY <1>9, <2>4, <2>5, <2>6, <2>7, WalkerUse
<1>12. CASE block[x0].readers # 1
  <2>0. (block[x0].readers + 255) % 256 # 0
    BY <1>4, <1>5, <1>12
  <2>1. block'[x0] = [block[x0] EXCEPT !.readers = (block[x0].readers + 255) % 256]
    BY <1>6, <2>0 DEF Released
  <2>2. /\ block'[x0].lock /\ block'[x0].state = "r"
        /\ block'[x0].readers = block[x0].readers - 1 /\ KeptUse(x0)
    <3>1. /\ block'[x0].lock = block[x0].lock /\ block'[x0].state = block[x0].state
          /\ block'[x0].hv = block[x0].hv /\ block'[x0].key = block[x0].key
          /\ block'[x0].readers = (block[x0].readers + 255) % 256
      <4>1. PICK n : n = (block[x0].readers + 255) % 256
        OBVIOUS
      <4>2. block'[x0] = [block[x0] EXCEPT !.readers = n]
        BY <2>1, <4>1
      <4>3. /\ block'[x0].lock = block[x0].lock /\ block'[x0].state = block[x0].state
            /\ block'[x0].hv = block[x0].hv /\ block'[x0].key = block[x0].key
            /\ block'[x0].readers = n
        BY <1>7, <4>2 DEF Header
      <4> QED BY <4>1, <4>3
    <3> QED BY <1>1, <1>2, <1>5, <3>1 DEF KeptUse
  <2>3. Readers(x0)' # {}
    <3>1. Cardinality({}) = 0
      BY FS_EmptySet
    <3> QED BY <1>4, <1>12, <3>1
  <2>4. ItemOk(x0)'
    <3>1. PICK u \in Threads : u \in Readers(x0)'
      BY <2>3 DEF Readers
    <3>2. Uses(u, x0)'
      BY <3>1 DEF Readers, Uses, Reads
    <3> QED BY <1>2, <1>4, <2>2, <2>3, <3>2 DEF ItemOk
  <2>6. p \notin UsingPc /\ p \in {"walk", "barrier", "idle"}
        /\ th[t].pc \in UsingPc \cup {"choose"}
    BY DEF UsingPc, Reads
  <2>7. p \notin {"leave", "copy", "pass"} /\ p # "own"
    OBVIOUS
  <2> QED BY <1>9, <2>2, <2>4, <2>6, <2>7, WalkerUse
<1> QED BY <1>11, <1>12

LEMMA PassUses ==
    ASSUME TInv, UInv, NEW t \in Threads, Pass(t), NotAstray'
    PROVE  UInv'
<1>1. th[t].pc = "pass" /\ UNCHANGED <<lru, free, leaked>>
      /\ Goes(t, "walk", Here(t).next)
  BY PassDoes
<1>2. Walks(t, "walk", Here(t).next) /\ Reads(t)
  BY <1>1, GoesWalks DEF Writing, Reads
<1> QED BY <1>1, <1>2, ReleaseUses DEF Pass

LEMMA EndCopyUses ==
    ASSUME TInv, UInv, NEW t \in Threads, EndCopy(t), NotAstray'
    PROVE  UInv'
<1>1. th[t].pc = "copy" /\ UNCHANGED <<lru, free, leaked>> /\ Returns(t)
  BY EndCopyDoes
<1>2. Walks(t, "idle", NULL) /\ Reads(t)
  BY <1>1, ReturnsWalks DEF Reads
<1> QED BY <1>1, <1>2, ReleaseUses DEF EndCopy

LEMMA SetTooOldUses ==
    ASSUME TInv, UInv, NEW t \in Threads, SetTooOld(t), NotAstray'
    PROVE  UInv'
<1>1. th[t].pc = "own" /\ UNCHANGED <<block, lru, free>> /\ Returns(t)
  BY SetTooOldDoes
<1>2. PICK x0 : x0 = th[t].it
  OBVIOUS
<1>3. /\ x0 \in Linked /\ x0 \in Blocks /\ block[x0].lock /\ block[x0].state = "-"
      /\ \A u \in Threads \ {t} : ~Uses(u, x0)
  BY <1>1, <1>2, OwnItem DEF At
<1>4. Walks(t, "idle", NULL)
  BY <1>1, ReturnsWalks
<1>5. OnItem(t)
  BY <1>1, <1>2, <1>3, Unmoved DEF OnItem
<1>6. TouchesOnly(t, x0) /\ Linked' = Linked /\ FreshOf(t)'
  BY <1>1, <1>2, <1>4, <1>5, WalkerTouches DEF UsingPc
<1>7. UserOf(t)'
  BY <1>4 DEF Walks, UserOf, Reads, Overwrites, At
<1>8. leaked' = leaked \cup {x0}
  BY <1>2 DEF SetTooOld
<1>9. ItemOk(x0)'
  BY <1>1, <1>3, <1>8 DEF ItemOk
<1>10. th'[t].pc # "unchain"
  BY <1>4 DEF Walks
<1> QED BY <1>3, <1>6, <1>7, <1>8, <1>9, <1>10, TouchUse

LEMMA SetOwnUses ==
    ASSUME TInv, UInv, NEW t \in Threads, SetOwn(t), NotAstray'
    PROVE  UInv'
<1>1. /\ th[t].pc = "own" /\ UNCHANGED <<lru, free, leaked>>
      /\ Moves(t, th'[t].pc) /\ th'[t].pc \in {"room", "drop", "finish"}
      /\ th'[t].mine = th[t].it /\ th'[t].as = "over"
  BY SetOwnDoes
<1>2. PICK x0 : x0 = th[t].it
  OBVIOUS
<1>3. /\ x0 \in Linked /\ x0 \in Blocks /\ block[x0].lock /\ x0 \notin leaked
      /\ \A u \in Threads \ {t} : ~Uses(u, x0)
      /\ Bucket(block[x0].hv) = B(t)
  BY <1>1, <1>2, OwnItem DEF At
<1>4. /\ \A x \in Blocks \ {x0} : SameHead(x)
      /\ block'[x0] = [block[x0] EXCEPT !.state = "w", !.size = 1, !.ver = th[t].ver]
  BY <1>2, <1>3, OneHeader, ZenonT(40) DEF SetOwn
<1>5. /\ block'[x0].lock /\ block'[x0].state = "w" /\ block'[x0].frags = block[x0].frags
      /\ block'[x0].hv = block[x0].hv
  BY <1>3, <1>4, HeaderTypes DEF Header
<1>6. th[t].mine = NULL /\ ~Overwrites(t) /\ x0 # NULL
  BY <1>1, <1>3, KeyTypes, OnlyWritersHaveItems DEF Writing
<1>7. /\ Overwrites(t)' /\ ~Fresh(t)' /\ th'[t].mine = x0 /\ Moved(t)
      /\ ~Reads(t)' /\ B(t)' = B(t)
  BY <1>1, <1>2, <1>6 DEF Overwrites, Fresh, Moves, Reads, B, Hv
<1>8. /\ \A x : Uses(t, x) => x = x0
      /\ \A x : Uses(t, x)' => x = x0
      /\ Uses(t, x0)'
  BY <1>1, <1>2, <1>6, <1>7 DEF Uses, Reads, At
<1>9. TouchesOnly(t, x0)
  <2>1. \A x : x # x0 =>
            /\ Uses(t, x)' <=> Uses(t, x)
            /\ (Reads(t) /\ th[t].it = x)' <=> (Reads(t) /\ th[t].it = x)
    BY <1>1, <1>7, <1>8 DEF Reads
  <2> QED BY <1>1, <1>3, <1>4, <1>5, <1>6, <1>7, <2>1 DEF TouchesOnly
<1>10. Linked' = Linked
  <2>1. ToSet(lru') = ToSet(lru)
    BY <1>1
  <2> QED BY <1>1, <1>7, <2>1, SameLinked
<1>11. UserOf(t)'
  <2>1. th'[t].pc \notin {"own", "try", "unchain", "reclaim"}
    BY <1>1
  <2>2. th'[t].mine # NULL
    BY <1>6, <1>7
  <2>3. /\ th'[t].mine \in Linked' /\ Bucket(block'[th'[t].mine].hv) = B(t)'
        /\ block'[th'[t].mine].lock /\ block'[th'[t].mine].state = "w"
    BY <1>3, <1>5, <1>7, <1>10
  <2> QED BY <1>7, <2>1, <2>2, <2>3 DEF UserOf, At
<1>12. FreshOf(t)'
  BY <1>7 DEF FreshOf
<1>13. ItemOk(x0)'
  BY <1>1, <1>3, <1>5, <1>8 DEF ItemOk
<1>14. th'[t].pc # "unchain"
  BY <1>1
<1> QED BY <1>1, <1>3, <1>9, <1>10, <1>11, <1>12, <1>13, <1>14, TouchUse
-----------------------------------------------------------------------------
(* Steps of a thread that writes an item or evicts one. *)

LEMMA KeepsMine ==
    ASSUME TInv, UInv, NEW t \in Threads, Moved(t), th'[t].mine = th[t].mine,
           th'[t].as = th[t].as, th'[t].key = th[t].key,
           th[t].mine # NULL => KeptUse(th[t].mine), ToSet(lru') \subseteq ToSet(lru),
           Overwrites(t) => th[t].mine \in Linked'
    PROVE  /\ FreshOf(t)' /\ Overwrites(t)' = Overwrites(t)
           /\ Overwrites(t)' => /\ th'[t].mine \in Linked'
                                /\ Bucket(block'[th'[t].mine].hv) = B(t)'
                                /\ block'[th'[t].mine].lock
                                /\ block'[th'[t].mine].state = "w"
           /\ th'[t].as = "over" => th'[t].mine # NULL
<1>1. UserOf(t) /\ FreshOf(t)
  BY DEF UInv
<1>2. /\ Overwrites(t)' = Overwrites(t) /\ Fresh(t)' = Fresh(t)
      /\ B(t)' = B(t) /\ Hv(t)' = Hv(t)
  BY DEF Overwrites, Fresh, B, Hv
<1>3. Overwrites(t) => /\ Bucket(block'[th'[t].mine].hv) = B(t)'
                       /\ block'[th'[t].mine].lock
                       /\ block'[th'[t].mine].state = "w"
  BY <1>1, <1>2 DEF UserOf, Overwrites, KeptUse
<1>4. th'[t].as = "over" => th'[t].mine # NULL
  BY <1>1 DEF UserOf
<1>5. FreshOf(t)'
  <2> SUFFICES ASSUME Fresh(t) PROVE FreshOf(t)'
    BY <1>2 DEF FreshOf
  <2>1. \A u \in Threads : u # t => th'[u].mine # th'[t].mine
    BY <1>1 DEF FreshOf, Moved
  <2>2. KeptUse(th[t].mine)
    BY DEF Fresh
  <2> QED BY <1>1, <1>2, <2>1, <2>2 DEF FreshOf, KeptUse
<1> QED BY <1>2, <1>3, <1>4, <1>5

\* The evictor's block.
LEMMA TailIsLinked ==
    ASSUME TInv, UInv, NEW t \in Threads, At(t, "try")
    PROVE  /\ th[t].got \in Linked /\ th[t].got \in Blocks /\ ItemOk(th[t].got)
           /\ th[t].got \in ToSet(lru)
<1>1. th[t].got \in ToSet(lru)
  BY DEF UInv, UserOf, At
<1>2. \A u \in Threads : ~At(u, "reclaim")
  BY OneEvictor DEF At, Evicting, Choosing
<1>3. th[t].got \in Linked
  BY <1>1, <1>2 DEF Linked
<1> QED BY <1>1, <1>3, LinkedBlocks DEF UInv, ItemUse

LEMMA TryTailUses ==
    ASSUME TInv, UInv, NEW t \in Threads, TryTail(t), NotAstray'
    PROVE  UInv'
<1>1. /\ th[t].pc = "try" /\ UNCHANGED <<free, leaked>> /\ At(t, "try")
  BY TryTailDoes DEF At
<1>2. PICK x0 : x0 = th[t].got
  OBVIOUS
<1>3. x0 \in Linked /\ x0 \in Blocks /\ ItemOk(x0)
  BY <1>1, <1>2, TailIsLinked
<1>4. ASSUME NEW p, Goes(t, p, th[t].it), p \notin Active \ {"unchain"}, p # "try",
             lru' = lru \/ lru' = ToFront(x0),
             \A x \in Blocks \ {x0} : SameHead(x), block'[x0].frags = block[x0].frags,
             \A x : Uses(t, x) => KeptUse(x),
             p = "unchain" => /\ x0 \notin leaked /\ \A u \in Threads \ {t} : ~Uses(u, x0)
                              /\ block'[x0].lock /\ block'[x0].state = "-",
             p # "unchain" => block' = block,
             \A u \in Threads \ {t} : Uses(u, x0) => KeptUse(x0)
      PROVE  UInv'
  <2>1. /\ Moved(t) /\ th'[t].pc = p /\ th'[t].mine = th[t].mine /\ th'[t].as = th[t].as
        /\ th'[t].key = th[t].key /\ th'[t].got = x0
    BY <1>2, <1>4 DEF Goes, Moves, SameItems
  <2>2. Overwrites(t)' = Overwrites(t) /\ ~Reads(t) /\ ~Reads(t)'
    BY <1>1, <1>4, <2>1 DEF Overwrites, Reads, Active
  <2>3. TouchesOnly(t, x0)
    <3>1. \A x : x # x0 => Uses(t, x)' = Uses(t, x)
      BY <1>1, <1>4, <2>1, <2>2 DEF Uses, At, Active
    <3> QED BY <1>1, <1>3, <1>4, <2>1, <2>2, <3>1 DEF TouchesOnly, Active
  <2>4. Linked' = Linked /\ ToSet(lru') = ToSet(lru)
    <3>1. ToSet(lru') = ToSet(lru)
      BY <2>3, TouchedLists
    <3> QED BY <1>1, <1>4, <2>1, <3>1, SameLinked DEF Active
  <2>5. th[t].mine # NULL => KeptUse(th[t].mine)
    <3> SUFFICES ASSUME th[t].mine # NULL PROVE KeptUse(th[t].mine)
      OBVIOUS
    <3>1. CASE Overwrites(t)
      BY <1>4, <3>1 DEF Uses
    <3>2. CASE ~Overwrites(t)
      <4>1. th[t].mine \notin ToSet(lru) /\ th[t].mine \in Blocks
        BY <3>2, PointerTypes DEF Overwrites, Fresh, FreshOf, UInv
      <4>2. th[t].mine # x0
        BY <1>3, <4>1, LinkedBlocks
      <4> QED BY <1>4, <4>1, <4>2 DEF SameHead
    <3> QED BY <3>1, <3>2
  <2>6. Overwrites(t) => th[t].mine \in Linked'
    BY <2>4 DEF UInv, UserOf
  <2>7. /\ FreshOf(t)'
        /\ Overwrites(t)' => /\ th'[t].mine \in Linked'
                             /\ Bucket(block'[th'[t].mine].hv) = B(t)'
                             /\ block'[th'[t].mine].lock
                             /\ block'[th'[t].mine].state = "w"
        /\ th'[t].as = "over" => th'[t].mine # NULL
    BY <2>1, <2>4, <2>5, <2>6, KeepsMine
  <2>8. UserOf(t)'
    <3>1. th'[t].pc # "own" /\ th'[t].pc # "try" /\ th'[t].pc # "reclaim"
      BY <1>4, <2>1 DEF Active
    <3>2. th'[t].pc = "unchain" =>
            /\ th'[t].got \in ToSet(lru')
            /\ th'[t].got \in Linked' \ leaked'
            /\ block'[th'[t].got].lock /\ block'[th'[t].got].state = "-"
      BY <1>1, <1>3, <1>4, <2>1, <2>4, LinkedBlocks
    <3> QED BY <2>2, <2>7, <3>1, <3>2 DEF UserOf, At
  <2>9. ItemOk(x0)'
    <3>1. Readers(x0)' = Readers(x0)
      BY <2>1, <2>2, ReadersAfter DEF Readers, Reads
    <3>2. CASE p = "unchain"
      <4>1. Uses(t, x0)'
        BY <2>1, <3>2 DEF Uses, At
      <4> QED BY <1>1, <1>4, <3>2, <4>1 DEF ItemOk
    <3>3. CASE p # "unchain"
      <4>1. \A u \in Threads : Uses(u, x0)' = Uses(u, x0)
        <5>1. Uses(t, x0)' = Uses(t, x0)
          BY <1>1, <1>4, <2>1, <2>2, <3>3 DEF Uses, At, Active
        <5> QED BY <2>1, <5>1 DEF Moved, Uses, Reads, Overwrites, At
      <4> QED BY <1>1, <1>3, <1>4, <3>1, <3>3, <4>1 DEF ItemOk
    <3> QED BY <3>2, <3>3
  <2>10. th'[t].pc = "unchain" =>
              \A u \in Threads \ {t} : At(u, "own") => th[u].it # th'[t].got
    BY <1>4, <2>1 DEF Uses
  <2>11. /\ Linked' \ {x0} = Linked \ {x0} /\ leaked' \ {x0} = leaked \ {x0}
         /\ x0 \in Linked' /\ leaked' = leaked
    BY <1>1, <1>3, <2>4
  <2> QED BY <1>4, <2>3, <2>7, <2>8, <2>9, <2>10, <2>11, TouchUse
<1>5. CASE block[x0].lock
  <2>1. Goes(t, "tail", th[t].it) /\ lru' = ToFront(x0) /\ block' = block
    <3>1. lru' = ToFront(x0) /\ block' = block /\ Goto(t, "tail")
      BY <1>2, <1>5 DEF TryTail
    <3>2. "tail" \in Label
      BY DEF Label
    <3> QED BY <3>1, <3>2, GotoMoves
  <2>2. (\A x \in Blocks \ {x0} : SameHead(x)) /\ \A x : KeptUse(x)
    BY <2>1 DEF SameHead, KeptUse
  <2>3. "tail" \notin Active \ {"unchain"} /\ "tail" # "try" /\ "tail" # "unchain"
    BY DEF Active
  <2> QED BY <1>4, <2>1, <2>2, <2>3
<1>6. CASE ~block[x0].lock
  <2>1. /\ Goes(t, "unchain", th[t].it) /\ lru' = lru
        /\ block' = [block EXCEPT ![x0] = [block[x0] EXCEPT !.lock = TRUE]]
    <3>1. /\ block' = [block EXCEPT ![x0] = [block[x0] EXCEPT !.lock = TRUE]]
          /\ lru' = lru /\ Goto(t, "unchain")
      BY <1>2, <1>6 DEF TryTail
    <3>2. "unchain" \in Label
      BY DEF Label
    <3> QED BY <3>1, <3>2, GotoMoves
  <2>2. /\ \A x \in Blocks \ {x0} : SameHead(x)
        /\ block'[x0] = [block[x0] EXCEPT !.lock = TRUE]
    BY <1>3, <2>1, OneHeader
  <2>3. \A u \in Threads : ~Uses(u, x0)
    BY <1>6, UnlockedUnused
  <2>4. block[x0].state = "-" /\ x0 \notin leaked
    BY <1>3, <1>6 DEF ItemOk
  <2>5. /\ block'[x0].lock /\ block'[x0].state = "-"
        /\ block'[x0].frags = block[x0].frags
    BY <1>3, <2>2, <2>4, HeaderTypes DEF Header
  <2>6. \A x : Uses(t, x) => KeptUse(x)
    <3> SUFFICES ASSUME NEW x, Uses(t, x) PROVE KeptUse(x)
      OBVIOUS
    <3>1. x # x0 /\ x \in Blocks
      BY <2>3, UsedItems
    <3> QED BY <2>2, <3>1 DEF SameHead
  <2>7. "unchain" \notin Active \ {"unchain"} /\ "unchain" # "try"
    OBVIOUS
  <2> QED BY <1>4, <2>1, <2>2, <2>3, <2>4, <2>5, <2>6, <2>7
<1> QED BY <1>5, <1>6

LEMMA LinksOnly ==
    ASSUME TInv, NEW p, NEW n, block' = Unlinked(p, n) \/ block' = LinkedBefore(p, n)
    PROVE  \A x \in Blocks : SameHead(x)
<1> SUFFICES ASSUME NEW x \in Blocks PROVE SameHead(x)
  OBVIOUS
<1>1. PICK a, b : block'[x] \in {block[x], [block[x] EXCEPT !.next = a],
                                 [block[x] EXCEPT !.prev = b]}
  <2>1. CASE block' = Unlinked(p, n)
    BY <2>1 DEF Unlinked
  <2>2. CASE block' = LinkedBefore(p, n)
    BY <2>2 DEF LinkedBefore
  <2> QED BY <2>1, <2>2
<1>2. block[x] \in Header
  BY HeaderTypes
<1> QED BY <1>1, <1>2 DEF SameHead, KeptUse, Header

LEMMA UnchainUses ==
    ASSUME TInv, UInv, NEW t \in Threads, Unchain(t), NotAstray'
    PROVE  UInv'
<1>1. /\ th[t].pc = "unchain" /\ UNCHANGED <<lru, free, leaked>>
      /\ Goes(t, "reclaim", th[t].it)
  BY UnchainDoes
<1>2. PICK x0 : x0 = th[t].got
  OBVIOUS
<1>3. /\ x0 \in Linked /\ x0 \notin leaked /\ x0 \in ToSet(lru)
      /\ block[x0].state = "-" /\ \A u \in Threads \ {t} : ~Uses(u, x0)
  <2>1. UserOf(t)
    BY DEF UInv
  <2>2. \A u \in Threads \ {t} : ~Uses(u, x0)
    BY <1>1, <1>2, EvictorAlone DEF At
  <2> QED BY <1>1, <1>2, <2>1, <2>2 DEF UserOf, At
<1>4. \A x \in Blocks : SameHead(x)
  <2>1. block' = Unlinked(block[x0].prev, block[x0].next)
    BY <1>2 DEF Unchain
  <2> QED BY <2>1, LinksOnly
<1>5. x0 \in Blocks
  BY <1>3, LinkedBlocks
<1>6. /\ Moved(t) /\ th'[t].pc = "reclaim" /\ th'[t].mine = th[t].mine
      /\ th'[t].as = th[t].as /\ th'[t].key = th[t].key /\ th'[t].got = x0
  BY <1>1, <1>2 DEF Goes, Moves, SameItems
<1>7. Overwrites(t)' = Overwrites(t) /\ ~Reads(t) /\ ~Reads(t)'
  BY <1>1, <1>6 DEF Overwrites, Reads
<1>8. Overwrites(t) => th[t].mine # x0
  BY <1>3 DEF UInv, UserOf
<1>9. TouchesOnly(t, x0)
  <2>1. \A x : x # x0 => (Uses(t, x)' <=> Uses(t, x))
    BY <1>1, <1>2, <1>6, <1>7 DEF Uses, At
  <2>2. th[t].pc # "fill" /\ th'[t].pc # "fill"
    BY <1>1, <1>6
  <2>3. block'[x0].frags = block[x0].frags
    BY <1>4, <1>5 DEF SameHead
  <2> QED BY <1>1, <1>3, <1>4, <1>6, <1>7, <2>1, <2>2, <2>3 DEF TouchesOnly
<1>10. Linked' = Linked \ {x0}
  <2>1. \A u \in Threads : ~At(u, "reclaim")
    BY <1>1, OneEvictor DEF At, Evicting, Choosing
  <2>2. {u \in Threads : At(u, "reclaim")} = {}
    BY <2>1
  <2>3. {u \in Threads : At(u, "reclaim")'} = {t}
    BY <1>6, <2>1 DEF Moved, At
  <2>4. {th'[u].got : u \in {v \in Threads : At(v, "reclaim")'}} = {x0}
    BY <1>6, <2>3
  <2> QED BY <1>1, <2>2, <2>4 DEF Linked
<1>11. th[t].mine # NULL => KeptUse(th[t].mine)
  BY <1>4, PointerTypes DEF SameHead
<1>12. Overwrites(t) => th[t].mine \in Linked'
  BY <1>8, <1>10 DEF UInv, UserOf
<1>13. /\ FreshOf(t)'
       /\ Overwrites(t)' => /\ th'[t].mine \in Linked'
                            /\ Bucket(block'[th'[t].mine].hv) = B(t)'
                            /\ block'[th'[t].mine].lock
                            /\ block'[th'[t].mine].state = "w"
       /\ th'[t].as = "over" => th'[t].mine # NULL
  BY <1>1, <1>6, <1>11, <1>12, KeepsMine
<1>14. UserOf(t)'
  <2>1. th'[t].got \in ToSet(lru')
    BY <1>1, <1>3, <1>6
  <2>2. th'[t].pc \notin {"own", "unchain"}
    BY <1>6
  <2> QED BY <1>7, <1>13, <2>1, <2>2 DEF UserOf, At
<1>15. /\ x0 \notin Linked' /\ x0 \notin leaked' /\ th'[t].pc # "unchain"
       /\ Linked' \ {x0} = Linked \ {x0} /\ leaked' \ {x0} = leaked \ {x0}
  BY <1>1, <1>3, <1>6, <1>10
<1> QED BY <1>3, <1>9, <1>13, <1>14, <1>15, TouchUse

LEMMA FinishOverwriteUses ==
    ASSUME TInv, UInv, NEW t \in Threads, FinishOverwrite(t), NotAstray'
    PROVE  UInv'
<1>1. th[t].pc = "finish" /\ UNCHANGED <<free, leaked>> /\ Returns(t)
  BY FinishOverwriteDoes
<1>2. PICK x0 : x0 = th[t].mine
  OBVIOUS
<1>3. th[t].as = "over"
  BY DEF FinishOverwrite
<1>4. Overwrites(t) /\ x0 \in Linked /\ block[x0].state = "w"
  BY <1>2, <1>3 DEF UInv, UserOf, Overwrites
<1>5. /\ x0 \in Blocks /\ x0 \notin leaked /\ ItemOk(x0)
      /\ \A u \in Threads \ {t} : ~Uses(u, x0)
  BY <1>2, <1>4, LinkedBlocks, WriterAlone DEF UInv, ItemUse, ItemOk
<1>6. /\ \A x \in Blocks \ {x0} : SameHead(x)
      /\ block'[x0] = [block[x0] EXCEPT !.state = "-", !.lock = FALSE]
  BY <1>2, <1>5, OneHeader DEF FinishOverwrite
<1>7. ~block'[x0].lock /\ block'[x0].state = "-" /\ block'[x0].frags = block[x0].frags
  BY <1>5, <1>6, HeaderTypes DEF Header
<1>8. /\ Moved(t) /\ th'[t].mine = NULL /\ th'[t].pc = "idle" /\ th'[t].as # "over"
      /\ ~Reads(t) /\ ~Reads(t)' /\ ~Overwrites(t)' /\ ~Fresh(t)'
  BY <1>1 DEF Returns, Idle, Reads, Overwrites, Fresh
<1>9. TouchesOnly(t, x0)
  <2>1. \A x : x # x0 => (Uses(t, x)' <=> Uses(t, x))
    BY <1>1, <1>2, <1>8 DEF Uses, At
  <2>2. lru' = ToFront(x0) /\ th[t].pc # "fill" /\ th'[t].pc # "fill"
    BY <1>1, <1>2, <1>8 DEF FinishOverwrite
  <2> QED BY <1>1, <1>2, <1>4, <1>6, <1>7, <1>8, <2>1, <2>2 DEF TouchesOnly
<1>10. Linked' = Linked
  <2>1. ToSet(lru') = ToSet(lru)
    BY <1>9, TouchedLists
  <2> QED BY <1>1, <1>8, <2>1, SameLinked
<1>11. UserOf(t)' /\ FreshOf(t)'
  BY <1>8 DEF UserOf, FreshOf, At
<1>12. ItemOk(x0)' /\ x0 \notin leaked' /\ th'[t].pc # "unchain"
  BY <1>1, <1>5, <1>7, <1>8 DEF ItemOk
<1> QED BY <1>1, <1>5, <1>9, <1>10, <1>11, <1>12, TouchUse

\* The linked items and their maker's.
LEMMA NewLinked ==
    ASSUME TInv, UInv, NEW t \in Threads, NEW x0, x0 = th[t].mine, Fresh(t),
           th[t].pc = "finish", Moved(t), th'[t].pc \in {"publish", "idle"},
           lru' = ToFront(x0)
    PROVE  /\ Linked' = Linked \cup {x0} /\ x0 \notin Linked /\ x0 \in Blocks
           /\ ToSet(lru') = ToSet(lru) \cup {x0} /\ lru' \in Seq(Blocks)
           /\ IsInjective(lru') /\ x0 \notin ToSet(lru)
<1>2. FreshOf(t) /\ x0 \notin ToSet(lru) /\ x0 \in Blocks
  BY PointerTypes DEF UInv, FreshOf, Fresh
<1>3. lru \in Seq(Blocks) /\ IsInjective(lru)
  BY StateTypes DEF UInv, Placed
<1>4. /\ ToSet(lru') = ToSet(lru) \cup {x0} /\ lru' \in Seq(Blocks)
      /\ IsInjective(lru')
  BY <1>2, <1>3, ToFrontFacts
<1>7. Linked' = Linked \cup {x0}
  <2> DEFINE R == {u \in Threads : At(u, "reclaim")}
  <2>1. R' = R /\ t \notin R
    BY DEF Moved, At
  <2>2. \A u \in R : th'[u].got = th[u].got /\ th[u].got # x0
    <3> SUFFICES ASSUME NEW u \in R PROVE th'[u].got = th[u].got /\ th[u].got # x0
      OBVIOUS
    <3>1. UserOf(u)
      BY DEF UInv
    <3> QED BY <1>2, <2>1, <3>1 DEF Moved, UserOf, At
  <2>3. {th'[u].got : u \in R'} = {th[u].got : u \in R}
    BY <2>1, <2>2
  <2> QED BY <1>4, <2>2, <2>3 DEF Linked
<1>8. x0 \notin Linked
  BY <1>2, LinkedBlocks
<1> QED BY <1>2, <1>4, <1>7, <1>8

\* A new item goes into the table.
LEMMA NewItemUse ==
    ASSUME TInv, UInv, NEW t \in Threads, NEW x0, x0 = th[t].mine, Fresh(t), NotAstray',
           th[t].pc = "finish", Moved(t), th'[t].pc \in {"publish", "idle"},
           th'[t].mine = NULL, th'[t].as # "over", lru' = ToFront(x0),
           UNCHANGED <<free, leaked>>, \A x \in Blocks : SameHead(x)
    PROVE  UInv'
<1>1. FreshOf(t) /\ UserOf(t) /\ Placed /\ ItemUse
  BY DEF UInv
<1>2. /\ x0 \notin ToSet(lru) /\ x0 \in Blocks /\ x0 # NULL /\ x0 \notin Linked
      /\ ~block[x0].lock /\ block[x0].state = "-" /\ x0 \notin leaked /\ x0 \in Items
  BY <1>1, PointerTypes, LinkedBlocks DEF FreshOf, Fresh, ItemUse
<1>3. lru \in Seq(Blocks) /\ IsInjective(lru)
  BY <1>1, StateTypes DEF Placed
<1>4. /\ ToSet(lru') = ToSet(lru) \cup {x0} /\ lru' \in Seq(Blocks)
      /\ IsInjective(lru')
  BY <1>2, <1>3, ToFrontFacts
<1>5. Items' = Items
  <2>1. ToSet(lru') \cup {th'[t].mine} \cup {NULL} = ToSet(lru) \cup {th[t].mine} \cup {NULL}
    BY <1>4
  <2> QED BY <1>4, <2>1, SameItemSet
<1>6. Placed'
  <2>1. \A x \in Items : block'[x].frags = block[x].frags
    BY LinkedBlocks DEF SameHead
  <2>2. th[t].pc # "fill" /\ th'[t].pc # "fill"
    OBVIOUS
  <2> QED BY <1>4, <1>5, <2>1, <2>2, PlacedSame
<1>7. Linked' = Linked \cup {x0}
  BY NewLinked
<1>8. \A u \in Threads : ~Uses(u, x0)
  BY <1>2, UnlinkedUnused
<1>9. \A u \in Threads \ {t} : UserOf(u)' /\ FreshOf(u)'
  <2>1. \A x \in Items \ {x0} : KeptUse(x)
    BY LinkedBlocks DEF SameHead
  <2>2. \A u \in Threads \ {t} : Fresh(u) => th[u].mine # x0 /\ th'[t].mine # th[u].mine
    BY <1>1, <1>2 DEF FreshOf, Fresh
  <2>3. th'[t].pc # "unchain"
    OBVIOUS
  <2>4. Linked \ {x0} \subseteq Linked' /\ leaked' \subseteq leaked \cup {x0}
        /\ x0 \notin leaked'
    BY <1>2, <1>7
  <2>5. ToSet(lru) \subseteq ToSet(lru') /\ ToSet(lru') \subseteq ToSet(lru) \cup {th[t].mine}
    BY <1>4
  <2> QED BY <1>8, <2>1, <2>2, <2>3, <2>4, <2>5, OthersKeep
<1>10. ~Reads(t) /\ ~Reads(t)' /\ ~Overwrites(t) /\ ~Overwrites(t)' /\ ~Fresh(t)'
  BY DEF Reads, Overwrites, Fresh
<1>11. ItemUse'
  <2>1. \A x \in Linked \ {x0} : KeptUse(x) /\ block'[x].readers = block[x].readers
    BY LinkedBlocks DEF SameHead
  <2>2. Linked' \ {x0} \subseteq Linked /\ leaked' \subseteq Linked' /\ x0 \notin leaked'
    BY <1>1, <1>2, <1>7 DEF ItemUse
  <2>3. \A x : Uses(t, x)' = Uses(t, x)
    BY <1>10 DEF Uses, At
  <2>4. \A x : (Reads(t) /\ th[t].it = x)' = (Reads(t) /\ th[t].it = x)
    BY <1>10
  <2>5. ItemOk(x0)'
    <3>1. ~block'[x0].lock /\ block'[x0].state = "-"
      BY <1>2 DEF SameHead, KeptUse
    <3> QED BY <2>2, <3>1 DEF ItemOk
  <2> QED BY <2>1, <2>2, <2>3, <2>4, <2>5, ItemsKeep
<1>12. UserOf(t)' /\ FreshOf(t)'
  BY <1>10 DEF UserOf, FreshOf, At
<1> QED BY <1>6, <1>9, <1>11, <1>12 DEF UInv

LEMMA FinishFirstUses ==
    ASSUME TInv, UInv, NEW t \in Threads, FinishFirst(t), NotAstray'
    PROVE  UInv'
<1>1. /\ th[t].pc = "finish" /\ UNCHANGED <<block, free, leaked>>
      /\ Moves(t, "publish") /\ th'[t].mine = NULL /\ th'[t].as = th[t].as
  BY FinishFirstDoes
<1>2. th[t].as = "first" /\ lru' = ToFront(th[t].mine)
  BY DEF FinishFirst
<1>3. th[t].mine # NULL
  BY <1>1, ThreadTypes DEF PointersOf
<1>4. Fresh(t) /\ th'[t].as # "over" /\ Moved(t) /\ th'[t].pc = "publish"
  BY <1>1, <1>2, <1>3 DEF Fresh, Moves
<1> QED BY <1>1, <1>2, <1>4, Unmoved, NewItemUse

LEMMA FinishInsertUses ==
    ASSUME TInv, UInv, NEW t \in Threads, FinishInsert(t), NotAstray'
    PROVE  UInv'
<1>1. th[t].pc = "finish" /\ UNCHANGED <<free, leaked>> /\ Returns(t)
  BY FinishInsertDoes DEF FinishInsert
<1>2. /\ th[t].as = "insert" /\ lru' = ToFront(th[t].mine)
      /\ block' = LinkedBefore(th[t].mine, chain[B(t)])
  BY DEF FinishInsert
<1>3. th[t].mine # NULL
  BY <1>1, ThreadTypes DEF PointersOf
<1>4. /\ Fresh(t) /\ th'[t].as # "over" /\ Moved(t) /\ th'[t].pc = "idle"
      /\ th'[t].mine = NULL
  BY <1>1, <1>2, <1>3 DEF Fresh, Returns, Idle
<1>5. \A x \in Blocks : SameHead(x)
  BY <1>2, LinksOnly
<1> QED BY <1>1, <1>2, <1>4, <1>5, NewItemUse
-----------------------------------------------------------------------------
(* Steps that move blocks. *)

\* They leave alone what is linked and what the others have made.
LEMMA ApartUse ==
    ASSUME TInv, UInv, NEW t \in Threads, NEW x0, Moved(t),
           x0 \notin Linked, \A u \in Threads \ {t} : Fresh(u) => th[u].mine # x0,
           \A x \in Items \ {x0} : KeptUse(x),
           \A x \in Linked : block'[x].readers = block[x].readers,
           Linked' = Linked, leaked' = leaked, ToSet(lru') \subseteq ToSet(lru),
           \/ ToSet(lru) \subseteq ToSet(lru')
           \/ \A u \in Threads \ {t} : th[u].pc \notin Evicting,
           th[t].pc \in {"pop", "fill", "drop", "reclaim"},
           th'[t].pc \notin {"own", "leave", "copy", "pass", "unchain"},
           \/ th'[t].mine = th[t].mine /\ th'[t].as = th[t].as
           \/ th[t].mine = NULL /\ th'[t].mine \notin Items /\ th'[t].as = th[t].as
    PROVE  ItemUse' /\ \A u \in Threads \ {t} : UserOf(u)' /\ FreshOf(u)'
<1>1. UserOf(t) /\ FreshOf(t) /\ ItemUse
  BY DEF UInv
<1>2. \A u \in Threads \ {t} : Fresh(u) => th[u].mine # x0 /\ th'[t].mine # th[u].mine
  <2> SUFFICES ASSUME NEW u \in Threads \ {t}, Fresh(u)
               PROVE  th'[t].mine # th[u].mine
    OBVIOUS
  <2>1. th[u].mine # th[t].mine /\ th[u].mine \in Items
    BY LinkedBlocks DEF UInv, FreshOf, Fresh
  <2> QED BY <2>1
<1>3. \A u \in Threads : ~Uses(u, x0)
  BY UnlinkedUnused
<1>4. x0 \notin leaked'
  BY <1>1 DEF ItemUse
<1>5. \A u \in Threads \ {t} : UserOf(u)' /\ FreshOf(u)'
  <2>1. th'[t].pc # "unchain"
    OBVIOUS
  <2>2. Linked \ {x0} \subseteq Linked' /\ leaked' \subseteq leaked \cup {x0}
        /\ ToSet(lru') \subseteq ToSet(lru) \cup {th[t].mine}
    OBVIOUS
  <2> QED BY <1>2, <1>3, <1>4, <2>1, <2>2, OthersKeep
<1>6. Overwrites(t)' <=> Overwrites(t)
  BY <1>1 DEF Overwrites, UserOf
<1>7. \A x \in Linked : Uses(t, x)' = Uses(t, x)
  <2>1. Overwrites(t) => th'[t].mine = th[t].mine
    BY DEF Overwrites
  <2> QED BY <1>6, <2>1 DEF Uses, Reads, At
<1>8. \A x \in Linked : (Reads(t) /\ th[t].it = x)' = (Reads(t) /\ th[t].it = x)
  BY DEF Reads
<1>9. \A x \in Linked \ {x0} : KeptUse(x) /\ block'[x].readers = block[x].readers
  BY LinkedBlocks
<1>10. ItemUse'
  <2>1. leaked' \subseteq Linked'
    BY <1>1 DEF ItemUse
  <2> QED BY <1>7, <1>8, <1>9, <2>1, ItemsKeep
<1> QED BY <1>5, <1>10

LEMMA TakesInHand ==
    ASSUME NEW t \in Threads, Moved(t), th[t].pc # "fill", th'[t].pc = "fill"
    PROVE  /\ InHand' = InHand \cup {t} /\ t \notin InHand
           /\ \A u \in InHand : th'[u].got = th[u].got
BY DEF InHand, Moved, At

LEMMA LetsGo ==
    ASSUME NEW t \in Threads, Moved(t), th[t].pc = "fill", th'[t].pc # "fill"
    PROVE  /\ InHand' = InHand \ {t} /\ t \in InHand
           /\ \A u \in InHand' : th'[u].got = th[u].got
BY DEF InHand, Moved, At

LEMMA PopUses ==
    ASSUME TInv, UInv, NEW t \in Threads, Pop(t), NotAstray'
    PROVE  UInv'
<1>1. /\ th[t].pc = "pop" /\ UNCHANGED <<lru, leaked>>
      /\ \/ Goes(t, "crash", th[t].it) /\ UNCHANGED <<free, block>>
         \/ /\ Moves(t, "fill") /\ th'[t].got = Head(free)
            /\ th'[t].as = th[t].as /\ th'[t].mine = th[t].mine
            /\ free # << >> /\ Head(free) \in Blocks
  BY PopDoes
<1>2. CASE Goes(t, "crash", th[t].it) /\ UNCHANGED <<free, block>>
  BY <1>1, <1>2, Unmoved, QuietGoes DEF Active
<1>3. CASE /\ Moves(t, "fill") /\ th'[t].got = Head(free)
           /\ th'[t].as = th[t].as /\ th'[t].mine = th[t].mine
           /\ free # << >> /\ Head(free) \in Blocks
  <2>1. PICK h \in Blocks : h = Head(free)
    BY <1>3
  <2>2. /\ free' = Tail(free) /\ block' = [block EXCEPT ![h] = Zero]
    BY <1>3, <2>1 DEF Pop
  <2>3. Placed /\ IsInjective(free) /\ IsInjective(lru) /\ free \in Seq(Blocks)
    BY StateTypes DEF UInv, Placed
  <2>4. /\ ToSet(free) = ToSet(free') \cup {h} /\ h \notin ToSet(free')
        /\ IsInjective(free')
    BY <1>3, <2>1, <2>2, <2>3, TailFacts
  <2>5. h \notin Items /\ ~IsFragment(h) /\ ~IsInHand(h)
    BY <2>3, <2>4 DEF Placed
  <2>6. \A x \in Blocks \ {h} : SameHead(x)
    BY <2>1, <2>2, OneHeader
  <2>7. /\ Moved(t) /\ th'[t].pc = "fill" /\ th'[t].got = h
        /\ th'[t].key = th[t].key
    BY <1>3, <2>1 DEF Moves
  <2>8. Linked' = Linked
    BY <1>1, <2>7, SameLinked
  <2>9. ItemUse' /\ \A u \in Threads \ {t} : UserOf(u)' /\ FreshOf(u)'
    <3>1. \A x \in Items : KeptUse(x)
      BY <2>5, <2>6, LinkedBlocks DEF SameHead
    <3>2. \A x \in Linked : block'[x].readers = block[x].readers
      BY <2>5, <2>6, LinkedBlocks DEF SameHead
    <3>3. NULL \notin Linked /\ \A u \in Threads \ {t} : Fresh(u) => th[u].mine # NULL
      BY LinkedBlocks DEF Fresh
    <3>4. ToSet(lru') = ToSet(lru) /\ leaked' = leaked
      BY <1>1
    <3>5. th[t].pc \in {"pop", "fill", "drop", "reclaim"}
          /\ th'[t].pc \notin {"own", "leave", "copy", "pass", "unchain"}
      BY <1>1, <2>7
    <3> QED BY <1>3, <2>7, <2>8, <3>1, <3>2, <3>3, <3>4, <3>5, ApartUse
  <2>10. UserOf(t)' /\ FreshOf(t)'
    <3>1. th[t].mine # NULL => KeptUse(th[t].mine)
      BY <2>5, <2>6, LinkedBlocks DEF SameHead
    <3>2. Overwrites(t) => th[t].mine \in Linked'
      BY <2>8 DEF UInv, UserOf
    <3>3. /\ FreshOf(t)'
          /\ Overwrites(t)' => /\ th'[t].mine \in Linked'
                               /\ Bucket(block'[th'[t].mine].hv) = B(t)'
                               /\ block'[th'[t].mine].lock
                               /\ block'[th'[t].mine].state = "w"
          /\ th'[t].as = "over" => th'[t].mine # NULL
      BY <1>1, <1>3, <2>7, <3>1, <3>2, KeepsMine
    <3> QED BY <2>7, <3>3 DEF UserOf, Reads, At
  <2>11. Items' = Items
    BY <1>1, <1>3, <2>7, StateTypes, SameItemSet
  <2>12. \A x \in Items : block'[x].frags = block[x].frags
    BY <2>5, <2>6, LinkedBlocks DEF SameHead
  <2>13. \A y : IsFragment(y)' <=> IsFragment(y)
    BY <2>11, <2>12 DEF IsFragment, Fragments
  <2>14. \A y : IsInHand(y)' <=> IsInHand(y) \/ y = h
    <3>1. /\ InHand' = InHand \cup {t} /\ t \notin InHand
          /\ \A u \in InHand : th'[u].got = th[u].got
      BY <1>1, <2>7, TakesInHand
    <3> QED BY <2>7, <3>1 DEF IsInHand
  <2>15. \A u, v \in InHand' : u # v => th'[u].got # th'[v].got
    <3>1. /\ InHand' = InHand \cup {t} /\ t \notin InHand
          /\ \A u \in InHand : th'[u].got = th[u].got
      BY <1>1, <2>7, TakesInHand
    <3>2. \A u \in InHand : th[u].got # h
      BY <2>5 DEF IsInHand
    <3>3. \A u, v \in InHand : u # v => th[u].got # th[v].got
      BY <2>3 DEF Placed
    <3> QED BY <2>7, <3>1, <3>2, <3>3
  <2>16. Placed'
    <3>1. \A x, y \in Items' : x # y => \A z \in Fragments(x)' : z \notin Fragments(y)'
      BY <2>3, <2>11, <2>12 DEF Placed, Fragments
    <3>2. \A x \in Items' : IsInjective(block'[x].frags)
      BY <2>3, <2>11, <2>12 DEF Placed
    <3>3. IsInjective(lru')
      BY <1>1, <2>3
    <3>4. \A y \in Blocks :
            /\ y \in ToSet(free') \/ y \in Items' \/ IsFragment(y)' \/ IsInHand(y)'
            /\ y \in ToSet(free') => y \notin Items' /\ ~IsFragment(y)' /\ ~IsInHand(y)'
            /\ y \in Items' => ~IsFragment(y)' /\ ~IsInHand(y)'
            /\ IsFragment(y)' => ~IsInHand(y)'
      BY <2>3, <2>4, <2>5, <2>11, <2>13, <2>14 DEF Placed
    <3> QED BY <2>4, <2>15, <3>1, <3>2, <3>3, <3>4 DEF Placed
  <2> QED BY <2>9, <2>10, <2>16 DEF UInv
<1> QED BY <1>1, <1>2, <1>3

\* The block in hand is nowhere else.
LEMMA InHandApart ==
    ASSUME TInv, UInv, NEW t \in Threads, th[t].pc = "fill", NEW g, g = th[t].got
    PROVE  /\ g \in Blocks /\ g \notin ToSet(free) /\ g \notin Items /\ g \notin ToSet(lru)
           /\ ~IsFragment(g) /\ t \in InHand
           /\ \A u \in InHand : u # t => th[u].got # g
<1>1. t \in InHand /\ IsInHand(g)
  BY DEF InHand, At, IsInHand
<1>2. g \in Blocks
  BY PointerTypes
<1>3. Placed
  BY DEF UInv
<1>4. ToSet(lru) \subseteq Items
  BY LinkedBlocks
<1> QED BY <1>1, <1>2, <1>3, <1>4 DEF Placed

LEMMA FillItemUses ==
    ASSUME TInv, UInv, NEW t \in Threads, FillItem(t), NotAstray'
    PROVE  UInv'
<1>1. /\ th[t].pc = "fill" /\ UNCHANGED <<lru, free, leaked>>
      /\ Moves(t, th'[t].pc) /\ th'[t].pc \in {"room", "drop", "finish"}
      /\ th'[t].mine = th[t].got /\ th'[t].as = th[t].as
  BY FillItemDoes
<1>2. PICK g : g = th[t].got
  OBVIOUS
<1>3. /\ g \in Blocks /\ g \notin ToSet(free) /\ g \notin Items /\ g \notin ToSet(lru)
      /\ ~IsFragment(g) /\ t \in InHand
      /\ \A u \in InHand : u # t => th[u].got # g
  BY <1>1, <1>2, InHandApart
<1>4. Placed /\ IsInjective(free) /\ IsInjective(lru) /\ free \in Seq(Blocks)
  BY StateTypes DEF UInv, Placed
<1>5. /\ \A x \in Blocks \ {g} : SameHead(x)
      /\ block'[g] = [Zero EXCEPT !.hv = Hv(t), !.key = th[t].key, !.size = 1,
                                  !.ver = th[t].ver]
  BY <1>2, <1>3, OneHeader DEF FillItem
<1>6. /\ block'[g].hv = Hv(t) /\ block'[g].key = th[t].key /\ ~block'[g].lock
      /\ block'[g].state = "-" /\ block'[g].frags = << >>
  BY <1>5 DEF Zero
<1>7. /\ Moved(t) /\ th'[t].key = th[t].key /\ th'[t].mine = g /\ th[t].mine = NULL
      /\ Hv(t)' = Hv(t)
  BY <1>1, <1>2 DEF Moves, Hv, FillItem
<1>8. th[t].as # "over"
  BY <1>7 DEF UInv, UserOf
<1>9. Linked' = Linked
  BY <1>1, <1>7, SameLinked
<1>10. ItemUse' /\ \A u \in Threads \ {t} : UserOf(u)' /\ FreshOf(u)'
  <2>1. \A x \in Items : KeptUse(x)
    BY <1>3, <1>5, LinkedBlocks DEF SameHead
  <2>2. \A x \in Linked : block'[x].readers = block[x].readers
    BY <1>3, <1>5, LinkedBlocks DEF SameHead
  <2>3. NULL \notin Linked /\ \A u \in Threads \ {t} : Fresh(u) => th[u].mine # NULL
    BY LinkedBlocks DEF Fresh
  <2>4. ToSet(lru') = ToSet(lru) /\ leaked' = leaked
    BY <1>1
  <2>5. th[t].pc \in {"pop", "fill", "drop", "reclaim"}
        /\ th'[t].pc \notin {"own", "leave", "copy", "pass", "unchain"}
    BY <1>1
  <2>6. th[t].mine = NULL /\ th'[t].mine \notin Items /\ th'[t].as = th[t].as
    BY <1>1, <1>3, <1>7
  <2> QED BY <1>7, <1>9, <2>1, <2>2, <2>3, <2>4, <2>5, <2>6, ApartUse
<1>11. UserOf(t)'
  BY <1>1, <1>8 DEF UserOf, Reads, Overwrites, At
<1>12. FreshOf(t)'
  <2>1. \A u \in Threads : u # t => th'[u].mine # g
    <3> SUFFICES ASSUME NEW u \in Threads, u # t PROVE th[u].mine # g
      BY <1>7 DEF Moved
    <3>1. th[u].mine # NULL => th[u].mine \in Items
      BY LinkedBlocks
    <3> QED BY <1>3, <3>1, KeyTypes
  <2> QED BY <1>1, <1>3, <1>6, <1>7, <2>1 DEF FreshOf
<1>13. Items' = Items \cup {g}
  <2>1. Items' \cup {NULL} = ToSet(lru') \cup {th'[t].mine, NULL}
                                  \cup {th[u].mine : u \in Threads \ {t}}
    BY <1>7, ItemsAre
  <2>2. Items \cup {NULL} = ToSet(lru) \cup {th[t].mine, NULL}
                                  \cup {th[u].mine : u \in Threads \ {t}}
    BY DEF Items
  <2>3. NULL \notin Items /\ g # NULL /\ ToSet(lru) \subseteq Blocks
    BY <1>3, LinkedBlocks, KeyTypes
  <2>4. NULL \notin Items'
    BY <1>1, <2>3, KeyTypes DEF Items
  <2> QED BY <1>1, <1>7, <2>1, <2>2, <2>3, <2>4
<1>14. \A x \in Items : block'[x].frags = block[x].frags
  BY <1>3, <1>5, LinkedBlocks DEF SameHead
<1>15. /\ Fragments(g)' = {} /\ IsInjective(block'[g].frags)
       /\ \A x \in Items : Fragments(x)' = Fragments(x)
  BY <1>6, <1>14 DEF Fragments, ToSet, IsInjective
<1>16. \A y : IsFragment(y)' <=> IsFragment(y)
  BY <1>13, <1>15 DEF IsFragment
<1>17. /\ InHand' = InHand \ {t} /\ \A u \in InHand' : th'[u].got = th[u].got
  BY <1>1, <1>7, LetsGo
<1>18. \A y : IsInHand(y)' <=> IsInHand(y) /\ y # g
  BY <1>2, <1>3, <1>17 DEF IsInHand
<1>19. Placed'
  <2>1. \A x, y \in Items' : x # y => \A z \in Fragments(x)' : z \notin Fragments(y)'
    BY <1>4, <1>13, <1>15 DEF Placed
  <2>2. \A x \in Items' : IsInjective(block'[x].frags)
    BY <1>4, <1>13, <1>14, <1>15 DEF Placed
  <2>3. IsInjective(lru') /\ IsInjective(free')
    BY <1>1, <1>4
  <2>4. \A y \in Blocks :
          /\ y \in ToSet(free') \/ y \in Items' \/ IsFragment(y)' \/ IsInHand(y)'
          /\ y \in ToSet(free') => y \notin Items' /\ ~IsFragment(y)' /\ ~IsInHand(y)'
          /\ y \in Items' => ~IsFragment(y)' /\ ~IsInHand(y)'
          /\ IsFragment(y)' => ~IsInHand(y)'
    BY <1>1, <1>3, <1>4, <1>13, <1>16, <1>18 DEF Placed
  <2>5. \A u, v \in InHand' : u # v => th'[u].got # th'[v].got
    BY <1>4, <1>17 DEF Placed
  <2> QED BY <2>1, <2>2, <2>3, <2>4, <2>5 DEF Placed
<1> QED BY <1>10, <1>11, <1>12, <1>19 DEF UInv

LEMMA FillFragmentUses ==
    ASSUME TInv, UInv, NEW t \in Threads, FillFragment(t), NotAstray'
    PROVE  UInv'
<1>1. /\ th[t].pc = "fill" /\ UNCHANGED <<lru, free, leaked>>
      /\ Moves(t, th'[t].pc) /\ th'[t].pc \in {"room", "drop", "finish"}
      /\ th'[t].mine = th[t].mine /\ th'[t].as = th[t].as /\ th[t].mine # NULL
  BY FillFragmentDoes
<1>2. PICK g, m : g = th[t].got /\ m = th[t].mine
  OBVIOUS
<1>3. /\ g \in Blocks /\ g \notin ToSet(free) /\ g \notin Items /\ g \notin ToSet(lru)
      /\ ~IsFragment(g) /\ t \in InHand
      /\ \A u \in InHand : u # t => th[u].got # g
  BY <1>1, <1>2, InHandApart
<1>4. Placed /\ IsInjective(free) /\ IsInjective(lru) /\ free \in Seq(Blocks)
  BY StateTypes DEF UInv, Placed
<1>5. m \in Items /\ m \in Blocks /\ m # g /\ block[m] \in Header
      /\ block[m].frags \in Seq(Blocks)
  BY <1>1, <1>2, <1>3, LinkedBlocks, HeaderTypes
<1>6. PICK f, n : /\ f = Append(block[m].frags, g)
                  /\ block' = [block EXCEPT ![g].slock = FragBytes, ![m].frags = f,
                                            ![m].size = n]
  BY <1>2 DEF FillFragment
<1>7. /\ \A x \in Blocks \ {m} : SameHead(x)
      /\ KeptUse(m) /\ block'[m].readers = block[m].readers /\ block'[m].frags = f
  <2>1. block \in [Blocks -> Header]
    BY StateTypes
  <2>2. ASSUME NEW x \in Blocks \ {m} PROVE SameHead(x)
    <3>1. CASE x = g
      <4>1. block'[x] = [block[x] EXCEPT !.slock = FragBytes]
        BY <1>5, <1>6, <2>1, <3>1
      <4> QED BY <2>1, <4>1 DEF SameHead, KeptUse, Header
    <3>2. CASE x # g
      <4>1. block'[x] = block[x]
        BY <1>5, <1>6, <2>1, <3>2
      <4> QED BY <4>1 DEF SameHead, KeptUse
    <3> QED BY <3>1, <3>2
  <2>3. block'[m] = [block[m] EXCEPT !.frags = f, !.size = n]
    BY <1>3, <1>5, <1>6, <2>1
  <2>4. KeptUse(m) /\ block'[m].readers = block[m].readers /\ block'[m].frags = f
    BY <1>5, <2>3 DEF KeptUse, Header
  <2> QED BY <2>2, <2>4
<1>8. /\ Moved(t) /\ th'[t].key = th[t].key
  BY <1>1 DEF Moves
<1>9. Linked' = Linked
  BY <1>1, <1>8, SameLinked
<1>10. \A x \in Items : KeptUse(x) /\ block'[x].readers = block[x].readers
  BY <1>5, <1>7, LinkedBlocks DEF SameHead
<1>11. ItemUse' /\ \A u \in Threads \ {t} : UserOf(u)' /\ FreshOf(u)'
  <2>1. \A x \in Linked : block'[x].readers = block[x].readers
    BY <1>10, LinkedBlocks
  <2>3. NULL \notin Linked /\ \A u \in Threads \ {t} : Fresh(u) => th[u].mine # NULL
    BY LinkedBlocks DEF Fresh
  <2>4. ToSet(lru') = ToSet(lru) /\ leaked' = leaked
    BY <1>1
  <2>5. th[t].pc \in {"pop", "fill", "drop", "reclaim"}
        /\ th'[t].pc \notin {"own", "leave", "copy", "pass", "unchain"}
    BY <1>1
  <2> QED BY <1>1, <1>8, <1>9, <1>10, <2>1, <2>3, <2>4, <2>5, ApartUse
<1>12. UserOf(t)' /\ FreshOf(t)'
  <2>1. th[t].mine # NULL => KeptUse(th[t].mine)
    BY <1>2, <1>7
  <2>2. Overwrites(t) => th[t].mine \in Linked'
    BY <1>9 DEF UInv, UserOf
  <2>3. /\ FreshOf(t)'
        /\ Overwrites(t)' => /\ th'[t].mine \in Linked'
                             /\ Bucket(block'[th'[t].mine].hv) = B(t)'
                             /\ block'[th'[t].mine].lock
                             /\ block'[th'[t].mine].state = "w"
        /\ th'[t].as = "over" => th'[t].mine # NULL
    BY <1>1, <1>8, <2>1, <2>2, KeepsMine
  <2>4. th'[t].pc \notin {"own", "leave", "copy", "pass", "try", "unchain", "reclaim"}
    BY <1>1
  <2> QED BY <2>3, <2>4 DEF UserOf, Reads, At
<1>13. Items' = Items
  BY <1>1, <1>8, StateTypes, SameItemSet
<1>14. /\ Fragments(m)' = Fragments(m) \cup {g}
       /\ \A x \in Items \ {m} : Fragments(x)' = Fragments(x)
  <2>1. ToSet(f) = ToSet(block[m].frags) \cup {g}
    BY <1>3, <1>5, <1>6, Appended
  <2>2. \A x \in Items \ {m} : block'[x].frags = block[x].frags
    BY <1>7, LinkedBlocks DEF SameHead
  <2> QED BY <1>7, <2>1, <2>2 DEF Fragments
<1>15. \A x \in Items : IsInjective(block'[x].frags)
  <2>1. IsInjective(f)
    <3>1. IsInjective(block[m].frags) /\ g \notin ToSet(block[m].frags)
      BY <1>3, <1>4, <1>5 DEF Placed, IsFragment, Fragments
    <3> QED BY <1>3, <1>5, <1>6, <3>1, Appended
  <2>2. \A x \in Items \ {m} : block'[x].frags = block[x].frags
    BY <1>7, LinkedBlocks DEF SameHead
  <2> QED BY <1>4, <1>7, <2>1, <2>2 DEF Placed
<1>16. \A y : IsFragment(y)' <=> IsFragment(y) \/ y = g
  BY <1>5, <1>13, <1>14 DEF IsFragment
<1>17. /\ InHand' = InHand \ {t} /\ \A u \in InHand' : th'[u].got = th[u].got
  BY <1>1, <1>8, LetsGo
<1>18. \A y : IsInHand(y)' <=> IsInHand(y) /\ y # g
  BY <1>2, <1>3, <1>17 DEF IsInHand
<1>19. Placed'
  <2>1. \A x, y \in Items' : x # y => \A z \in Fragments(x)' : z \notin Fragments(y)'
    <3>1. \A x \in Items : g \notin Fragments(x)
      BY <1>3 DEF IsFragment
    <3> QED BY <1>4, <1>13, <1>14, <3>1 DEF Placed
  <2>2. \A x \in Items' : IsInjective(block'[x].frags)
    BY <1>13, <1>15
  <2>3. IsInjective(lru') /\ IsInjective(free')
    BY <1>1, <1>4
  <2>4. \A y \in Blocks :
          /\ y \in ToSet(free') \/ y \in Items' \/ IsFragment(y)' \/ IsInHand(y)'
          /\ y \in ToSet(free') => y \notin Items' /\ ~IsFragment(y)' /\ ~IsInHand(y)'
          /\ y \in Items' => ~IsFragment(y)' /\ ~IsInHand(y)'
          /\ IsFragment(y)' => ~IsInHand(y)'
    BY <1>1, <1>3, <1>4, <1>13, <1>16, <1>18 DEF Placed
  <2>5. \A u, v \in InHand' : u # v => th'[u].got # th'[v].got
    BY <1>4, <1>17 DEF Placed
  <2> QED BY <2>1, <2>2, <2>3, <2>4, <2>5 DEF Placed
<1> QED BY <1>11, <1>12, <1>19 DEF UInv

\* The fragments that are given back.
LEMMA GivesBack ==
    ASSUME TInv, UInv, NEW t \in Threads, GiveBack(t), th'[t].pc # "finish"
    PROVE  \E kept, extra \in Seq(Blocks) :
              /\ extra # << >> /\ IsInjective(kept) /\ IsInjective(extra)
              /\ ToSet(kept) \cap ToSet(extra) = {}
              /\ ToSet(kept) \cup ToSet(extra) = Fragments(th[t].mine)
              /\ Len(kept) = th[t].frags
              /\ Len(extra) = Len(block[th[t].mine].frags) - th[t].frags
              /\ th'[t].got = Head(extra) /\ th'[t].freed_tot = Len(extra)
              /\ block' = [Evicted(Head(extra), Tail(extra)) EXCEPT ![th[t].mine].frags = kept]
              /\ free' = extra \o free
              /\ Moves(t, "count")
              /\ th'[t].as = th[t].as /\ th'[t].mine = th[t].mine /\ th'[t].it = th[t].it
<1> DEFINE f == block[th[t].mine].frags
           kept == SubSeq(f, 1, th[t].frags)
           extra == SubSeq(f, th[t].frags + 1, Len(f))
<1>1. th[t].pc = "drop" /\ th[t].mine \in Items /\ th[t].mine \in Blocks
  <2>1. th[t].pc = "drop"
    BY GiveBackDoes
  <2> QED BY <2>1, PointerTypes, KeyTypes, LinkedBlocks
<1>2. f \in Seq(Blocks) /\ th[t].frags \in Nat /\ IsInjective(f)
  BY <1>1, HeaderTypes, ThreadTypes DEF UInv, Placed
<1>3. Len(f) \in Nat /\ th[t].frags + 1 \in Nat
      /\ \A i \in 1 .. Len(f) : f[i] \in Blocks
  BY <1>2
<1>4. extra # << >>
  <2> SUFFICES ASSUME extra = << >> PROVE FALSE
    OBVIOUS
  <2>1. Goto(t, "finish")
    BY DEF GiveBack
  <2> QED BY <2>1, StateTypes DEF Goto, Thread
<1>5. th[t].frags < Len(f)
  BY <1>2, <1>3, <1>4, SubSeqEmpty
<1>6. th[t].frags \in 0 .. Len(f)
  BY <1>2, <1>3, <1>5
<1>7. /\ kept \in Seq(Blocks) /\ extra \in Seq(Blocks)
      /\ Len(kept) = th[t].frags /\ Len(extra) = Len(f) - th[t].frags
      /\ IsInjective(kept) /\ IsInjective(extra)
      /\ ToSet(kept) \cap ToSet(extra) = {}
      /\ ToSet(kept) \cup ToSet(extra) = ToSet(f)
  BY <1>2, <1>6, Halves
<1>8. /\ th' = [th EXCEPT ![t] = [@ EXCEPT !.pc = "count", !.got = Head(extra),
                                          !.freed_tot = Len(extra)]]
      /\ block' = [Evicted(Head(extra), Tail(extra)) EXCEPT ![th[t].mine].frags = kept]
      /\ free' = extra \o free
  BY <1>4 DEF GiveBack
<1>9. ToSet(f) = Fragments(th[t].mine)
  BY DEF Fragments
<1> HIDE DEF f, kept, extra
<1>10. /\ th'[t].got = Head(extra) /\ th'[t].freed_tot = Len(extra)
       /\ th'[t].as = th[t].as /\ th'[t].mine = th[t].mine /\ th'[t].it = th[t].it
  BY <1>8, StateTypes DEF Thread
<1>11. Moves(t, "count")
  BY GiveBackDoes, <1>8 DEF Goes, Moves
<1> QED BY <1>4, <1>7, <1>8, <1>9, <1>10, <1>11 DEF f

\* Blocks that are cleared.
LEMMA EvictedApart ==
    ASSUME NEW s, s # << >>, NEW S, s \in Seq(S)
    PROVE  /\ \A y \in Blocks \ ToSet(s) : Evicted(Head(s), Tail(s))[y] = block[y]
           /\ Evicted(Head(s), Tail(s)) = [y \in Blocks |-> Evicted(Head(s), Tail(s))[y]]
<1>1. ToSet(s) = {Head(s)} \cup ToSet(Tail(s))
  BY TailFacts
<1> QED BY <1>1 DEF Evicted

\* The headers after fragments were given back: m keeps some of its fragments
\* and the extra ones are on the free list.
GivenBack(t, m, kept, extra) ==
    /\ m = th[t].mine /\ m \in Items /\ m # NULL /\ block[m] \in Header
    /\ extra # << >> /\ IsInjective(kept) /\ IsInjective(extra)
    /\ ToSet(kept) \cap ToSet(extra) = {}
    /\ ToSet(kept) \cup ToSet(extra) = Fragments(m)
    /\ \A y \in ToSet(extra) : IsFragment(y) /\ y \notin Items /\ y \in Blocks
                                /\ ~IsInHand(y) /\ y \notin ToSet(free)
    /\ \A x \in Blocks \ ToSet(extra) : x # m => block'[x] = block[x]
    /\ block'[m] = [block[m] EXCEPT !.frags = kept]
    /\ free' = extra \o free
    /\ th'[t].as = th[t].as /\ th'[t].mine = th[t].mine
    /\ Len(kept) = th[t].frags /\ Len(extra) = th'[t].freed_tot

LEMMA GiveBackHeads ==
    ASSUME TInv, UInv, NEW t \in Threads, GiveBack(t), th'[t].pc # "finish"
    PROVE  \E m \in Blocks, kept, extra \in Seq(Blocks) : GivenBack(t, m, kept, extra)
<1>1. PICK kept, extra \in Seq(Blocks) :
              /\ extra # << >> /\ IsInjective(kept) /\ IsInjective(extra)
              /\ ToSet(kept) \cap ToSet(extra) = {}
              /\ ToSet(kept) \cup ToSet(extra) = Fragments(th[t].mine)
              /\ block' = [Evicted(Head(extra), Tail(extra)) EXCEPT ![th[t].mine].frags = kept]
              /\ free' = extra \o free
              /\ th'[t].as = th[t].as /\ th'[t].mine = th[t].mine
              /\ Len(kept) = th[t].frags /\ Len(extra) = th'[t].freed_tot
  BY GivesBack
<1>2. PICK m : m = th[t].mine
  OBVIOUS
<1>3. m \in Items /\ m \in Blocks /\ m # NULL /\ block[m] \in Header
  <2>1. m \in Blocks
    BY <1>2, GiveBackDoes, PointerTypes
  <2> QED BY <1>2, <2>1, KeyTypes, LinkedBlocks, HeaderTypes
<1>4. Placed /\ IsInjective(free) /\ IsInjective(lru) /\ free \in Seq(Blocks)
  BY StateTypes DEF UInv, Placed
<1>5. \A y \in ToSet(extra) : IsFragment(y) /\ y \notin Items /\ y \in Blocks
                              /\ ~IsInHand(y) /\ y \notin ToSet(free)
  <2> SUFFICES ASSUME NEW y \in ToSet(extra)
               PROVE  IsFragment(y) /\ y \notin Items /\ y \in Blocks
                              /\ ~IsInHand(y) /\ y \notin ToSet(free)
    OBVIOUS
  <2>1. IsFragment(y)
    BY <1>1, <1>2, <1>3 DEF IsFragment
  <2>2. y \in Blocks
    BY ToSetFacts
  <2> QED BY <1>4, <2>1, <2>2 DEF Placed
<1>6. /\ \A x \in Blocks \ ToSet(extra) : x # m => block'[x] = block[x]
      /\ block'[m] = [block[m] EXCEPT !.frags = kept]
  <2> DEFINE e == Evicted(Head(extra), Tail(extra))
  <2>1. (\A y \in Blocks \ ToSet(extra) : e[y] = block[y]) /\ e = [y \in Blocks |-> e[y]]
    BY <1>1, EvictedApart
  <2>2. block' = [e EXCEPT ![m].frags = kept]
    BY <1>1, <1>2
  <2> HIDE DEF e
  <2> QED BY <1>3, <1>5, <2>1, <2>2
<1>7. GivenBack(t, m, kept, extra)
  BY <1>1, <1>2, <1>3, <1>5, <1>6 DEF GivenBack
<1> QED BY <1>3, <1>7

LEMMA GiveBackUses ==
    ASSUME TInv, UInv, NEW t \in Threads, GiveBack(t), NotAstray'
    PROVE  UInv'
<1>1. th[t].pc = "drop" /\ UNCHANGED <<lru, leaked>>
      /\ ((Goes(t, "finish", th[t].it) /\ UNCHANGED <<block, free>>) \/ Moves(t, "count"))
  BY GiveBackDoes
<1>2. CASE Goes(t, "finish", th[t].it) /\ UNCHANGED <<block, free>>
  BY <1>1, <1>2, Unmoved, QuietGoes DEF Active
<1>3. CASE Moves(t, "count")
  <2>0. th'[t].pc # "finish"
    BY <1>3 DEF Moves
  <2>3. PICK m \in Blocks, kept, extra \in Seq(Blocks) : GivenBack(t, m, kept, extra)
    BY <2>0, GiveBackHeads
  <2>1. /\ m = th[t].mine /\ m \in Items /\ m # NULL /\ block[m] \in Header
        /\ extra # << >> /\ IsInjective(kept) /\ IsInjective(extra)
        /\ ToSet(kept) \cap ToSet(extra) = {}
        /\ ToSet(kept) \cup ToSet(extra) = Fragments(m)
        /\ \A y \in ToSet(extra) : IsFragment(y) /\ y \notin Items /\ y \in Blocks
                                    /\ ~IsInHand(y) /\ y \notin ToSet(free)
        /\ \A x \in Blocks \ ToSet(extra) : x # m => block'[x] = block[x]
        /\ block'[m] = [block[m] EXCEPT !.frags = kept]
        /\ free' = extra \o free
        /\ th'[t].as = th[t].as /\ th'[t].mine = th[t].mine
    BY <2>3 DEF GivenBack
  <2>4. Placed /\ IsInjective(free) /\ IsInjective(lru) /\ free \in Seq(Blocks)
    BY StateTypes DEF UInv, Placed
  <2>7. \A x \in Items : KeptUse(x) /\ block'[x].readers = block[x].readers
    <3> SUFFICES ASSUME NEW x \in Items
                 PROVE  KeptUse(x) /\ block'[x].readers = block[x].readers
      OBVIOUS
    <3>1. CASE x = m
      BY <2>1, <3>1 DEF KeptUse, Header
    <3>2. CASE x # m
      <4>1. block'[x] = block[x]
        BY <2>1, <3>2, LinkedBlocks
      <4> QED BY <4>1 DEF KeptUse
    <3> QED BY <3>1, <3>2
  <2>8. /\ Moved(t) /\ th'[t].pc = "count" /\ th'[t].key = th[t].key
    BY <1>3 DEF Moves
  <2>9. Linked' = Linked
    BY <1>1, <2>8, SameLinked
  <2>10. ItemUse' /\ \A u \in Threads \ {t} : UserOf(u)' /\ FreshOf(u)'
    <3>1. \A x \in Linked : block'[x].readers = block[x].readers
      BY <2>7, LinkedBlocks
    <3>3. NULL \notin Linked /\ \A u \in Threads \ {t} : Fresh(u) => th[u].mine # NULL
      BY LinkedBlocks DEF Fresh
    <3>4. ToSet(lru') = ToSet(lru) /\ leaked' = leaked
      BY <1>1
    <3>5. th[t].pc \in {"pop", "fill", "drop", "reclaim"}
          /\ th'[t].pc \notin {"own", "leave", "copy", "pass", "unchain"}
      BY <1>1, <2>8
    <3> QED BY <2>1, <2>7, <2>8, <2>9, <3>1, <3>3, <3>4, <3>5, ApartUse
  <2>11. UserOf(t)' /\ FreshOf(t)'
    <3>1. th[t].mine # NULL => KeptUse(th[t].mine)
      BY <2>1, <2>7
    <3>2. Overwrites(t) => th[t].mine \in Linked'
      BY <2>9 DEF UInv, UserOf
    <3>3. /\ FreshOf(t)'
          /\ Overwrites(t)' => /\ th'[t].mine \in Linked'
                               /\ Bucket(block'[th'[t].mine].hv) = B(t)'
                               /\ block'[th'[t].mine].lock
                               /\ block'[th'[t].mine].state = "w"
          /\ th'[t].as = "over" => th'[t].mine # NULL
      BY <1>1, <2>1, <2>8, <3>1, <3>2, KeepsMine
    <3> QED BY <2>8, <3>3 DEF UserOf, Reads, At
  <2>12. Items' = Items
    BY <1>1, <2>1, <2>8, StateTypes, SameItemSet
  <2>13. /\ Fragments(m)' = ToSet(kept)
         /\ \A x \in Items \ {m} : block'[x].frags = block[x].frags
         /\ \A x \in Items \ {m} : Fragments(x)' = Fragments(x)
    <3>1. block'[m].frags = kept
      BY <2>1 DEF Header
    <3>2. \A x \in Items \ {m} : block'[x].frags = block[x].frags
      BY <2>1, LinkedBlocks
    <3> QED BY <3>1, <3>2 DEF Fragments
  <2>14. \A y : IsFragment(y)' <=> IsFragment(y) /\ y \notin ToSet(extra)
    <3>1. \A x \in Items \ {m} : \A y \in ToSet(extra) : y \notin Fragments(x)
      BY <2>1, <2>4 DEF Placed
    <3> QED BY <2>1, <2>12, <2>13, <3>1 DEF IsFragment
  <2>15. InHand' = InHand /\ \A u \in InHand : th'[u].got = th[u].got
    BY <1>1, <2>8 DEF InHand, At, Moved
  <2>16. \A y : IsInHand(y)' <=> IsInHand(y)
    BY <2>15 DEF IsInHand
  <2>17. /\ ToSet(free') = ToSet(extra) \cup ToSet(free) /\ IsInjective(free')
    <3>1. ToSet(extra) \cap ToSet(free) = {}
      BY <2>1
    <3> QED BY <2>1, <2>4, <3>1, Joined
  <2>18. Placed'
    <3>1. \A x, y \in Items' : x # y => \A z \in Fragments(x)' : z \notin Fragments(y)'
      <4>1. \A z \in ToSet(kept) : z \in Fragments(m)
        BY <2>1
      <4> QED BY <2>1, <2>4, <2>12, <2>13, <4>1 DEF Placed
    <3>2. \A x \in Items' : IsInjective(block'[x].frags)
      <4>1. block'[m].frags = kept
        BY <2>1 DEF Header
      <4> QED BY <2>1, <2>4, <2>12, <2>13, <4>1 DEF Placed
    <3>3. IsInjective(lru')
      BY <1>1, <2>4
    <3>4. \A y \in Blocks :
            /\ y \in ToSet(free') \/ y \in Items' \/ IsFragment(y)' \/ IsInHand(y)'
            /\ y \in ToSet(free') => y \notin Items' /\ ~IsFragment(y)' /\ ~IsInHand(y)'
            /\ y \in Items' => ~IsFragment(y)' /\ ~IsInHand(y)'
            /\ IsFragment(y)' => ~IsInHand(y)'
      BY <2>4, <2>1, <2>12, <2>14, <2>16, <2>17 DEF Placed
    <3>5. \A u, v \in InHand' : u # v => th'[u].got # th'[v].got
      BY <2>4, <2>15 DEF Placed
    <3> QED BY <2>17, <3>1, <3>2, <3>3, <3>4, <3>5 DEF Placed
  <2> QED BY <2>10, <2>11, <2>18 DEF UInv
<1> QED BY <1>1, <1>2, <1>3

\* What a reclaimed block leaves behind.
LEMMA ReclaimSets ==
    ASSUME TInv, UInv, NEW t \in Threads, Reclaim(t)
    PROVE  \E x0 \in Blocks, f \in Seq(Blocks) :
           /\ x0 = th[t].got /\ f = block[x0].frags
           /\ lru' = Without(x0) /\ block' = Evicted(x0, f) /\ free' = <<x0>> \o f \o free
           /\ leaked' = leaked \ {x0}
           /\ x0 \in ToSet(lru) /\ x0 \in Items /\ x0 \notin Linked /\ x0 \notin leaked
           /\ x0 # NULL
           /\ \A u \in Threads \ {t} : th[u].pc \notin Evicting
           /\ lru' \in Seq(Blocks) /\ IsInjective(lru') /\ ToSet(lru') = ToSet(lru) \ {x0}
           /\ Linked' = Linked
           /\ \A u \in Threads : th[u].mine # x0
           /\ Items' = Items \ {x0}
           /\ \A y \in ToSet(f) : /\ IsFragment(y) /\ y \notin Items /\ y \in Blocks
                                  /\ ~IsInHand(y) /\ y \notin ToSet(free) /\ y # x0
           /\ \A x \in Items \ {x0} : block'[x] = block[x]
<1>1. /\ th[t].pc = "reclaim" /\ Moves(t, th'[t].pc) /\ th'[t].as = th[t].as
      /\ th'[t].mine = th[t].mine /\ th'[t].pc \in {"tail", "evict_end"}
  BY ReclaimDoes
<1>2. PICK x0, f : x0 = th[t].got /\ f = block[x0].frags
  OBVIOUS
<1>3. /\ lru' = Without(x0) /\ block' = Evicted(x0, f) /\ free' = <<x0>> \o f \o free
      /\ leaked' = leaked \ {x0}
  BY <1>2 DEF Reclaim
<1>4. Placed /\ IsInjective(free) /\ IsInjective(lru) /\ free \in Seq(Blocks)
      /\ lru \in Seq(Blocks) /\ ItemUse
  BY StateTypes DEF UInv, Placed
<1>5. /\ x0 \in ToSet(lru) /\ x0 \in Items /\ x0 \in Blocks /\ f \in Seq(Blocks)
      /\ x0 \notin Linked /\ x0 \notin leaked /\ x0 # NULL
  <2>1. x0 \in ToSet(lru)
    BY <1>1, <1>2 DEF UInv, UserOf
  <2>2. x0 \notin Linked
    BY <1>1, <1>2 DEF Linked, At
  <2> QED BY <1>2, <1>4, <2>1, <2>2, LinkedBlocks, HeaderTypes, KeyTypes DEF ItemUse
<1>6. \A u \in Threads \ {t} : th[u].pc \notin Evicting
  BY <1>1, OneEvictor DEF Evicting, Choosing
<1>7. Moved(t) /\ th'[t].key = th[t].key
  BY <1>1 DEF Moves
<1>8. lru' \in Seq(Blocks) /\ IsInjective(lru') /\ ToSet(lru') = ToSet(lru) \ {x0}
  BY <1>3, <1>4, WithoutFacts
<1>9. Linked = ToSet(lru) \ {x0} /\ Linked' = Linked
  <2>1. {u \in Threads : At(u, "reclaim")} = {t}
    BY <1>1, <1>6 DEF At, Evicting, Choosing
  <2>2. {u \in Threads : At(u, "reclaim")'} = {}
    BY <1>1, <1>6, <1>7 DEF At, Evicting, Choosing, Moved
  <2>3. Linked = ToSet(lru) \ {x0}
    BY <1>2, <2>1 DEF Linked
  <2>4. Linked' = ToSet(lru')
    BY <2>2 DEF Linked
  <2> QED BY <1>8, <2>3, <2>4
<1>10. \A u \in Threads : th[u].mine # x0
  <2> SUFFICES ASSUME NEW u \in Threads, th[u].mine = x0 PROVE FALSE
    OBVIOUS
  <2>1. Overwrites(u) \/ Fresh(u)
    BY <1>5 DEF Overwrites, Fresh
  <2> QED BY <1>5, <2>1 DEF UInv, UserOf, FreshOf
<1>11. Items' = Items \ {x0}
  <2>1. Items' = ToSet(lru') \cup ({th[u].mine : u \in Threads} \ {NULL})
    <3>1. \A u \in Threads : th'[u].mine = th[u].mine
      BY <1>1, <1>7 DEF Moved
    <3> QED BY <3>1 DEF Items
  <2> QED BY <1>8, <1>10, <2>1 DEF Items
<1>12. \A y \in ToSet(f) : /\ IsFragment(y) /\ y \notin Items /\ y \in Blocks
                           /\ ~IsInHand(y) /\ y \notin ToSet(free) /\ y # x0
  <2> SUFFICES ASSUME NEW y \in ToSet(f)
               PROVE  /\ IsFragment(y) /\ y \notin Items /\ y \in Blocks
                      /\ ~IsInHand(y) /\ y \notin ToSet(free) /\ y # x0
    OBVIOUS
  <2>1. IsFragment(y)
    BY <1>2, <1>5 DEF IsFragment, Fragments
  <2>2. y \in Blocks
    BY <1>5, ToSetFacts
  <2> QED BY <1>4, <1>5, <2>1, <2>2 DEF Placed
<1>13. \A x \in Items \ {x0} : block'[x] = block[x]
  <2> SUFFICES ASSUME NEW x \in Items \ {x0} PROVE block'[x] = block[x]
    OBVIOUS
  <2>1. x \in Blocks /\ x \notin ToSet(f)
    BY <1>12, LinkedBlocks
  <2> QED BY <1>3, <2>1 DEF Evicted
<1> QED BY <1>2, <1>3, <1>5, <1>6, <1>8, <1>9, <1>10, <1>11, <1>12, <1>13

LEMMA ReclaimUses ==
    ASSUME TInv, UInv, NEW t \in Threads, Reclaim(t), NotAstray'
    PROVE  UInv'
<1>1. /\ th[t].pc = "reclaim" /\ Moves(t, th'[t].pc) /\ th'[t].as = th[t].as
      /\ th'[t].mine = th[t].mine /\ th'[t].pc \in {"tail", "evict_end"}
  BY ReclaimDoes
<1>2. PICK x0 \in Blocks, f \in Seq(Blocks) :
           /\ x0 = th[t].got /\ f = block[x0].frags
           /\ lru' = Without(x0) /\ block' = Evicted(x0, f) /\ free' = <<x0>> \o f \o free
           /\ leaked' = leaked \ {x0}
           /\ x0 \in ToSet(lru) /\ x0 \in Items /\ x0 \notin Linked /\ x0 \notin leaked
           /\ x0 # NULL
           /\ \A u \in Threads \ {t} : th[u].pc \notin Evicting
           /\ lru' \in Seq(Blocks) /\ IsInjective(lru') /\ ToSet(lru') = ToSet(lru) \ {x0}
           /\ Linked' = Linked
           /\ \A u \in Threads : th[u].mine # x0
           /\ Items' = Items \ {x0}
           /\ \A y \in ToSet(f) : /\ IsFragment(y) /\ y \notin Items /\ y \in Blocks
                                  /\ ~IsInHand(y) /\ y \notin ToSet(free) /\ y # x0
           /\ \A x \in Items \ {x0} : block'[x] = block[x]
  BY ReclaimSets
<1>4. Placed /\ IsInjective(free) /\ IsInjective(lru) /\ free \in Seq(Blocks)
      /\ lru \in Seq(Blocks) /\ ItemUse
  BY StateTypes DEF UInv, Placed
<1>7. Moved(t) /\ th'[t].key = th[t].key
  BY <1>1 DEF Moves
<1>14. ItemUse' /\ \A u \in Threads \ {t} : UserOf(u)' /\ FreshOf(u)'
  <2>1. \A x \in Items \ {x0} : KeptUse(x)
    BY <1>2 DEF KeptUse
  <2>2. \A x \in Linked : block'[x].readers = block[x].readers
    BY <1>2, LinkedBlocks
  <2>3. \A u \in Threads \ {t} : Fresh(u) => th[u].mine # x0
    BY <1>2
  <2>4. ToSet(lru') \subseteq ToSet(lru) /\ leaked' = leaked
    BY <1>2
  <2>5. th[t].pc \in {"pop", "fill", "drop", "reclaim"}
        /\ th'[t].pc \notin {"own", "leave", "copy", "pass", "unchain"}
    BY <1>1
  <2> QED BY <1>1, <1>2, <1>7, <2>1, <2>2, <2>3, <2>4, <2>5, ApartUse
<1>15. UserOf(t)' /\ FreshOf(t)'
  <2>1. th[t].mine # NULL => KeptUse(th[t].mine)
    BY <1>2, LinkedBlocks DEF KeptUse
  <2>2. Overwrites(t) => th[t].mine \in Linked'
    BY <1>2 DEF UInv, UserOf
  <2>3. /\ FreshOf(t)'
        /\ Overwrites(t)' => /\ th'[t].mine \in Linked'
                             /\ Bucket(block'[th'[t].mine].hv) = B(t)'
                             /\ block'[th'[t].mine].lock
                             /\ block'[th'[t].mine].state = "w"
        /\ th'[t].as = "over" => th'[t].mine # NULL
    BY <1>1, <1>7, <1>2, <2>1, <2>2, KeepsMine
  <2>4. th'[t].pc \notin {"own", "leave", "copy", "pass", "try", "unchain", "reclaim"}
    BY <1>1
  <2> QED BY <2>3, <2>4 DEF UserOf, Reads, At
<1>16. \A x \in Items' : Fragments(x)' = Fragments(x) /\ block'[x].frags = block[x].frags
  BY <1>2 DEF Fragments
<1>17. \A y : IsFragment(y)' <=> IsFragment(y) /\ y \notin ToSet(f)
  <2>1. Fragments(x0) = ToSet(f)
    BY <1>2 DEF Fragments
  <2>2. \A x \in Items \ {x0} : \A y \in ToSet(f) : y \notin Fragments(x)
    BY <1>4, <1>2, <2>1 DEF Placed
  <2>3. Items' = Items \ {x0} /\ x0 \in Items
    BY <1>2
  <2>4. \A x \in Items \ {x0} : Fragments(x)' = Fragments(x)
    BY <1>16, <2>3
  <2> QED BY <2>1, <2>2, <2>3, <2>4 DEF IsFragment
<1>18. InHand' = InHand /\ \A u \in InHand : th'[u].got = th[u].got
  BY <1>1, <1>7 DEF InHand, At, Moved
<1>19. \A y : IsInHand(y)' <=> IsInHand(y)
  BY <1>18 DEF IsInHand
<1>20. ToSet(free') = {x0} \cup ToSet(f) \cup ToSet(free) /\ IsInjective(free')
  <2>0. PICK q : q = <<x0>>
    OBVIOUS
  <2>1. q \in Seq(Blocks) /\ ToSet(q) = {x0} /\ IsInjective(q)
    BY <1>2, <2>0, One
  <2>2. IsInjective(f)
    BY <1>2, <1>4 DEF Placed
  <2>3. ToSet(q) \cap ToSet(f) = {}
    BY <1>2, <2>1
  <2>4. PICK p : p = q \o f
    OBVIOUS
  <2>5. p \in Seq(Blocks) /\ ToSet(p) = {x0} \cup ToSet(f) /\ IsInjective(p)
    <3>1. f \in Seq(Blocks) /\ q \in Seq(Blocks)
      BY <1>2, <2>1
    <3>2. p \in Seq(Blocks) /\ ToSet(p) = ToSet(q) \cup ToSet(f) /\ IsInjective(p)
      BY <2>1, <2>2, <2>3, <2>4, <3>1, Joined
    <3> QED BY <2>1, <3>2
  <2>6. x0 \notin ToSet(free)
    BY <1>4, <1>2 DEF Placed
  <2>7. ToSet(p) \cap ToSet(free) = {}
    BY <1>2, <2>5, <2>6
  <2>8. free' = p \o free
    BY <1>2, <2>0, <2>4
  <2> QED BY <1>4, <2>5, <2>7, <2>8, Joined
<1>21. Placed'
  <2>1. \A x, y \in Items' : x # y => \A z \in Fragments(x)' : z \notin Fragments(y)'
    <3>1. Items' \subseteq Items
      BY <1>2
    <3> QED BY <1>4, <1>16, <3>1 DEF Placed
  <2>2. \A x \in Items' : IsInjective(block'[x].frags)
    BY <1>4, <1>2, <1>16 DEF Placed
  <2>4. \A y \in Blocks :
          /\ y \in ToSet(free') \/ y \in Items' \/ IsFragment(y)' \/ IsInHand(y)'
          /\ y \in ToSet(free') => y \notin Items' /\ ~IsFragment(y)' /\ ~IsInHand(y)'
          /\ y \in Items' => ~IsFragment(y)' /\ ~IsInHand(y)'
          /\ IsFragment(y)' => ~IsInHand(y)'
    <3> SUFFICES ASSUME NEW y \in Blocks
                 PROVE /\ y \in ToSet(free') \/ y \in Items' \/ IsFragment(y)' \/ IsInHand(y)'
                       /\ y \in ToSet(free') => y \notin Items' /\ ~IsFragment(y)' /\ ~IsInHand(y)'
                       /\ y \in Items' => ~IsFragment(y)' /\ ~IsInHand(y)'
                       /\ IsFragment(y)' => ~IsInHand(y)'
      OBVIOUS
    <3>1. /\ y \in ToSet(free) \/ y \in Items \/ IsFragment(y) \/ IsInHand(y)
          /\ y \in ToSet(free) => y \notin Items /\ ~IsFragment(y) /\ ~IsInHand(y)
          /\ y \in Items => ~IsFragment(y) /\ ~IsInHand(y)
          /\ IsFragment(y) => ~IsInHand(y)
      BY <1>4 DEF Placed
    <3>2. /\ IsInHand(y)' <=> IsInHand(y)
          /\ y \in ToSet(free') <=> y = x0 \/ y \in ToSet(f) \/ y \in ToSet(free)
      BY <1>19, <1>20
    <3>3. /\ IsFragment(y)' <=> IsFragment(y) /\ y \notin ToSet(f)
          /\ y \in Items' <=> y \in Items /\ y # x0
      BY <1>2, <1>17
    <3>4. /\ y = x0 => y \in Items
          /\ y \in ToSet(f) => IsFragment(y) /\ y \notin Items /\ ~IsInHand(y)
      BY <1>2
    <3> QED BY <3>1, <3>2, <3>3, <3>4
  <2>5. \A u, v \in InHand' : u # v => th'[u].got # th'[v].got
    BY <1>4, <1>18 DEF Placed
  <2>6. IsInjective(free') /\ IsInjective(lru')
    BY <1>2, <1>20
  <2> QED BY <2>1, <2>2, <2>4, <2>5, <2>6 DEF Placed
<1> QED BY <1>14, <1>15, <1>21 DEF UInv

LEMMA UInit == Init => UInv
<1> SUFFICES ASSUME Init PROVE UInv
  OBVIOUS
<1>1. /\ lru = << >> /\ free = [x \in Blocks |-> x] /\ leaked = {}
      /\ \A t \in Threads : th[t] = Idle
  BY DEF Init
<1>2. ToSet(lru) = {}
  BY <1>1 DEF ToSet
<1>3. ToSet(free) = Blocks /\ IsInjective(free)
  <2>1. DOMAIN free = Blocks /\ \A x \in Blocks : free[x] = x
    BY <1>1
  <2>2. IsInjective(free)
    BY <2>1 DEF IsInjective
  <2>3. free \in Seq(Blocks) /\ Len(free) = NumBlocks
    <3>1. free \in [1 .. NumBlocks -> Blocks] /\ NumBlocks \in Nat
      BY <1>1, KeyTypes DEF Blocks
    <3>2. free \in Seq(Blocks)
      BY <3>1, SeqDef
    <3>3. DOMAIN free = 1 .. Len(free) /\ Len(free) \in Nat
      BY <3>2
    <3> QED BY <3>1, <3>2, <3>3
  <2>4. ToSet(free) = Blocks
    BY <2>1 DEF ToSet
  <2> QED BY <2>2, <2>4
<1>4. Items = {} /\ InHand = {} /\ Linked = {}
  BY <1>1, <1>2 DEF Items, InHand, Linked, At, Idle
<1>5. Placed
  <2>1. IsInjective(lru)
    BY <1>1 DEF IsInjective
  <2> QED BY <1>3, <1>4, <2>1 DEF Placed, IsFragment, IsInHand
<1>6. ItemUse
  BY <1>1, <1>4 DEF ItemUse
<1>7. \A t \in Threads : UserOf(t) /\ FreshOf(t)
  BY <1>1 DEF UserOf, FreshOf, Reads, Fresh, Overwrites, At, Idle
<1>8. NotAstray
  BY <1>1 DEF NotAstray, Astray, Idle
<1> QED BY <1>5, <1>6, <1>7, <1>8 DEF UInv

\* A step that leaves the locks of evicted blocks alone starts where they were left alone
\* and strays nowhere.
LEMMA CalmStep ==
    ASSUME Next, Calm'
    PROVE  Calm /\ NotAstray'
BY DEF Next, Watch, Calm, NotAstray

LEMMA UNext == TInv /\ (Calm => UInv) /\ [Next]_vars => (Calm => UInv)'
<1> SUFFICES ASSUME TInv, Calm => UInv, [Next]_vars, Calm' PROVE UInv'
  OBVIOUS
<1>1. CASE UNCHANGED vars
  <2>1. /\ UNCHANGED <<entryLock, barrier, valid, chain, block, lru, free, num_free_blocks,
                       evict_lock, th, calls, leaked, harm>>
    BY <1>1 DEF vars, table, lists
  <2>2. Calm
    BY <2>1 DEF Calm
  <2>3. NotAstray'
    BY <2>1, <2>2 DEF UInv, NotAstray, Astray, Gone, Here, Linked, B, Hv, At
  <2>4. Items' = Items /\ InHand' = InHand /\ Linked' = Linked
    BY <2>1 DEF Items, InHand, Linked, At
  <2>5. Placed'
    BY <2>1, <2>2, <2>4 DEF UInv, Placed, IsFragment, IsInHand, Fragments
  <2>6. ItemUse'
    BY <2>1, <2>2, <2>4 DEF UInv, ItemUse, ItemOk, Readers, Uses, Reads, Overwrites, At
  <2>7. \A t \in Threads : UserOf(t)' /\ FreshOf(t)'
    BY <2>1, <2>2, <2>4
    DEF UInv, UserOf, FreshOf, Reads, Fresh, Overwrites, At, Here, B, Hv
  <2> QED BY <2>3, <2>5, <2>6, <2>7 DEF UInv
<1>2. CASE Next
  <2>1. UInv /\ NotAstray'
    BY <1>2, CalmStep
  <2> QED BY <1>2, <2>1, Actions, BeginGetUses, BeginSetUses, EnterUses, ReadHeadUses,
             TakeBarrierUses, WalkOnUses, WalkEndsUses, TakeStateUses, TryItemUses,
             SkipItemUses, OtherKeyUses, GetSharesUses, GetOwnUses, PassUses, LeaveUses,
             EndCopyUses, RoomUses, EvictLockUses, ReadTailUses, TryTailUses, UnchainUses,
             ReclaimUses, EvictEndUses, PopUses, SetWaitsUses, SetTooOldUses, SetOwnUses,
             FillItemUses, FillFragmentUses, GiveBackUses, CountBackUses, FinishFirstUses,
             PublishUses, FinishInsertUses, FinishOverwriteUses
<1> QED BY <1>1, <1>2

LEMMA UsesHold == Spec => [](TInv /\ (Calm => UInv))
<1>1. Init => TInv /\ (Calm => UInv)
  BY TInit, UInit
<1>2. TInv /\ (Calm => UInv) /\ [Next]_vars => (TInv /\ (Calm => UInv))'
  BY TNext, UNext
<1> QED BY <1>1, <1>2, PTL DEF Spec

LEMMA PlacedOnce == TInv /\ (Calm => UInv) => BlocksOnce
<1> SUFFICES ASSUME TInv, UInv, Calm PROVE BlocksOnce
  BY DEF BlocksOnce, Calm
<1> DEFINE fragments == UNION {Fragments(x) : x \in Items}
           inHand == {th[t].got : t \in InHand}
<1>1. Placed
  BY DEF UInv
<1>2. \A y : (y \in fragments <=> IsFragment(y)) /\ (y \in inHand <=> IsInHand(y))
  BY DEF IsFragment, IsInHand
<1>3. ToSet(free) \subseteq Blocks /\ Items \subseteq Blocks
  BY StateTypes, ToSetFacts, LinkedBlocks
<1>4. fragments \subseteq Blocks
  <2>1. \A x \in Items : Fragments(x) \subseteq Blocks
    BY <1>3, HeaderTypes, ToSetFacts DEF Fragments
  <2> QED BY <2>1
<1>5. inHand \subseteq Blocks
  BY PointerTypes DEF InHand, At
<1> HIDE DEF fragments, inHand
<1>6. Blocks = ToSet(free) \cup Items \cup fragments \cup inHand
  BY <1>1, <1>2, <1>3, <1>4, <1>5 DEF Placed
<1>7. /\ ToSet(free) \cap (Items \cup fragments \cup inHand) = {}
      /\ Items \cap (fragments \cup inHand) = {}
      /\ fragments \cap inHand = {}
  BY <1>1, <1>2, <1>3, <1>4 DEF Placed
<1>8. \A x, y \in Items : x # y => Fragments(x) \cap Fragments(y) = {}
  BY <1>1 DEF Placed
<1> QED BY <1>1, <1>6, <1>7, <1>8 DEF Placed, BlocksOnce, fragments, inHand

\* Every block of the log is in exactly one place: once on the free list, an item, a
\* fragment of one item, or in the hands of one thread (ram_ht.c:741-801, 1045-1082, 1273-1282).
THEOREM BlocksStayOnce == Spec => []BlocksOnce
BY UsesHold, PlacedOnce, PTL

LEMMA AtMostOne ==
    ASSUME NEW S \in SUBSET Threads, \A t, u \in S : t = u
    PROVE  Cardinality(S) \in Nat /\ Cardinality(S) <= 1 /\ (S = {} => Cardinality(S) = 0)
<1>1. CASE S = {}
  BY <1>1, FS_EmptySet
<1>2. CASE S # {}
  <2>1. PICK t : t \in S
    BY <1>2
  <2>2. S = {t}
    BY <2>1
  <2> QED BY <2>2, FS_Singleton
<1> QED BY <1>1, <1>2

\* How the sets of users are made of Uses.
LEMMA UserSets ==
    ASSUME TInv, UInv, NEW x \in Blocks, NEW t \in Threads
    PROVE  /\ t \in Readers(x) <=> Reads(t) /\ th[t].it = x
           /\ t \in Writers(x) <=> Overwrites(t) /\ th[t].mine = x
           /\ t \in Owners(x) <=> At(t, "own") /\ th[t].it = x
           /\ t \in Evictors(x) <=> /\ At(t, "unchain") \/ At(t, "reclaim")
                                    /\ th[t].got = x
           /\ x \in Linked => (t \in Evictors(x) <=> At(t, "unchain") /\ th[t].got = x)
           /\ t \in Writers(x) => t \notin Readers(x) \cup Owners(x)
           /\ t \in Evictors(x) => t \notin Readers(x) \cup Owners(x)
           /\ t \in Owners(x) => t \notin Readers(x)
<1>1. x # NULL
  BY KeyTypes
<1>2. /\ t \in Readers(x) <=> Reads(t) /\ th[t].it = x
      /\ t \in Writers(x) <=> Overwrites(t) /\ th[t].mine = x
      /\ t \in Owners(x) <=> At(t, "own") /\ th[t].it = x
      /\ t \in Evictors(x) <=> /\ At(t, "unchain") \/ At(t, "reclaim")
                               /\ th[t].got = x
  BY <1>1 DEF Readers, Reads, Writers, Overwrites, Owners, Evictors, At
<1>3. x \in Linked => ~(At(t, "reclaim") /\ th[t].got = x)
  BY DEF Linked
<1>4. Overwrites(t) => th[t].pc \in Writing
  BY ThreadTypes DEF PointersOf, Overwrites
<1>5. /\ t \in Writers(x) => t \notin Readers(x) \cup Owners(x)
      /\ t \in Evictors(x) => t \notin Readers(x) \cup Owners(x)
      /\ t \in Owners(x) => t \notin Readers(x)
  BY <1>2, <1>4 DEF Writing, Reads, At
<1> QED BY <1>2, <1>3, <1>5

LEMMA UseExcludes == TInv /\ (Calm => UInv) => UseIsExclusive
<1> SUFFICES ASSUME TInv, UInv, Calm, NEW x \in Blocks
             PROVE  /\ Cardinality(Writers(x)) + Cardinality(Evictors(x))
                         + Cardinality(Owners(x)) + (IF Readers(x) = {} THEN 0 ELSE 1) <= 1
                    /\ Readers(x) # {} => /\ block[x].state = "r" /\ x \in Linked
                                          /\ block[x].readers = Cardinality(Readers(x))
                    /\ x \in Linked =>
                          (block[x].lock <=> \/ x \in leaked
                                             \/ Readers(x) \cup Writers(x) \cup Evictors(x)
                                                   \cup Owners(x) # {})
  BY DEF UseIsExclusive, Calm
<1>0. /\ Readers(x) \subseteq Threads /\ Writers(x) \subseteq Threads
      /\ Evictors(x) \subseteq Threads /\ Owners(x) \subseteq Threads
  BY DEF Readers, Writers, Evictors, Owners
\* A user of an item that is linked, other than a reader, is alone.
<1>1. ASSUME NEW t \in Writers(x), NEW u \in Threads \ {t}
      PROVE  u \notin Readers(x) \cup Writers(x) \cup Evictors(x) \cup Owners(x)
  <2>1. t \in Threads /\ Overwrites(t) /\ th[t].mine = x
    BY <1>0, <1>1, UserSets
  <2>2. x \in Linked
    BY <2>1 DEF UInv, UserOf
  <2>3. ~Uses(u, x)
    BY <2>1, WriterAlone
  <2> QED BY <2>2, <2>3, UserSets DEF Uses
<1>2. ASSUME NEW t \in Owners(x), NEW u \in Threads \ {t}
      PROVE  u \notin Readers(x) \cup Writers(x) \cup Evictors(x) \cup Owners(x)
  <2>1. t \in Threads /\ At(t, "own") /\ th[t].it = x
    BY <1>0, <1>2, UserSets
  <2>2. x \in Linked
    BY <2>1 DEF UInv, UserOf
  <2>3. ~Uses(u, x)
    BY <2>1, OwnerAlone
  <2> QED BY <2>2, <2>3, UserSets DEF Uses
<1>3. ASSUME NEW t \in Evictors(x), NEW u \in Threads \ {t}
      PROVE  u \notin Readers(x) \cup Writers(x) \cup Evictors(x) \cup Owners(x)
  <2>1. t \in Threads /\ (At(t, "unchain") \/ At(t, "reclaim")) /\ th[t].got = x
    BY <1>0, <1>3, UserSets
  <2>2. u \notin Evictors(x)
    BY <2>1, OneEvictor, UserSets DEF At, Evicting, Choosing
  <2>3. CASE At(t, "unchain")
    <3>1. ~Uses(u, x)
      BY <2>1, <2>3, EvictorAlone
    <3> QED BY <2>2, <3>1, UserSets DEF Uses
  <2>4. CASE At(t, "reclaim")
    <3>1. x \notin Linked
      BY <2>1, <2>4 DEF Linked
    <3>2. ~Uses(u, x)
      BY <3>1, UnlinkedUnused
    <3> QED BY <2>2, <3>2, UserSets DEF Uses
  <2> QED BY <2>1, <2>3, <2>4
<1>4. \A t \in Writers(x) : t \notin Evictors(x)
  <2> SUFFICES ASSUME NEW t \in Writers(x), t \in Evictors(x) PROVE FALSE
    OBVIOUS
  <2>1. t \in Threads /\ Overwrites(t) /\ th[t].mine = x /\ th[t].got = x
    BY <1>0, UserSets
  <2>2. x \in Linked /\ block[x].state = "w"
    BY <2>1 DEF UInv, UserOf
  <2>3. At(t, "unchain")
    BY <2>1, <2>2, UserSets
  <2> QED BY <2>1, <2>2, <2>3 DEF UInv, UserOf
<1>5. /\ \A t, u \in Writers(x) : t = u
      /\ \A t, u \in Evictors(x) : t = u
      /\ \A t, u \in Owners(x) : t = u
  BY <1>0, <1>1, <1>2, <1>3
<1>6. /\ Cardinality(Writers(x)) \in Nat /\ Cardinality(Writers(x)) <= 1
      /\ Cardinality(Evictors(x)) \in Nat /\ Cardinality(Evictors(x)) <= 1
      /\ Cardinality(Owners(x)) \in Nat /\ Cardinality(Owners(x)) <= 1
      /\ Writers(x) = {} => Cardinality(Writers(x)) = 0
      /\ Evictors(x) = {} => Cardinality(Evictors(x)) = 0
      /\ Owners(x) = {} => Cardinality(Owners(x)) = 0
  BY <1>0, <1>5, AtMostOne
<1>7. Writers(x) # {} => Evictors(x) = {} /\ Owners(x) = {} /\ Readers(x) = {}
  BY <1>0, <1>1, <1>4, UserSets
<1>8. Owners(x) # {} => Evictors(x) = {} /\ Writers(x) = {} /\ Readers(x) = {}
  BY <1>0, <1>2, UserSets
<1>9. Evictors(x) # {} => Writers(x) = {} /\ Owners(x) = {} /\ Readers(x) = {}
  BY <1>0, <1>3, <1>4, UserSets
<1>10. Cardinality(Writers(x)) + Cardinality(Evictors(x)) + Cardinality(Owners(x))
          + (IF Readers(x) = {} THEN 0 ELSE 1) <= 1
  BY <1>6, <1>7, <1>8, <1>9
<1>11. ASSUME Readers(x) # {}
       PROVE  /\ block[x].state = "r" /\ x \in Linked
              /\ block[x].readers = Cardinality(Readers(x))
  <2>1. PICK t \in Threads : Reads(t) /\ th[t].it = x
    BY <1>0, <1>11, UserSets
  <2>2. x \in Linked /\ block[x].state = "r"
    BY <2>1 DEF UInv, UserOf, Here
  <2> QED BY <2>2 DEF UInv, ItemUse, ItemOk
<1>12. ASSUME x \in Linked
       PROVE  block[x].lock <=> \/ x \in leaked
                                \/ Readers(x) \cup Writers(x) \cup Evictors(x)
                                      \cup Owners(x) # {}
  <2>1. ItemOk(x)
    BY <1>12 DEF UInv, ItemUse
  <2>2. \A t \in Threads : Uses(t, x) <=>
           t \in Readers(x) \cup Writers(x) \cup Evictors(x) \cup Owners(x)
    BY <1>12, UserSets DEF Uses
  <2>3. \A t \in Threads : Uses(t, x) => block[x].lock
    BY UsedItems
  <2>4. block[x].lock \in BOOLEAN
    BY HeaderTypes
  <2> QED BY <1>0, <2>1, <2>2, <2>3, <2>4 DEF ItemOk
<1> QED BY <1>10, <1>11, <1>12

\* While a get copies an item nobody overwrites or evicts it and no other release takes its
\* lock away; a writer and the evictor are alone; a lock is held exactly while somebody uses
\* the item or was left behind by a set with an older version (ram_ht.c:208-229, 371-387, 474, 663-689).
THEOREM UseStaysExclusive == Spec => []UseIsExclusive
BY UsesHold, UseExcludes, PTL
=============================================================================
