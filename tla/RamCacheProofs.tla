---------------------------- MODULE RamCacheProofs ----------------------------
(***************************************************************************)
(* Theorems about RamCache, for every number of threads up to 255, every   *)
(* set of keys with their hashes, and every number of buckets and blocks.  *)
(***************************************************************************)
EXTENDS RamCache, FiniteSetTheorems, SequenceTheorems, TLAPS

-----------------------------------------------------------------------------
(* What a thread has at each place, whatever the others do. *)

\* A set that writes its item.
Writing == {"room", "evict_lock", "tail", "try", "unchain", "reclaim",
            "evict_end", "pop", "fill", "drop", "count", "finish", "crash"}
Inside == {"walk", "state", "choose", "own", "pass", "leave"}
InEntry == {"head", "barrier", "publish"} \cup Inside \cup Writing
Choosing == {"tail", "try", "unchain", "reclaim"}
Evicting == Choosing \cup {"evict_end"}

\* The pointers that are in use are not NULL.
PointersOf(t) ==
    /\ th[t].pc # "idle" => th[t].key \in Keys
    /\ th[t].pc \in {"state", "choose", "own", "pass", "leave", "copy"} =>
          th[t].it # NULL
    /\ th[t].pc \in {"try", "unchain", "reclaim", "fill", "count"} =>
          th[t].got # NULL
    /\ th[t].pc \in {"drop", "count", "finish"} => th[t].mine # NULL
    /\ th[t].mine # NULL => th[t].pc \in Writing
    /\ th[t].pc \in Writing \cup {"head", "publish"} => th[t].op = "set"
    /\ th[t].pc \in {"leave", "copy", "pass"} => th[t].op = "get"

\* The locks of its bucket, and the evictor's.
LocksOf(t) ==
    /\ th[t].pc \in InEntry => entryLock[B(t)] = t
    /\ th[t].pc \in Inside => barrier[B(t)] = t
    /\ th[t].pc \in Evicting => evict_lock = t

\* The evictor goes on until it has freed MinEvict blocks.
AmountsOf(t) ==
    /\ th[t].pc \in Evicting => th[t].amount + th[t].freed_tot = MinEvict
    /\ th[t].pc \in Choosing => th[t].amount >= 1
    /\ th[t].pc = "evict_end" => th[t].amount <= 0

Popping == {t \in Threads : At(t, "pop")}
CountCovers == FewThreads => num_free_blocks >= Cardinality(Popping)

TInv ==
    /\ TypeOK
    /\ \A t \in Threads : PointersOf(t) /\ LocksOf(t) /\ AmountsOf(t)
    /\ CountCovers

-----------------------------------------------------------------------------
(* Sequences without repetitions. *)

LEMMA ToSetFacts ==
    ASSUME NEW S, NEW s \in Seq(S)
    PROVE  /\ ToSet(s) \subseteq S
           /\ \A i \in 1 .. Len(s) : s[i] \in ToSet(s)
           /\ \A y \in ToSet(s) : \E i \in 1 .. Len(s) : s[i] = y
           /\ s # << >> => Last(s) \in ToSet(s) /\ Head(s) \in ToSet(s)
BY HeadTailProperties DEF ToSet, Last

LEMMA Joined ==
    ASSUME NEW S, NEW s \in Seq(S), NEW r \in Seq(S)
    PROVE  /\ s \o r \in Seq(S)
           /\ Len(s \o r) = Len(s) + Len(r)
           /\ ToSet(s \o r) = ToSet(s) \cup ToSet(r)
           /\ IsInjective(s) /\ IsInjective(r) /\ ToSet(s) \cap ToSet(r) = {} =>
                 IsInjective(s \o r)
<1> DEFINE j == s \o r
<1>1. /\ j \in Seq(S) /\ Len(j) = Len(s) + Len(r)
      /\ \A i \in 1 .. Len(s) + Len(r) :
            j[i] = IF i <= Len(s) THEN s[i] ELSE r[i - Len(s)]
  BY ConcatProperties
<1> HIDE DEF j
<1>2. ASSUME NEW i \in 1 .. Len(j) PROVE j[i] \in ToSet(s) \cup ToSet(r)
  <2>1. CASE i <= Len(s)
    BY <1>1, <2>1, ToSetFacts
  <2>2. CASE i > Len(s)
    <3>1. i - Len(s) \in 1 .. Len(r) /\ j[i] = r[i - Len(s)]
      BY <1>1, <2>2
    <3> QED BY <3>1, ToSetFacts
  <2> QED BY <2>1, <2>2
<1>3. ToSet(s) \subseteq ToSet(j)
  BY <1>1 DEF ToSet
<1>4. ASSUME NEW y \in ToSet(r) PROVE y \in ToSet(j)
  <2>1. PICK i \in 1 .. Len(r) : r[i] = y
    BY ToSetFacts
  <2>2. PICK k \in 1 .. Len(s) + Len(r) : k = i + Len(s) /\ ~(k <= Len(s))
    OBVIOUS
  <2>3. k - Len(s) = i
    BY <2>2
  <2>4. j[k] = y
    BY <1>1, <2>1, <2>2, <2>3
  <2> QED BY <2>2, <2>4, <1>1, ToSetFacts
<1>5. ToSet(j) = ToSet(s) \cup ToSet(r)
  <2>1. ToSet(j) \subseteq ToSet(s) \cup ToSet(r)
    BY <1>1, <1>2, ToSetFacts, SMTT(20)
  <2> QED BY <2>1, <1>3, <1>4
<1>6. ASSUME IsInjective(s), IsInjective(r), ToSet(s) \cap ToSet(r) = {}
      PROVE  IsInjective(j)
  <2>1. SUFFICES ASSUME NEW a \in 1 .. Len(j), NEW b \in 1 .. Len(j), j[a] = j[b]
                 PROVE  a = b
    BY <1>1 DEF IsInjective
  <2>2. ASSUME NEW i \in 1 .. Len(j)
        PROVE  /\ i <= Len(s) => j[i] \in ToSet(s)
               /\ i > Len(s) => /\ j[i] \in ToSet(r)
                                /\ i - Len(s) \in 1 .. Len(r)
                                /\ j[i] = r[i - Len(s)]
    <3>1. i <= Len(s) => j[i] \in ToSet(s)
      BY <1>1, ToSetFacts
    <3>2. i > Len(s) => i - Len(s) \in 1 .. Len(r) /\ j[i] = r[i - Len(s)]
      BY <1>1
    <3> QED BY <3>1, <3>2, ToSetFacts
  <2>3. CASE a <= Len(s) /\ b <= Len(s)
    BY <1>1, <1>6, <2>1, <2>3 DEF IsInjective
  <2>4. CASE a > Len(s) /\ b > Len(s)
    <3>1. r[a - Len(s)] = r[b - Len(s)]
      BY <1>1, <2>1, <2>4
    <3>2. a - Len(s) = b - Len(s)
      BY <3>1, <2>2, <2>4, <1>6 DEF IsInjective
    <3> QED BY <3>2
  <2> QED BY <2>1, <2>2, <2>3, <2>4, <1>6
<1> QED BY <1>1, <1>5, <1>6 DEF j

LEMMA One ==
    ASSUME NEW S, NEW x \in S
    PROVE  <<x>> \in Seq(S) /\ Len(<<x>>) = 1 /\ ToSet(<<x>>) = {x}
           /\ IsInjective(<<x>>)
BY DEF ToSet, IsInjective

\* A piece of such a sequence, and the two halves that it is cut into.
LEMMA Piece ==
    ASSUME NEW S, NEW s \in Seq(S), NEW m \in 1 .. Len(s) + 1, NEW n \in 0 .. Len(s)
    PROVE  LET p == SubSeq(s, m, n)
           IN  /\ p \in Seq(S)
               /\ Len(p) = IF m <= n THEN n - m + 1 ELSE 0
               /\ \A i \in 1 .. Len(p) : p[i] = s[m + i - 1] /\ m + i - 1 \in m .. n
               /\ \A i \in m .. n : s[i] \in ToSet(p)
               /\ \A y \in ToSet(p) : \E i \in m .. n : y = s[i]
               /\ ToSet(p) \subseteq ToSet(s)
               /\ IsInjective(s) => IsInjective(p)
<1> DEFINE p == SubSeq(s, m, n)
<1>1. /\ p \in Seq(S) /\ Len(p) = IF m <= n THEN n - m + 1 ELSE 0
      /\ \A i \in 1 .. n - m + 1 : p[i] = s[m + i - 1]
  BY SubSeqProperties
<1> HIDE DEF p
<1>2. \A i \in 1 .. Len(p) : p[i] = s[m + i - 1] /\ m + i - 1 \in m .. n
  BY <1>1
<1>3. ASSUME NEW i \in m .. n PROVE s[i] \in ToSet(p)
  <2>1. i - m + 1 \in 1 .. Len(p) /\ p[i - m + 1] = s[i]
    BY <1>1
  <2> QED BY <1>1, <2>1, ToSetFacts
<1>4. ASSUME NEW y \in ToSet(p) PROVE \E i \in m .. n : y = s[i]
  <2>1. PICK i \in 1 .. Len(p) : p[i] = y
    BY <1>1, ToSetFacts
  <2> QED BY <2>1, <1>2
<1>5. ToSet(p) \subseteq ToSet(s)
  BY <1>4, ToSetFacts
<1>6. ASSUME IsInjective(s) PROVE IsInjective(p)
  BY <1>1, <1>2, <1>6, SMTT(30) DEF IsInjective
<1> QED BY <1>1, <1>2, <1>3, <1>4, <1>5, <1>6 DEF p

LEMMA Halves ==
    ASSUME NEW S, NEW s \in Seq(S), IsInjective(s), NEW n \in 0 .. Len(s)
    PROVE  LET p == SubSeq(s, 1, n)
               q == SubSeq(s, n + 1, Len(s))
           IN  /\ p \in Seq(S) /\ q \in Seq(S)
               /\ Len(p) = n /\ Len(q) = Len(s) - n
               /\ IsInjective(p) /\ IsInjective(q)
               /\ ToSet(p) \cap ToSet(q) = {}
               /\ ToSet(p) \cup ToSet(q) = ToSet(s)
<1> DEFINE p == SubSeq(s, 1, n)
           q == SubSeq(s, n + 1, Len(s))
<1>0. /\ 1 \in 1 .. Len(s) + 1 /\ n + 1 \in 1 .. Len(s) + 1
      /\ Len(s) \in 0 .. Len(s) /\ Len(s) \in Nat
  OBVIOUS
<1>1. /\ p \in Seq(S) /\ Len(p) = n /\ IsInjective(p)
      /\ \A i \in 1 .. n : s[i] \in ToSet(p)
      /\ \A y \in ToSet(p) : \E i \in 1 .. n : y = s[i]
  BY <1>0, Piece
<1>2. /\ q \in Seq(S) /\ Len(q) = Len(s) - n /\ IsInjective(q)
      /\ \A i \in n + 1 .. Len(s) : s[i] \in ToSet(q)
      /\ \A y \in ToSet(q) : \E i \in n + 1 .. Len(s) : y = s[i]
  <2>1. /\ q \in Seq(S)
        /\ Len(q) = IF n + 1 <= Len(s) THEN Len(s) - (n + 1) + 1 ELSE 0
        /\ IsInjective(q)
        /\ \A i \in n + 1 .. Len(s) : s[i] \in ToSet(q)
        /\ \A y \in ToSet(q) : \E i \in n + 1 .. Len(s) : y = s[i]
    BY <1>0, Piece
  <2> QED BY <2>1
<1> HIDE DEF p, q
<1>3. ToSet(p) \cap ToSet(q) = {}
  <2>1. SUFFICES ASSUME NEW y \in ToSet(p), y \in ToSet(q) PROVE FALSE
    OBVIOUS
  <2>2. PICK i \in 1 .. n : y = s[i]
    BY <1>1
  <2>3. PICK k \in n + 1 .. Len(s) : y = s[k]
    BY <1>2, <2>1
  <2>4. i \in DOMAIN s /\ k \in DOMAIN s /\ i # k
    OBVIOUS
  <2> QED BY <2>2, <2>3, <2>4 DEF IsInjective
<1>4. ToSet(s) \subseteq ToSet(p) \cup ToSet(q)
  <2>1. ASSUME NEW i \in 1 .. Len(s) PROVE s[i] \in ToSet(p) \cup ToSet(q)
    BY <1>1, <1>2
  <2> QED BY <2>1, ToSetFacts
<1>5. ToSet(p) \cup ToSet(q) \subseteq ToSet(s)
  <2>1. \A i \in 1 .. Len(s) : s[i] \in ToSet(s)
    BY ToSetFacts
  <2> QED BY <1>1, <1>2, <2>1
<1> QED BY <1>1, <1>2, <1>3, <1>4, <1>5 DEF p, q

LEMMA TailFacts ==
    ASSUME NEW S, NEW s \in Seq(S), s # << >>
    PROVE  /\ Head(s) \in S /\ Tail(s) \in Seq(S)
           /\ Len(Tail(s)) = Len(s) - 1 /\ Len(s) >= 1
           /\ ToSet(s) = {Head(s)} \cup ToSet(Tail(s))
           /\ IsInjective(s) => /\ IsInjective(Tail(s))
                                /\ Head(s) \notin ToSet(Tail(s))
<1>1. /\ Head(s) \in S /\ Tail(s) \in Seq(S) /\ Len(Tail(s)) = Len(s) - 1
      /\ \A i \in 1 .. Len(Tail(s)) : Tail(s)[i] = s[i + 1]
      /\ Head(s) = s[1] /\ Len(s) >= 1 /\ Len(s) \in Nat
  BY HeadTailProperties
<1>2. ASSUME NEW i \in 1 .. Len(s) PROVE s[i] \in {Head(s)} \cup ToSet(Tail(s))
  <2>1. CASE i = 1
    BY <1>1, <2>1
  <2>2. CASE i # 1
    <3>1. i - 1 \in 1 .. Len(Tail(s)) /\ Tail(s)[i - 1] = s[i]
      BY <1>1, <2>2
    <3> QED BY <1>1, <3>1, ToSetFacts
  <2> QED BY <2>1, <2>2
<1>3. ASSUME NEW y \in ToSet(Tail(s)) PROVE \E i \in 2 .. Len(s) : s[i] = y
  <2>1. PICK i \in 1 .. Len(Tail(s)) : Tail(s)[i] = y
    BY <1>1, ToSetFacts
  <2>2. i + 1 \in 2 .. Len(s) /\ s[i + 1] = y
    BY <1>1, <2>1
  <2> QED BY <2>2
<1>4. ToSet(s) = {Head(s)} \cup ToSet(Tail(s))
  <2>1. ToSet(s) \subseteq {Head(s)} \cup ToSet(Tail(s))
    BY <1>2, ToSetFacts
  <2>2. ToSet(Tail(s)) \subseteq ToSet(s)
    BY <1>3, <1>1, ToSetFacts
  <2> QED BY <2>1, <2>2, ToSetFacts
<1>5. ASSUME IsInjective(s) PROVE /\ IsInjective(Tail(s))
                                  /\ Head(s) \notin ToSet(Tail(s))
  <2>1. IsInjective(Tail(s))
    <3>1. SUFFICES ASSUME NEW a \in 1 .. Len(Tail(s)), NEW b \in 1 .. Len(Tail(s)),
                          Tail(s)[a] = Tail(s)[b]
                   PROVE  a = b
      BY <1>1 DEF IsInjective
    <3>2. s[a + 1] = s[b + 1] /\ a + 1 \in 1 .. Len(s) /\ b + 1 \in 1 .. Len(s)
      BY <1>1, <3>1
    <3>3. a + 1 = b + 1
      BY <3>2, <1>5 DEF IsInjective
    <3> QED BY <3>3
  <2>2. Head(s) \notin ToSet(Tail(s))
    BY <1>1, <1>3, <1>5 DEF IsInjective
  <2> QED BY <2>1, <2>2
<1> QED BY <1>1, <1>4, <1>5

LEMMA Appended ==
    ASSUME NEW S, NEW s \in Seq(S), NEW x \in S
    PROVE  /\ Append(s, x) \in Seq(S) /\ Len(Append(s, x)) = Len(s) + 1
           /\ ToSet(Append(s, x)) = ToSet(s) \cup {x}
           /\ IsInjective(s) /\ x \notin ToSet(s) => IsInjective(Append(s, x))
<1>1. Append(s, x) = s \o <<x>>
  BY AppendIsConcat
<1>2. /\ <<x>> \in Seq(S) /\ Len(<<x>>) = 1 /\ ToSet(<<x>>) = {x}
      /\ IsInjective(<<x>>)
  BY One
<1>3. /\ s \o <<x>> \in Seq(S) /\ Len(s \o <<x>>) = Len(s) + Len(<<x>>)
      /\ ToSet(s \o <<x>>) = ToSet(s) \cup ToSet(<<x>>)
      /\ IsInjective(s) /\ IsInjective(<<x>>) /\ ToSet(s) \cap ToSet(<<x>>) = {} =>
            IsInjective(s \o <<x>>)
  BY <1>2, Joined, ZenonT(40)
<1> QED BY <1>1, <1>2, <1>3

\* lru_update and remove_from_lru.
LEMMA WithoutFacts ==
    ASSUME lru \in Seq(Blocks), NEW x
    PROVE  /\ Without(x) \in Seq(Blocks)
           /\ IsInjective(lru) => /\ IsInjective(Without(x))
                                  /\ ToSet(Without(x)) = ToSet(lru) \ {x}
<1>1. CASE x \notin ToSet(lru)
  BY <1>1 DEF Without
<1>2. CASE x \in ToSet(lru)
  <2> DEFINE i == CHOOSE j \in DOMAIN lru : lru[j] = x
             p == SubSeq(lru, 1, i - 1)
             q == SubSeq(lru, i + 1, Len(lru))
  <2>1. i \in 1 .. Len(lru) /\ lru[i] = x
    BY <1>2, ToSetFacts
  <2>2. Without(x) = p \o q
    BY <1>2 DEF Without, RemoveAt
  <2> HIDE DEF i
  <2>3. /\ i - 1 \in 0 .. Len(lru) /\ i + 1 \in 1 .. Len(lru) + 1
        /\ Len(lru) \in 0 .. Len(lru) /\ 1 \in 1 .. Len(lru) + 1
    BY <2>1
  <2>4. /\ p \in Seq(Blocks) /\ (IsInjective(lru) => IsInjective(p))
        /\ \A j \in 1 .. i - 1 : lru[j] \in ToSet(p)
        /\ \A y \in ToSet(p) : \E j \in 1 .. i - 1 : y = lru[j]
    BY <2>3, Piece
  <2>5. /\ q \in Seq(Blocks) /\ (IsInjective(lru) => IsInjective(q))
        /\ \A j \in i + 1 .. Len(lru) : lru[j] \in ToSet(q)
        /\ \A y \in ToSet(q) : \E j \in i + 1 .. Len(lru) : y = lru[j]
    BY <2>3, Piece
  <2> HIDE DEF p, q
  <2>6. ASSUME IsInjective(lru)
        PROVE  /\ ToSet(p) \cap ToSet(q) = {}
               /\ ToSet(p) \cup ToSet(q) = ToSet(lru) \ {x}
    <3>1. \A y \in ToSet(p) \cup ToSet(q) :
              \E j \in 1 .. Len(lru) : y = lru[j] /\ j # i
      BY <2>1, <2>4, <2>5
    <3>2. \A j \in 1 .. Len(lru) : j # i => lru[j] \in ToSet(p) \cup ToSet(q)
      BY <2>1, <2>4, <2>5
    <3>3. ToSet(p) \cup ToSet(q) \subseteq ToSet(lru) \ {x}
      BY <3>1, <2>1, <2>6, ToSetFacts DEF IsInjective
    <3>4. ToSet(lru) \ {x} \subseteq ToSet(p) \cup ToSet(q)
      BY <3>2, <2>1, ToSetFacts
    <3>5. ToSet(p) \cap ToSet(q) = {}
      <4>1. SUFFICES ASSUME NEW y \in ToSet(p), y \in ToSet(q) PROVE FALSE
        OBVIOUS
      <4>2. PICK j \in 1 .. i - 1 : y = lru[j]
        BY <2>4
      <4>3. PICK k \in i + 1 .. Len(lru) : y = lru[k]
        BY <2>5, <4>1
      <4>4. j \in DOMAIN lru /\ k \in DOMAIN lru /\ j # k
        BY <4>2, <4>3, <2>1
      <4> QED BY <4>2, <4>3, <4>4, <2>6 DEF IsInjective
    <3> QED BY <3>3, <3>4, <3>5
  <2> QED BY <2>2, <2>4, <2>5, <2>6, Joined
<1> QED BY <1>1, <1>2

LEMMA ToFrontFacts ==
    ASSUME lru \in Seq(Blocks), NEW x \in Blocks
    PROVE  /\ ToFront(x) \in Seq(Blocks)
           /\ IsInjective(lru) => /\ IsInjective(ToFront(x))
                                  /\ ToSet(ToFront(x)) = ToSet(lru) \cup {x}
<1>1. /\ <<x>> \in Seq(Blocks) /\ ToSet(<<x>>) = {x} /\ IsInjective(<<x>>)
  BY One
<1>2. /\ Without(x) \in Seq(Blocks)
      /\ IsInjective(lru) => /\ IsInjective(Without(x))
                             /\ ToSet(Without(x)) = ToSet(lru) \ {x}
  BY WithoutFacts
<1>3. IsInjective(lru) => ToSet(<<x>>) \cap ToSet(Without(x)) = {}
  BY <1>1, <1>2
<1>4. /\ <<x>> \o Without(x) \in Seq(Blocks)
      /\ ToSet(<<x>> \o Without(x)) = ToSet(<<x>>) \cup ToSet(Without(x))
      /\ IsInjective(lru) => IsInjective(<<x>> \o Without(x))
  <2> DEFINE w == Without(x)
             f == <<x>>
  <2> HIDE DEF w, f
  <2>1. /\ f \o w \in Seq(Blocks) /\ ToSet(f \o w) = ToSet(f) \cup ToSet(w)
        /\ IsInjective(f) /\ IsInjective(w) /\ ToSet(f) \cap ToSet(w) = {} =>
              IsInjective(f \o w)
    <3>1. f \in Seq(Blocks) /\ w \in Seq(Blocks)
      BY <1>1, <1>2 DEF w, f
    <3> QED BY <3>1, Joined
  <2> QED BY <2>1, <1>1, <1>2, <1>3 DEF w, f
<1> QED BY <1>1, <1>2, <1>4 DEF ToFront
-----------------------------------------------------------------------------
(* Types, pointers and the locks a thread has. *)

Harms == {"walk", "locks", "count"}

LEMMA KeyTypes ==
    /\ \A k \in Keys : Hash[k] \in Nat \ {0} /\ k # NoKey
    /\ \A h \in Nat : Bucket(h) \in Buckets
    /\ NULL \in 0 .. NumBlocks /\ NULL \notin Blocks
    /\ Blocks \subseteq 0 .. NumBlocks /\ Blocks \subseteq Nat
    /\ \A x \in 0 .. NumBlocks : x # NULL => x \in Blocks
    /\ NumBlocks \in Nat /\ EvictPoint \in Nat /\ MinEvict \in Nat \ {0}
    /\ Nobody \notin Threads
BY BlocksAssumption, ThreadsAssumption, KeysAssumption DEF Bucket, Buckets, Blocks, NULL

\* Only t moves; and it moves within its call, to place p.
Moved(t) == /\ th' \in [Threads -> Thread]
            /\ \A u \in Threads \ {t} : th'[u] = th[u]

Moves(t, p) ==
    /\ Moved(t) /\ th'[t].pc = p
    /\ th'[t].op = th[t].op /\ th'[t].key = th[t].key
    /\ th'[t].ver = th[t].ver /\ th'[t].frags = th[t].frags

SameItems(t) == /\ th'[t].as = th[t].as /\ th'[t].mine = th[t].mine
                /\ th'[t].got = th[t].got
SameAmounts(t) == th'[t].amount = th[t].amount /\ th'[t].freed_tot = th[t].freed_tot

\* Nothing changes for t but its place and where it is in the chain.
Goes(t, p, i) == Moves(t, p) /\ SameItems(t) /\ SameAmounts(t) /\ th'[t].it = i

Returns(t) == Moved(t) /\ th'[t] = Idle

LEMMA GotoMoves ==
    ASSUME TInv, NEW t \in Threads, NEW p \in Label, Goto(t, p)
    PROVE  Goes(t, p, th[t].it)
<1>1. th \in [Threads -> Thread]
  BY DEF TInv, TypeOK
<1>2. [th[t] EXCEPT !.pc = p] \in Thread
  BY <1>1 DEF Thread
<1>3. th' = [th EXCEPT ![t] = [th[t] EXCEPT !.pc = p]]
  BY DEF Goto
<1> QED BY <1>1, <1>2, <1>3 DEF Goes, Moves, Moved, SameItems, SameAmounts, Thread

LEMMA AtMoves ==
    ASSUME TInv, NEW t \in Threads, NEW p \in Label, NEW i \in 0 .. NumBlocks,
           th' = [th EXCEPT ![t] = [@ EXCEPT !.pc = p, !.it = i]]
    PROVE  Goes(t, p, i)
<1>1. th \in [Threads -> Thread]
  BY DEF TInv, TypeOK
<1>2. [th[t] EXCEPT !.pc = p, !.it = i] \in Thread
  BY <1>1 DEF Thread
<1> QED BY <1>1, <1>2 DEF Goes, Moves, Moved, SameItems, SameAmounts, Thread

LEMMA EvictorMoves ==
    ASSUME TInv, NEW t \in Threads, NEW p \in Label, NEW n \in Nat,
           th' = [th EXCEPT ![t] = [@ EXCEPT !.amount = th[t].amount - n,
                                             !.freed_tot = th[t].freed_tot + n,
                                             !.got = NULL, !.pc = p]]
    PROVE  /\ Moves(t, p) /\ th'[t].as = th[t].as /\ th'[t].mine = th[t].mine
           /\ th'[t].it = th[t].it /\ th'[t].got = NULL
           /\ th'[t].amount = th[t].amount - n /\ th'[t].freed_tot = th[t].freed_tot + n
<1> DEFINE a == th[t].amount - n
           f == th[t].freed_tot + n
           r == [th[t] EXCEPT !.amount = a, !.freed_tot = f, !.got = NULL, !.pc = p]
<1>0. th' = [th EXCEPT ![t] = r]
  OBVIOUS
<1>1. th \in [Threads -> Thread] /\ th[t] \in Thread /\ NULL \in 0 .. NumBlocks
  BY KeyTypes DEF TInv, TypeOK
<1>2. a \in Int /\ f \in Nat
  BY <1>1 DEF Thread
<1> HIDE DEF a, f
<1>3. r \in Thread
  BY <1>1, <1>2 DEF Thread
<1>4. /\ r.pc = p /\ r.amount = a /\ r.freed_tot = f
      /\ r.as = th[t].as /\ r.mine = th[t].mine /\ r.it = th[t].it /\ r.got = NULL
      /\ r.op = th[t].op /\ r.key = th[t].key /\ r.ver = th[t].ver
      /\ r.frags = th[t].frags
  BY <1>1 DEF Thread
<1> HIDE DEF r
<1> QED BY <1>0, <1>1, <1>3, <1>4 DEF Moves, Moved, a, f

LEMMA IdleType == Idle \in Thread
BY KeyTypes DEF Idle, Thread, Label

LEMMA ReturnMoves ==
    ASSUME TInv, NEW t \in Threads, Return(t)
    PROVE  Returns(t)
BY IdleType DEF Return, Returns, Moved, TInv, TypeOK

\* What a step of t leaves of the others.
LEMMA OthersStand ==
    ASSUME TInv, NEW t \in Threads, Moved(t),
           \A b \in Buckets : entryLock[b] \in Threads \ {t} => entryLock'[b] = entryLock[b],
           \A b \in Buckets : barrier[b] \in Threads \ {t} => barrier'[b] = barrier[b],
           evict_lock \in Threads \ {t} => evict_lock' = evict_lock
    PROVE  \A u \in Threads \ {t} : PointersOf(u)' /\ LocksOf(u)' /\ AmountsOf(u)'
<1>2. ASSUME NEW u \in Threads \ {t}
      PROVE  PointersOf(u)' /\ LocksOf(u)' /\ AmountsOf(u)'
  <2>1. th'[u] = th[u]
    BY DEF Moved
  <2>2. PointersOf(u) /\ LocksOf(u) /\ AmountsOf(u)
    BY DEF TInv
  <2>3. PointersOf(u)' /\ AmountsOf(u)'
    BY <2>1, <2>2 DEF PointersOf, AmountsOf
  <2>4. th[u].pc \in InEntry => B(u) \in Buckets /\ B(u)' = B(u)
    BY <2>1, <2>2, KeyTypes DEF PointersOf, B, Hv, InEntry, Inside, Writing
  <2>5. Inside \subseteq InEntry
    BY DEF InEntry
  <2>6. LocksOf(u)'
    BY <2>1, <2>2, <2>4, <2>5 DEF LocksOf
  <2> QED BY <2>3, <2>6
<1> QED BY <1>2

\* What t's pointers lead to.
LEMMA StateTypes ==
    ASSUME TInv
    PROVE  /\ entryLock \in [Buckets -> Threads \cup {Nobody}]
           /\ barrier \in [Buckets -> Threads \cup {Nobody}]
           /\ valid \in [Buckets -> BOOLEAN]
           /\ chain \in [Buckets -> 0 .. NumBlocks]
           /\ block \in [Blocks -> Header]
           /\ lru \in Seq(Blocks) /\ free \in Seq(Blocks)
           /\ num_free_blocks \in Int
           /\ evict_lock \in Threads \cup {Nobody}
           /\ th \in [Threads -> Thread]
           /\ calls \in 0 .. MaxCalls
           /\ leaked \subseteq Blocks
           /\ CountCovers
BY DEF TInv, TypeOK

LEMMA PoppingFinite ==
    /\ IsFiniteSet(Popping) /\ Cardinality(Popping) \in Nat
    /\ Cardinality(Popping) <= Cardinality(Threads)
    /\ Cardinality(Threads) \in Nat
BY ThreadsAssumption, FS_Subset, FS_CardinalityType DEF Popping

LEMMA PoppingFiniteAfter ==
    /\ IsFiniteSet(Popping') /\ Cardinality(Popping') \in Nat
    /\ Cardinality(Popping') <= Cardinality(Threads)
<1>1. Popping' \subseteq Threads
  BY DEF Popping
<1> QED BY <1>1, ThreadsAssumption, FS_Subset, FS_CardinalityType

LEMMA ThreadTypes ==
    ASSUME TInv, NEW t \in Threads
    PROVE  /\ th[t] \in Thread /\ PointersOf(t) /\ LocksOf(t) /\ AmountsOf(t)
           /\ th[t].pc \in Label /\ th[t].op \in {"get", "set"}
           /\ th[t].ver \in Nat /\ th[t].frags \in Nat
           /\ th[t].amount \in Int /\ th[t].freed_tot \in Nat
           /\ th[t].it \in 0 .. NumBlocks /\ th[t].mine \in 0 .. NumBlocks
           /\ th[t].got \in 0 .. NumBlocks
BY DEF TInv, TypeOK, Thread

LEMMA HeaderTypes ==
    ASSUME TInv, NEW x \in Blocks
    PROVE  /\ block[x] \in Header
           /\ block[x].next \in 0 .. NumBlocks /\ block[x].prev \in 0 .. NumBlocks
           /\ block[x].hv \in Nat /\ block[x].size \in Nat /\ block[x].slock \in Nat
           /\ block[x].ver \in Nat /\ block[x].readers \in 0 .. 255
           /\ block[x].frags \in Seq(Blocks) /\ block[x].lock \in BOOLEAN
           /\ block[x].state \in {"-", "r", "w"} /\ Bucket(block[x].hv) \in Buckets
BY KeyTypes, ZenonT(40) DEF TInv, TypeOK, Header

LEMMA PointerTypes ==
    ASSUME TInv, NEW t \in Threads
    PROVE  /\ th[t].it # NULL => th[t].it \in Blocks
           /\ th[t].pc \in {"state", "choose", "own", "pass", "leave", "copy"} =>
                 th[t].it \in Blocks
           /\ th[t].pc \in {"try", "unchain", "reclaim", "fill", "count"} =>
                 th[t].got \in Blocks
           /\ th[t].mine # NULL => th[t].mine \in Blocks
           /\ th[t].pc \in {"drop", "count", "finish"} => th[t].mine \in Blocks
           /\ th[t].pc # "idle" =>
                 /\ th[t].key \in Keys /\ Hv(t) \in Nat \ {0} /\ B(t) \in Buckets
                 /\ chain[B(t)] \in 0 .. NumBlocks /\ valid[B(t)] \in BOOLEAN
<1>1. th[t].pc # "idle" => Hv(t) \in Nat \ {0} /\ B(t) \in Buckets
  BY ThreadTypes, KeyTypes DEF PointersOf, B, Hv
<1> QED BY <1>1, ThreadTypes, StateTypes, KeyTypes DEF PointersOf

HarmsTyped == harm' \subseteq {"walk", "locks", "count"}

LEMMA ZeroType == Zero \in Header
BY KeyTypes DEF Zero, Header

LEMMA AfterWriteLabels ==
    ASSUME NEW m \in Nat, NEW n \in Nat
    PROVE  /\ AfterWrite(m, n) \in {"room", "drop", "finish"}
           /\ AfterWrite(m, n) = "room" <=> m < n
           /\ AfterWrite(m, n) = "drop" <=> m > n
           /\ AfterWrite(m, n) = "finish" <=> m = n
BY DEF AfterWrite

\* What a step leaves of the data, and of the locks that others have.
DataTyped ==
    /\ HarmsTyped
    /\ valid' \in [Buckets -> BOOLEAN] /\ chain' \in [Buckets -> 0 .. NumBlocks]
    /\ block' \in [Blocks -> Header]
    /\ lru' \in Seq(Blocks) /\ free' \in Seq(Blocks) /\ num_free_blocks' \in Int
    /\ calls' \in 0 .. MaxCalls /\ leaked' \subseteq Blocks

LocksLeft(t) ==
    /\ entryLock' \in [Buckets -> Threads \cup {Nobody}]
    /\ barrier' \in [Buckets -> Threads \cup {Nobody}]
    /\ evict_lock' \in Threads \cup {Nobody}
    /\ \A b \in Buckets : entryLock[b] \in Threads \ {t} => entryLock'[b] = entryLock[b]
    /\ \A b \in Buckets : barrier[b] \in Threads \ {t} => barrier'[b] = barrier[b]
    /\ evict_lock \in Threads \ {t} => evict_lock' = evict_lock

\* The invariant after a step of t, put together.
LEMMA TStep ==
    ASSUME TInv, NEW t \in Threads, DataTyped, Moved(t), LocksLeft(t),
           PointersOf(t)', AmountsOf(t)', LocksOf(t)', CountCovers'
    PROVE  TInv'
<1>1. \A u \in Threads \ {t} : PointersOf(u)' /\ LocksOf(u)' /\ AmountsOf(u)'
  BY OthersStand DEF LocksLeft
<1>2. num_free_blocks' \in Int /\ (FewThreads => num_free_blocks' \in Nat)
  BY PoppingFiniteAfter DEF CountCovers, DataTyped
<1>3. TypeOK'
  BY <1>2 DEF TypeOK, HarmsTyped, DataTyped, LocksLeft, Moved, FewThreads
<1> QED BY <1>1, <1>3 DEF TInv

\* Neither before nor after the step is t about to take a block.
LEMMA SamePopping ==
    ASSUME TInv, NEW t \in Threads, Moved(t), th[t].pc # "pop", th'[t].pc # "pop",
           num_free_blocks' \in Int, num_free_blocks' >= num_free_blocks
    PROVE  CountCovers'
<1>1. Popping' = Popping
  BY DEF Popping, At, Moved
<1> QED BY <1>1, PoppingFinite, StateTypes DEF CountCovers, FewThreads

\* With few threads, the count has not wrapped and there are enough blocks for all.
LEMMA AllMayPop ==
    ASSUME TInv, NEW t \in Threads, Moved(t),
           num_free_blocks' = num_free_blocks, ~Short
    PROVE  CountCovers'
<1> SUFFICES ASSUME FewThreads PROVE num_free_blocks' >= Cardinality(Popping')
  BY DEF CountCovers, FewThreads
<1>1. num_free_blocks \in Nat
  BY DEF TInv, TypeOK
<1>2. num_free_blocks >= EvictPoint
  BY <1>1, KeyTypes DEF Short
<1> QED BY <1>1, <1>2, PoppingFinite, PoppingFiniteAfter, KeyTypes DEF FewThreads

\* A header or a thread's record stays one when a field changes within its type.
LEMMA HeaderWith ==
    ASSUME NEW h \in Header
    PROVE  /\ [h EXCEPT !.slock = 0] \in Header
           /\ [h EXCEPT !.slock = 1] \in Header
           /\ [h EXCEPT !.lock = TRUE] \in Header
           /\ [h EXCEPT !.lock = FALSE] \in Header
           /\ [h EXCEPT !.slock = 0, !.lock = TRUE] \in Header
           /\ [h EXCEPT !.state = "r", !.readers = 1] \in Header
           /\ [h EXCEPT !.state = "-", !.lock = FALSE] \in Header
           /\ [h EXCEPT !.readers = 0, !.state = "-", !.lock = FALSE] \in Header
<1>1. /\ [h EXCEPT !.slock = 0] \in Header
      /\ [h EXCEPT !.slock = 1] \in Header
      /\ [h EXCEPT !.lock = TRUE] \in Header
      /\ [h EXCEPT !.lock = FALSE] \in Header
      /\ [h EXCEPT !.slock = 0, !.lock = TRUE] \in Header
      /\ [h EXCEPT !.state = "-", !.lock = FALSE] \in Header
  BY SMTT(30), ZenonT(40) DEF Header
<1>2. ASSUME NEW n \in 0 .. 255
      PROVE  /\ [h EXCEPT !.state = "r", !.readers = n] \in Header
             /\ [h EXCEPT !.readers = n, !.state = "-", !.lock = FALSE] \in Header
  BY DEF Header
<1>3. 0 \in 0 .. 255 /\ 1 \in 0 .. 255
  OBVIOUS
<1> QED BY <1>1, <1>2, <1>3

LEMMA HeaderReaders ==
    ASSUME NEW h \in Header, NEW n \in 0 .. 255
    PROVE  /\ [h EXCEPT !.readers = n] \in Header
           /\ [h EXCEPT !.slock = 0, !.readers = n] \in Header
BY DEF Header

LEMMA HeaderLinks ==
    ASSUME NEW h \in Header, NEW x \in 0 .. NumBlocks
    PROVE  [h EXCEPT !.next = x] \in Header /\ [h EXCEPT !.prev = x] \in Header
BY DEF Header

LEMMA SmallNumbers ==
    /\ 0 \in Nat /\ 1 \in Nat /\ 0 \in 0 .. 255 /\ 1 \in 0 .. 255
    /\ \A n \in 0 .. 255 : n \in Int /\ (n + 1) % 256 \in 0 .. 255
                                    /\ (n + 255) % 256 \in 0 .. 255
OBVIOUS

LEMMA ReleasedType ==
    ASSUME TInv, NEW x \in Blocks
    PROVE  Released(block[x]) \in Header
<1>1. CASE (block[x].readers + 255) % 256 = 0
  <2>1. [block[x] EXCEPT !.readers = 0, !.state = "-", !.lock = FALSE] \in Header
    BY HeaderTypes, HeaderWith
  <2> QED BY <1>1, <2>1 DEF Released
<1>2. CASE (block[x].readers + 255) % 256 # 0
  <2>1. (block[x].readers + 255) % 256 \in 0 .. 255
    BY HeaderTypes, SmallNumbers, ZenonT(40)
  <2>2. [block[x] EXCEPT !.readers = (block[x].readers + 255) % 256] \in Header
    BY <2>1, HeaderTypes, HeaderReaders, ZenonT(40)
  <2> QED BY <1>2, <2>2 DEF Released
<1> QED BY <1>1, <1>2

LEMMA EvictedType ==
    ASSUME TInv, NEW x \in Blocks, NEW f \in Seq(Blocks)
    PROVE  Evicted(x, f) \in [Blocks -> Header]
<1>1. [Zero EXCEPT !.slock = 1 + Len(f)] \in Header
  <2>1. 1 + Len(f) \in Nat
    OBVIOUS
  <2> QED BY <2>1, ZeroType DEF Header
<1> QED BY <1>1, ZeroType DEF Evicted, TInv, TypeOK

LEMMA BeginGetDoes ==
    ASSUME TInv, NEW t \in Threads, NEW k \in Keys, BeginGet(t, k)
    PROVE  /\ th[t].pc = "idle"
           /\ UNCHANGED <<entryLock, barrier, valid, chain, block, lru,
                          free, num_free_blocks, evict_lock, leaked>>
           /\ Moved(t) /\ th'[t].pc = "enter" /\ th'[t].key \in Keys
           /\ th'[t].as = "insert" /\ th'[t].it = NULL /\ th'[t].mine = NULL /\ th'[t].got = NULL
<1>0. /\ th[t].pc = "idle"
      /\ UNCHANGED <<entryLock, barrier, valid, chain, block, lru,
                     free, num_free_blocks, evict_lock, leaked>>
  BY DEF BeginGet, At, table, lists
<1>1. /\ Moved(t) /\ th'[t].pc = "enter" /\ th'[t].key \in Keys
      /\ th'[t].as = "insert" /\ th'[t].it = NULL /\ th'[t].mine = NULL /\ th'[t].got = NULL
  <2> DEFINE r == [Idle EXCEPT !.pc = "enter", !.key = k]
  <2>1. r \in Thread
    BY IdleType DEF Idle, Thread, Label
  <2>2. th' = [th EXCEPT ![t] = r]
    BY DEF BeginGet
  <2> QED BY <2>1, <2>2 DEF Moved, Idle, TInv, TypeOK, Thread
<1> QED BY <1>0, <1>1

LEMMA BeginGetTypes ==
    ASSUME TInv, NEW t \in Threads, NEW k \in Keys, HarmsTyped, BeginGet(t, k)
    PROVE  TInv'
<1>1. Moved(t)
  BY BeginGetDoes DEF Goes, Moves, Returns
<1>2. calls' \in 0 .. MaxCalls
  BY StateTypes, BlocksAssumption DEF BeginGet
<1>3. PointersOf(t)' /\ AmountsOf(t)'
  BY BeginGetDoes, ThreadTypes, PointerTypes
  DEF PointersOf, AmountsOf, Writing, Choosing, Evicting,
      Goes, Moves, SameItems, SameAmounts, Returns, Idle
<1>4. LocksOf(t)'
  <2>1. th'[t].pc \in InEntry => B(t)' = B(t)
    BY BeginGetDoes DEF B, Hv, InEntry, Inside, Writing, Goes, Moves, SameItems, SameAmounts, Returns, Idle
  <2> QED BY BeginGetDoes, <2>1, ThreadTypes, PointerTypes, StateTypes
          DEF LocksOf, InEntry, Inside, Writing, Evicting, Choosing,
              Goes, Moves, SameItems, SameAmounts, Returns, Idle
<1>5. CountCovers'
  <2>1. th[t].pc # "pop" /\ th'[t].pc # "pop"
    BY BeginGetDoes DEF Goes, Moves, Returns, Idle
  <2>2. num_free_blocks' \in Int /\ num_free_blocks' >= num_free_blocks
    BY BeginGetDoes, StateTypes
  <2> QED BY <1>1, <2>1, <2>2, SamePopping
<1>6. DataTyped
  BY BeginGetDoes, <1>2, StateTypes DEF DataTyped
<1>7. LocksLeft(t)
  BY BeginGetDoes, StateTypes, ThreadTypes, PointerTypes
  DEF LocksLeft, LocksOf, InEntry, Inside, Evicting, Choosing, Writing
<1> QED BY <1>1, <1>3, <1>4, <1>5, <1>6, <1>7, TStep

LEMMA BeginSetDoes ==
    ASSUME TInv, NEW t \in Threads, NEW k \in Keys, NEW w \in Writes, BeginSet(t, k, w)
    PROVE  /\ th[t].pc = "idle"
           /\ UNCHANGED <<entryLock, barrier, valid, chain, block, lru,
                          free, num_free_blocks, evict_lock, leaked>>
           /\ Moved(t) /\ th'[t].pc = "enter" /\ th'[t].key \in Keys
           /\ th'[t].as = "insert" /\ th'[t].it = NULL /\ th'[t].mine = NULL /\ th'[t].got = NULL
<1>0. /\ th[t].pc = "idle"
      /\ UNCHANGED <<entryLock, barrier, valid, chain, block, lru,
                     free, num_free_blocks, evict_lock, leaked>>
  BY DEF BeginSet, At, table, lists
<1>1. /\ Moved(t) /\ th'[t].pc = "enter" /\ th'[t].key \in Keys
      /\ th'[t].as = "insert" /\ th'[t].it = NULL /\ th'[t].mine = NULL /\ th'[t].got = NULL
  <2> DEFINE r == [Idle EXCEPT !.pc = "enter", !.op = "set", !.key = k, !.ver = w[1],
                      !.frags = w[2]]
  <2>1. r \in Thread
    <3>1. w[1] \in Nat /\ w[2] \in Nat
      BY BlocksAssumption
    <3> QED BY <3>1, IdleType DEF Idle, Thread, Label
  <2>2. th' = [th EXCEPT ![t] = r]
    BY DEF BeginSet
  <2> QED BY <2>1, <2>2 DEF Moved, Idle, TInv, TypeOK, Thread
<1> QED BY <1>0, <1>1

LEMMA BeginSetTypes ==
    ASSUME TInv, NEW t \in Threads, NEW k \in Keys, NEW w \in Writes, HarmsTyped, BeginSet(t, k, w)
    PROVE  TInv'
<1>1. Moved(t)
  BY BeginSetDoes DEF Goes, Moves, Returns
<1>2. calls' \in 0 .. MaxCalls
  BY StateTypes, BlocksAssumption DEF BeginSet
<1>3. PointersOf(t)' /\ AmountsOf(t)'
  BY BeginSetDoes, ThreadTypes, PointerTypes
  DEF PointersOf, AmountsOf, Writing, Choosing, Evicting,
      Goes, Moves, SameItems, SameAmounts, Returns, Idle
<1>4. LocksOf(t)'
  <2>1. th'[t].pc \in InEntry => B(t)' = B(t)
    BY BeginSetDoes DEF B, Hv, InEntry, Inside, Writing, Goes, Moves, SameItems, SameAmounts, Returns, Idle
  <2> QED BY BeginSetDoes, <2>1, ThreadTypes, PointerTypes, StateTypes
          DEF LocksOf, InEntry, Inside, Writing, Evicting, Choosing,
              Goes, Moves, SameItems, SameAmounts, Returns, Idle
<1>5. CountCovers'
  <2>1. th[t].pc # "pop" /\ th'[t].pc # "pop"
    BY BeginSetDoes DEF Goes, Moves, Returns, Idle
  <2>2. num_free_blocks' \in Int /\ num_free_blocks' >= num_free_blocks
    BY BeginSetDoes, StateTypes
  <2> QED BY <1>1, <2>1, <2>2, SamePopping
<1>6. DataTyped
  BY BeginSetDoes, <1>2, StateTypes DEF DataTyped
<1>7. LocksLeft(t)
  BY BeginSetDoes, StateTypes, ThreadTypes, PointerTypes
  DEF LocksLeft, LocksOf, InEntry, Inside, Evicting, Choosing, Writing
<1> QED BY <1>1, <1>3, <1>4, <1>5, <1>6, <1>7, TStep

LEMMA EnterDoes ==
    ASSUME TInv, NEW t \in Threads, Enter(t)
    PROVE  /\ th[t].pc = "enter"
           /\ UNCHANGED <<barrier, valid, chain, block, lru, free,
                          num_free_blocks, evict_lock, calls, leaked>>
           /\ \/ th[t].op = "get" /\ Goes(t, "barrier", chain[B(t)])
              \/ th[t].op = "set" /\ Goes(t, "head", th[t].it)
              \/ th[t].op = "set" /\ ~valid[B(t)] /\ Moves(t, "room") /\ SameAmounts(t)
                 /\ th'[t].it = th[t].it /\ th'[t].mine = th[t].mine /\ th'[t].got = th[t].got
                 /\ th'[t].as = "first"
           /\ entryLock[B(t)] = Nobody /\ entryLock' = [entryLock EXCEPT ![B(t)] = t]
<1>0. /\ th[t].pc = "enter"
      /\ UNCHANGED <<barrier, valid, chain, block, lru, free,
                     num_free_blocks, evict_lock, calls, leaked>>
  BY DEF Enter, At, table, lists
<1>1. \/ th[t].op = "get" /\ Goes(t, "barrier", chain[B(t)])
      \/ th[t].op = "set" /\ Goes(t, "head", th[t].it)
      \/ th[t].op = "set" /\ ~valid[B(t)] /\ Moves(t, "room") /\ SameAmounts(t)
         /\ th'[t].it = th[t].it /\ th'[t].mine = th[t].mine /\ th'[t].got = th[t].got
         /\ th'[t].as = "first"
  <2>1. CASE th[t].op = "get"
    <3>1. chain[B(t)] \in 0 .. NumBlocks
      BY <1>0, PointerTypes
    <3>2. th' = [th EXCEPT ![t] = [@ EXCEPT !.pc = "barrier", !.it = chain[B(t)]]]
      BY <2>1 DEF Enter
    <3> QED BY <2>1, <3>1, <3>2, AtMoves DEF Label
  <2>2. CASE th[t].op = "set" /\ valid[B(t)]
    BY <1>0, <2>2, ThreadTypes, GotoMoves DEF Enter, Label, Goto
  <2>3. CASE th[t].op = "set" /\ ~valid[B(t)]
    <3>1. th' = [th EXCEPT ![t] = [th[t] EXCEPT !.pc = "room", !.as = "first"]]
      BY <2>3 DEF Enter
    <3>2. [th[t] EXCEPT !.pc = "room", !.as = "first"] \in Thread
      BY ThreadTypes, ZenonT(40) DEF Thread, Label
    <3> QED BY <2>3, <3>1, <3>2 DEF TInv, TypeOK, Moves, Moved, SameAmounts, Thread
  <2> QED BY <2>1, <2>2, <2>3, ThreadTypes DEF Thread
<1>2. entryLock[B(t)] = Nobody /\ entryLock' = [entryLock EXCEPT ![B(t)] = t]
  BY DEF Enter, Take
<1> QED BY <1>0, <1>1, <1>2

LEMMA EnterTypes ==
    ASSUME TInv, NEW t \in Threads, HarmsTyped, Enter(t)
    PROVE  TInv'
<1>1. Moved(t)
  BY EnterDoes DEF Goes, Moves, Returns
<1>2. PointersOf(t)' /\ AmountsOf(t)'
  BY EnterDoes, ThreadTypes, PointerTypes
  DEF PointersOf, AmountsOf, Writing, Choosing, Evicting,
      Goes, Moves, SameItems, SameAmounts, Returns, Idle
<1>3. LocksOf(t)'
  <2>1. th'[t].pc \in InEntry => B(t)' = B(t)
    BY EnterDoes DEF B, Hv, InEntry, Inside, Writing, Goes, Moves, SameItems, SameAmounts, Returns, Idle
  <2>2. B(t) \in Buckets /\ entryLock'[B(t)] = t
    BY EnterDoes, PointerTypes, StateTypes
  <2> QED BY EnterDoes, <2>1, <2>2, ThreadTypes
          DEF LocksOf, InEntry, Inside, Writing, Evicting, Choosing,
              Goes, Moves, SameItems, SameAmounts, Returns, Idle
<1>4. CountCovers'
  <2>1. th[t].pc # "pop" /\ th'[t].pc # "pop"
    BY EnterDoes DEF Goes, Moves, Returns, Idle
  <2>2. num_free_blocks' \in Int /\ num_free_blocks' >= num_free_blocks
    BY EnterDoes, StateTypes
  <2> QED BY <1>1, <2>1, <2>2, SamePopping
<1>5. DataTyped
  BY EnterDoes, StateTypes DEF DataTyped
<1>6. LocksLeft(t)
  <2>1. /\ UNCHANGED <<barrier, evict_lock>> /\ entryLock[B(t)] = Nobody
        /\ entryLock' = [entryLock EXCEPT ![B(t)] = t]
    BY EnterDoes
  <2> QED BY <2>1, StateTypes, KeyTypes DEF LocksLeft
<1> QED BY <1>1, <1>2, <1>3, <1>4, <1>5, <1>6, TStep

LEMMA ReadHeadDoes ==
    ASSUME TInv, NEW t \in Threads, ReadHead(t)
    PROVE  /\ th[t].pc = "head"
           /\ UNCHANGED <<entryLock, valid, chain, block, lru, free,
                          num_free_blocks, evict_lock, calls, leaked>>
           /\ Goes(t, "walk", chain[B(t)])
           /\ barrier[B(t)] = Nobody /\ barrier' = [barrier EXCEPT ![B(t)] = t]
<1>0. /\ th[t].pc = "head"
      /\ UNCHANGED <<entryLock, valid, chain, block, lru, free,
                     num_free_blocks, evict_lock, calls, leaked>>
  BY DEF ReadHead, At, table, lists
<1>1. Goes(t, "walk", chain[B(t)])
  BY <1>0, PointerTypes, HeaderTypes, AtMoves DEF ReadHead, Label, Here
<1>2. barrier[B(t)] = Nobody /\ barrier' = [barrier EXCEPT ![B(t)] = t]
  BY DEF ReadHead, Take
<1> QED BY <1>0, <1>1, <1>2

LEMMA ReadHeadTypes ==
    ASSUME TInv, NEW t \in Threads, HarmsTyped, ReadHead(t)
    PROVE  TInv'
<1>1. Moved(t)
  BY ReadHeadDoes DEF Goes, Moves, Returns
<1>2. PointersOf(t)' /\ AmountsOf(t)'
  BY ReadHeadDoes, ThreadTypes, PointerTypes
  DEF PointersOf, AmountsOf, Writing, Choosing, Evicting,
      Goes, Moves, SameItems, SameAmounts, Returns, Idle
<1>3. LocksOf(t)'
  <2>1. th'[t].pc \in InEntry => B(t)' = B(t)
    BY ReadHeadDoes DEF B, Hv, InEntry, Inside, Writing, Goes, Moves, SameItems, SameAmounts, Returns, Idle
  <2>2. B(t) \in Buckets /\ barrier'[B(t)] = t /\ entryLock' = entryLock
    BY ReadHeadDoes, PointerTypes, StateTypes
  <2> QED BY ReadHeadDoes, <2>1, <2>2, ThreadTypes
          DEF LocksOf, InEntry, Inside, Writing, Evicting, Choosing,
              Goes, Moves, SameItems, SameAmounts, Returns, Idle
<1>4. CountCovers'
  <2>1. th[t].pc # "pop" /\ th'[t].pc # "pop"
    BY ReadHeadDoes DEF Goes, Moves, Returns, Idle
  <2>2. num_free_blocks' \in Int /\ num_free_blocks' >= num_free_blocks
    BY ReadHeadDoes, StateTypes
  <2> QED BY <1>1, <2>1, <2>2, SamePopping
<1>5. DataTyped
  BY ReadHeadDoes, StateTypes DEF DataTyped
<1>6. LocksLeft(t)
  BY ReadHeadDoes, StateTypes, KeyTypes, ZenonT(40) DEF LocksLeft
<1> QED BY <1>1, <1>2, <1>3, <1>4, <1>5, <1>6, TStep

LEMMA TakeBarrierDoes ==
    ASSUME TInv, NEW t \in Threads, TakeBarrier(t)
    PROVE  /\ th[t].pc = "barrier"
           /\ UNCHANGED <<entryLock, valid, chain, block, lru, free,
                          num_free_blocks, evict_lock, calls, leaked>>
           /\ Goes(t, "walk", th[t].it)
           /\ barrier[B(t)] = Nobody /\ barrier' = [barrier EXCEPT ![B(t)] = t]
<1>0. /\ th[t].pc = "barrier"
      /\ UNCHANGED <<entryLock, valid, chain, block, lru, free,
                     num_free_blocks, evict_lock, calls, leaked>>
  BY DEF TakeBarrier, At, table, lists
<1>1. Goes(t, "walk", th[t].it)
  BY <1>0, GotoMoves DEF TakeBarrier, Label
<1>2. barrier[B(t)] = Nobody /\ barrier' = [barrier EXCEPT ![B(t)] = t]
  BY DEF TakeBarrier, Take
<1> QED BY <1>0, <1>1, <1>2

LEMMA TakeBarrierTypes ==
    ASSUME TInv, NEW t \in Threads, HarmsTyped, TakeBarrier(t)
    PROVE  TInv'
<1>1. Moved(t)
  BY TakeBarrierDoes DEF Goes, Moves, Returns
<1>2. PointersOf(t)' /\ AmountsOf(t)'
  BY TakeBarrierDoes, ThreadTypes, PointerTypes
  DEF PointersOf, AmountsOf, Writing, Choosing, Evicting,
      Goes, Moves, SameItems, SameAmounts, Returns, Idle
<1>3. LocksOf(t)'
  <2>1. th'[t].pc \in InEntry => B(t)' = B(t)
    BY TakeBarrierDoes DEF B, Hv, InEntry, Inside, Writing, Goes, Moves, SameItems, SameAmounts, Returns, Idle
  <2>2. B(t) \in Buckets /\ barrier'[B(t)] = t /\ entryLock' = entryLock
    BY TakeBarrierDoes, PointerTypes, StateTypes
  <2> QED BY TakeBarrierDoes, <2>1, <2>2, ThreadTypes
          DEF LocksOf, InEntry, Inside, Writing, Evicting, Choosing,
              Goes, Moves, SameItems, SameAmounts, Returns, Idle
<1>4. CountCovers'
  <2>1. th[t].pc # "pop" /\ th'[t].pc # "pop"
    BY TakeBarrierDoes DEF Goes, Moves, Returns, Idle
  <2>2. num_free_blocks' \in Int /\ num_free_blocks' >= num_free_blocks
    BY TakeBarrierDoes, StateTypes
  <2> QED BY <1>1, <2>1, <2>2, SamePopping
<1>5. DataTyped
  BY TakeBarrierDoes, StateTypes DEF DataTyped
<1>6. LocksLeft(t)
  BY TakeBarrierDoes, StateTypes, KeyTypes, ZenonT(40) DEF LocksLeft
<1> QED BY <1>1, <1>2, <1>3, <1>4, <1>5, <1>6, TStep

LEMMA WalkOnDoes ==
    ASSUME TInv, NEW t \in Threads, WalkOn(t)
    PROVE  /\ th[t].pc = "walk"
           /\ UNCHANGED <<entryLock, barrier, valid, chain, block, lru,
                          free, num_free_blocks, evict_lock, calls, leaked>>
           /\ th[t].it # NULL
           /\ \/ Here(t).hv = Hv(t) /\ Goes(t, "state", th[t].it)
              \/ Here(t).hv # Hv(t) /\ Goes(t, "walk", Here(t).next)
<1>0. /\ th[t].pc = "walk"
      /\ UNCHANGED <<entryLock, barrier, valid, chain, block, lru,
                     free, num_free_blocks, evict_lock, calls, leaked>>
      /\ th[t].it # NULL
  BY DEF WalkOn, At, table, lists
<1>1. \/ Here(t).hv = Hv(t) /\ Goes(t, "state", th[t].it)
      \/ Here(t).hv # Hv(t) /\ Goes(t, "walk", Here(t).next)
  <2>1. CASE Here(t).hv = Hv(t)
    BY <2>1, GotoMoves DEF WalkOn, Label, Goto
  <2>2. CASE Here(t).hv # Hv(t)
    <3>1. Here(t).next \in 0 .. NumBlocks
      BY <1>0, PointerTypes, HeaderTypes DEF Here
    <3>2. th' = [th EXCEPT ![t] = [@ EXCEPT !.it = Here(t).next]]
      BY <2>2 DEF WalkOn
    <3>3. [th[t] EXCEPT !.it = Here(t).next] \in Thread
      BY <3>1, ThreadTypes DEF Thread
    <3>4. th \in [Threads -> Thread]
      BY DEF TInv, TypeOK
    <3>5. Moved(t) /\ th'[t] = [th[t] EXCEPT !.it = Here(t).next]
      BY <3>2, <3>3, <3>4 DEF Moved
    <3> QED BY <1>0, <2>2, <3>3, <3>4, <3>5
            DEF Goes, Moves, SameItems, SameAmounts, Thread
  <2> QED BY <2>1, <2>2
<1> QED BY <1>0, <1>1

LEMMA WalkOnTypes ==
    ASSUME TInv, NEW t \in Threads, HarmsTyped, WalkOn(t)
    PROVE  TInv'
<1>1. Moved(t)
  BY WalkOnDoes DEF Goes, Moves, Returns
<1>2. PointersOf(t)' /\ AmountsOf(t)'
  BY WalkOnDoes, ThreadTypes, PointerTypes
  DEF PointersOf, AmountsOf, Writing, Choosing, Evicting,
      Goes, Moves, SameItems, SameAmounts, Returns, Idle
<1>3. LocksOf(t)'
  <2>1. th'[t].pc \in InEntry => B(t)' = B(t)
    BY WalkOnDoes DEF B, Hv, InEntry, Inside, Writing, Goes, Moves, SameItems, SameAmounts, Returns, Idle
  <2> QED BY WalkOnDoes, <2>1, ThreadTypes
          DEF LocksOf, InEntry, Inside, Writing, Evicting, Choosing,
              Goes, Moves, SameItems, SameAmounts, Returns, Idle
<1>4. CountCovers'
  <2>1. th[t].pc # "pop" /\ th'[t].pc # "pop"
    BY WalkOnDoes DEF Goes, Moves, Returns, Idle
  <2>2. num_free_blocks' \in Int /\ num_free_blocks' >= num_free_blocks
    BY WalkOnDoes, StateTypes
  <2> QED BY <1>1, <2>1, <2>2, SamePopping
<1>5. DataTyped
  BY WalkOnDoes, StateTypes DEF DataTyped
<1>6. LocksLeft(t)
  BY WalkOnDoes, StateTypes, ThreadTypes, PointerTypes
  DEF LocksLeft, LocksOf, InEntry, Inside, Evicting, Choosing, Writing
<1> QED BY <1>1, <1>2, <1>3, <1>4, <1>5, <1>6, TStep

LEMMA WalkEndsDoes ==
    ASSUME TInv, NEW t \in Threads, WalkEnds(t)
    PROVE  /\ th[t].pc = "walk"
           /\ UNCHANGED <<valid, chain, block, lru, free,
                          num_free_blocks, evict_lock, calls, leaked>>
           /\ \/ Returns(t) /\ entryLock' = [entryLock EXCEPT ![B(t)] = Nobody]
              \/ Goes(t, "room", th[t].it) /\ th[t].op = "set" /\ entryLock' = entryLock
           /\ barrier' = [barrier EXCEPT ![B(t)] = Nobody]
           /\ entryLock' \in {entryLock, [entryLock EXCEPT ![B(t)] = Nobody]}
<1>0. /\ th[t].pc = "walk"
      /\ UNCHANGED <<valid, chain, block, lru, free,
                     num_free_blocks, evict_lock, calls, leaked>>
  BY DEF WalkEnds, At, table, lists
<1>1. \/ Returns(t) /\ entryLock' = [entryLock EXCEPT ![B(t)] = Nobody]
      \/ Goes(t, "room", th[t].it) /\ th[t].op = "set" /\ entryLock' = entryLock
  <2>1. CASE th[t].op = "get"
    BY <2>1, ReturnMoves DEF WalkEnds, Drop
  <2>2. CASE th[t].op = "set"
    BY <2>2, GotoMoves DEF WalkEnds, Label
  <2> QED BY <2>1, <2>2, ThreadTypes DEF Thread
<1>2. /\ barrier' = [barrier EXCEPT ![B(t)] = Nobody]
      /\ entryLock' \in {entryLock, [entryLock EXCEPT ![B(t)] = Nobody]}
  BY <1>1 DEF WalkEnds, Drop
<1> QED BY <1>0, <1>1, <1>2

LEMMA WalkEndsTypes ==
    ASSUME TInv, NEW t \in Threads, HarmsTyped, WalkEnds(t)
    PROVE  TInv'
<1>1. Moved(t)
  BY WalkEndsDoes DEF Goes, Moves, Returns
<1>2. PointersOf(t)' /\ AmountsOf(t)'
  BY WalkEndsDoes, ThreadTypes, PointerTypes
  DEF PointersOf, AmountsOf, Writing, Choosing, Evicting,
      Goes, Moves, SameItems, SameAmounts, Returns, Idle
<1>3. LocksOf(t)'
  <2>1. CASE Returns(t)
    BY <2>1 DEF LocksOf, InEntry, Inside, Writing, Evicting, Choosing, Returns, Idle
  <2>2. CASE Goes(t, "room", th[t].it) /\ entryLock' = entryLock
    <3>1. B(t)' = B(t)
      BY <2>2 DEF B, Hv, Goes, Moves
    <3> QED BY WalkEndsDoes, <2>2, <3>1, ThreadTypes
            DEF LocksOf, InEntry, Inside, Writing, Evicting, Choosing, Goes, Moves
  <2> QED BY WalkEndsDoes, <2>1, <2>2
<1>4. CountCovers'
  <2>1. th[t].pc # "pop" /\ th'[t].pc # "pop"
    BY WalkEndsDoes DEF Goes, Moves, Returns, Idle
  <2>2. num_free_blocks' \in Int /\ num_free_blocks' >= num_free_blocks
    BY WalkEndsDoes, StateTypes
  <2> QED BY <1>1, <2>1, <2>2, SamePopping
<1>5. DataTyped
  BY WalkEndsDoes, StateTypes DEF DataTyped
<1>6. LocksLeft(t)
  <2>1. entryLock[B(t)] = t /\ barrier[B(t)] = t
    BY WalkEndsDoes, ThreadTypes DEF LocksOf, InEntry, Inside
  <2>2. /\ UNCHANGED evict_lock /\ barrier' = [barrier EXCEPT ![B(t)] = Nobody]
        /\ entryLock' \in {entryLock, [entryLock EXCEPT ![B(t)] = Nobody]}
    BY WalkEndsDoes
  <2> QED BY <2>1, <2>2, StateTypes DEF LocksLeft
<1> QED BY <1>1, <1>2, <1>3, <1>4, <1>5, <1>6, TStep

LEMMA TakeStateDoes ==
    ASSUME TInv, NEW t \in Threads, TakeState(t)
    PROVE  /\ th[t].pc = "state"
           /\ UNCHANGED <<entryLock, barrier, valid, chain, lru, free,
                          num_free_blocks, evict_lock, calls, leaked>>
           /\ Goes(t, "choose", th[t].it)
<1>0. /\ th[t].pc = "state"
      /\ UNCHANGED <<entryLock, barrier, valid, chain, lru, free,
                     num_free_blocks, evict_lock, calls, leaked>>
  BY DEF TakeState, At, table, lists
<1>1. Goes(t, "choose", th[t].it)
  BY <1>0, GotoMoves DEF TakeState, Label
<1> QED BY <1>0, <1>1

LEMMA TakeStateTypes ==
    ASSUME TInv, NEW t \in Threads, HarmsTyped, TakeState(t)
    PROVE  TInv'
<1>1. Moved(t)
  BY TakeStateDoes DEF Goes, Moves, Returns
<1>2. block' \in [Blocks -> Header]
  <2>1. th[t].it \in Blocks
    BY TakeStateDoes, PointerTypes
  <2>2. [block[th[t].it] EXCEPT !.slock = 1] \in Header
    BY <2>1, HeaderTypes, HeaderWith
  <2> QED BY <2>1, <2>2, StateTypes DEF TakeState, Here
<1>3. PointersOf(t)' /\ AmountsOf(t)'
  BY TakeStateDoes, ThreadTypes, PointerTypes
  DEF PointersOf, AmountsOf, Writing, Choosing, Evicting,
      Goes, Moves, SameItems, SameAmounts, Returns, Idle
<1>4. LocksOf(t)'
  <2>1. th'[t].pc \in InEntry => B(t)' = B(t)
    BY TakeStateDoes DEF B, Hv, InEntry, Inside, Writing, Goes, Moves, SameItems, SameAmounts, Returns, Idle
  <2> QED BY TakeStateDoes, <2>1, ThreadTypes
          DEF LocksOf, InEntry, Inside, Writing, Evicting, Choosing,
              Goes, Moves, SameItems, SameAmounts, Returns, Idle
<1>5. CountCovers'
  <2>1. th[t].pc # "pop" /\ th'[t].pc # "pop"
    BY TakeStateDoes DEF Goes, Moves, Returns, Idle
  <2>2. num_free_blocks' \in Int /\ num_free_blocks' >= num_free_blocks
    BY TakeStateDoes, StateTypes
  <2> QED BY <1>1, <2>1, <2>2, SamePopping
<1>6. DataTyped
  BY TakeStateDoes, <1>2, StateTypes DEF DataTyped
<1>7. LocksLeft(t)
  BY TakeStateDoes, StateTypes, ThreadTypes, PointerTypes
  DEF LocksLeft, LocksOf, InEntry, Inside, Evicting, Choosing, Writing
<1> QED BY <1>1, <1>3, <1>4, <1>5, <1>6, <1>7, TStep

LEMMA GetSharesDoes ==
    ASSUME TInv, NEW t \in Threads, GetShares(t)
    PROVE  /\ th[t].pc = "choose"
           /\ UNCHANGED <<entryLock, barrier, valid, chain, free,
                          num_free_blocks, evict_lock, calls, leaked>>
           /\ th[t].op = "get"
           /\ Goes(t, "leave", th[t].it) \/ Goes(t, "pass", th[t].it)
<1>0. /\ th[t].pc = "choose"
      /\ UNCHANGED <<entryLock, barrier, valid, chain, free,
                     num_free_blocks, evict_lock, calls, leaked>>
      /\ th[t].op = "get"
  BY DEF GetShares, At, table, lists
<1>1. Goes(t, "leave", th[t].it) \/ Goes(t, "pass", th[t].it)
  BY <1>0, GotoMoves DEF GetShares, Label
<1> QED BY <1>0, <1>1

LEMMA GetSharesTypes ==
    ASSUME TInv, NEW t \in Threads, HarmsTyped, GetShares(t)
    PROVE  TInv'
<1>1. Moved(t)
  BY GetSharesDoes DEF Goes, Moves, Returns
<1>2. block' \in [Blocks -> Header] /\ lru' \in Seq(Blocks)
  <2>1. th[t].it \in Blocks /\ lru \in Seq(Blocks)
    BY GetSharesDoes, PointerTypes, StateTypes
  <2>2. block' \in [Blocks -> Header]
    <3>1. (Here(t).readers + 1) % 256 \in 0 .. 255
      BY <2>1, HeaderTypes, SmallNumbers DEF Here
    <3>2. [Here(t) EXCEPT !.slock = 0, !.readers = (Here(t).readers + 1) % 256] \in Header
      BY <2>1, <3>1, HeaderTypes, HeaderReaders, ZenonT(40) DEF Here
    <3>3. block' = [block EXCEPT ![th[t].it] =
                      [Here(t) EXCEPT !.slock = 0, !.readers = (Here(t).readers + 1) % 256]]
      BY DEF GetShares, Here
    <3> QED BY <2>1, <3>2, <3>3, StateTypes
  <2> QED BY <2>1, <2>2, ToFrontFacts DEF GetShares
<1>3. PointersOf(t)' /\ AmountsOf(t)'
  BY GetSharesDoes, ThreadTypes, PointerTypes
  DEF PointersOf, AmountsOf, Writing, Choosing, Evicting,
      Goes, Moves, SameItems, SameAmounts, Returns, Idle
<1>4. LocksOf(t)'
  <2>1. th'[t].pc \in InEntry => B(t)' = B(t)
    BY GetSharesDoes DEF B, Hv, InEntry, Inside, Writing, Goes, Moves, SameItems, SameAmounts, Returns, Idle
  <2> QED BY GetSharesDoes, <2>1, ThreadTypes, PointerTypes, StateTypes
          DEF LocksOf, InEntry, Inside, Writing, Evicting, Choosing,
              Goes, Moves, SameItems, SameAmounts, Returns, Idle
<1>5. CountCovers'
  <2>1. th[t].pc # "pop" /\ th'[t].pc # "pop"
    BY GetSharesDoes DEF Goes, Moves, Returns, Idle
  <2>2. num_free_blocks' \in Int /\ num_free_blocks' >= num_free_blocks
    BY GetSharesDoes, StateTypes
  <2> QED BY <1>1, <2>1, <2>2, SamePopping
<1>6. DataTyped
  BY GetSharesDoes, <1>2, StateTypes DEF DataTyped
<1>7. LocksLeft(t)
  BY GetSharesDoes, StateTypes, ThreadTypes, PointerTypes
  DEF LocksLeft, LocksOf, InEntry, Inside, Evicting, Choosing, Writing
<1> QED BY <1>1, <1>3, <1>4, <1>5, <1>6, <1>7, TStep

LEMMA SetWaitsDoes ==
    ASSUME TInv, NEW t \in Threads, SetWaits(t)
    PROVE  /\ th[t].pc = "choose"
           /\ UNCHANGED <<entryLock, valid, chain, lru, free,
                          num_free_blocks, evict_lock, calls, leaked>>
           /\ Goes(t, "barrier", th[t].it)
           /\ barrier' = [barrier EXCEPT ![B(t)] = Nobody]
<1>0. /\ th[t].pc = "choose"
      /\ UNCHANGED <<entryLock, valid, chain, lru, free,
                     num_free_blocks, evict_lock, calls, leaked>>
  BY DEF SetWaits, At, table, lists
<1>1. Goes(t, "barrier", th[t].it)
  BY <1>0, GotoMoves DEF SetWaits, Label
<1>2. barrier' = [barrier EXCEPT ![B(t)] = Nobody]
  BY DEF SetWaits, Drop
<1> QED BY <1>0, <1>1, <1>2

LEMMA SetWaitsTypes ==
    ASSUME TInv, NEW t \in Threads, HarmsTyped, SetWaits(t)
    PROVE  TInv'
<1>1. Moved(t)
  BY SetWaitsDoes DEF Goes, Moves, Returns
<1>2. block' \in [Blocks -> Header]
  <2>1. th[t].it \in Blocks
    BY SetWaitsDoes, PointerTypes
  <2>2. [block[th[t].it] EXCEPT !.slock = 0] \in Header
    BY <2>1, HeaderTypes, HeaderWith
  <2> QED BY <2>1, <2>2, StateTypes DEF SetWaits, Here
<1>3. PointersOf(t)' /\ AmountsOf(t)'
  BY SetWaitsDoes, ThreadTypes, PointerTypes
  DEF PointersOf, AmountsOf, Writing, Choosing, Evicting,
      Goes, Moves, SameItems, SameAmounts, Returns, Idle
<1>4. LocksOf(t)'
  <2>1. th'[t].pc \in InEntry => B(t)' = B(t)
    BY SetWaitsDoes DEF B, Hv, InEntry, Inside, Writing, Goes, Moves, SameItems, SameAmounts, Returns, Idle
  <2> QED BY SetWaitsDoes, <2>1, ThreadTypes, PointerTypes, StateTypes, ZenonT(40)
          DEF LocksOf, InEntry, Inside, Writing, Evicting, Choosing,
              Goes, Moves, SameItems, SameAmounts, Returns, Idle
<1>5. CountCovers'
  <2>1. th[t].pc # "pop" /\ th'[t].pc # "pop"
    BY SetWaitsDoes DEF Goes, Moves, Returns, Idle
  <2>2. num_free_blocks' \in Int /\ num_free_blocks' >= num_free_blocks
    BY SetWaitsDoes, StateTypes
  <2> QED BY <1>1, <2>1, <2>2, SamePopping
<1>6. DataTyped
  BY SetWaitsDoes, <1>2, StateTypes DEF DataTyped
<1>7. LocksLeft(t)
  BY SetWaitsDoes, StateTypes, ThreadTypes, PointerTypes
  DEF LocksLeft, LocksOf, InEntry, Inside, Evicting, Choosing, Writing
<1> QED BY <1>1, <1>3, <1>4, <1>5, <1>6, <1>7, TStep

LEMMA TryItemDoes ==
    ASSUME TInv, NEW t \in Threads, TryItem(t)
    PROVE  /\ th[t].pc = "choose"
           /\ UNCHANGED <<entryLock, barrier, valid, chain, lru, free,
                          num_free_blocks, evict_lock, calls, leaked>>
           /\ Goes(t, "own", th[t].it)
<1>0. /\ th[t].pc = "choose"
      /\ UNCHANGED <<entryLock, barrier, valid, chain, lru, free,
                     num_free_blocks, evict_lock, calls, leaked>>
  BY DEF TryItem, At, table, lists
<1>1. Goes(t, "own", th[t].it)
  BY <1>0, GotoMoves DEF TryItem, Label
<1> QED BY <1>0, <1>1

LEMMA TryItemTypes ==
    ASSUME TInv, NEW t \in Threads, HarmsTyped, TryItem(t)
    PROVE  TInv'
<1>1. Moved(t)
  BY TryItemDoes DEF Goes, Moves, Returns
<1>2. block' \in [Blocks -> Header]
  <2>1. th[t].it \in Blocks
    BY TryItemDoes, PointerTypes
  <2>2. [block[th[t].it] EXCEPT !.slock = 0, !.lock = TRUE] \in Header
    BY <2>1, HeaderTypes, HeaderWith
  <2> QED BY <2>1, <2>2, StateTypes DEF TryItem, Here
<1>3. PointersOf(t)' /\ AmountsOf(t)'
  BY TryItemDoes, ThreadTypes, PointerTypes
  DEF PointersOf, AmountsOf, Writing, Choosing, Evicting,
      Goes, Moves, SameItems, SameAmounts, Returns, Idle
<1>4. LocksOf(t)'
  <2>1. th'[t].pc \in InEntry => B(t)' = B(t)
    BY TryItemDoes DEF B, Hv, InEntry, Inside, Writing, Goes, Moves, SameItems, SameAmounts, Returns, Idle
  <2> QED BY TryItemDoes, <2>1, ThreadTypes
          DEF LocksOf, InEntry, Inside, Writing, Evicting, Choosing,
              Goes, Moves, SameItems, SameAmounts, Returns, Idle
<1>5. CountCovers'
  <2>1. th[t].pc # "pop" /\ th'[t].pc # "pop"
    BY TryItemDoes DEF Goes, Moves, Returns, Idle
  <2>2. num_free_blocks' \in Int /\ num_free_blocks' >= num_free_blocks
    BY TryItemDoes, StateTypes
  <2> QED BY <1>1, <2>1, <2>2, SamePopping
<1>6. DataTyped
  BY TryItemDoes, <1>2, StateTypes DEF DataTyped
<1>7. LocksLeft(t)
  BY TryItemDoes, StateTypes, ThreadTypes, PointerTypes
  DEF LocksLeft, LocksOf, InEntry, Inside, Evicting, Choosing, Writing
<1> QED BY <1>1, <1>3, <1>4, <1>5, <1>6, <1>7, TStep

LEMMA SkipItemDoes ==
    ASSUME TInv, NEW t \in Threads, SkipItem(t)
    PROVE  /\ th[t].pc = "choose"
           /\ UNCHANGED <<entryLock, valid, chain, lru, free,
                          num_free_blocks, evict_lock, calls, leaked>>
           /\ Goes(t, "barrier", Here(t).next)
           /\ barrier' = [barrier EXCEPT ![B(t)] = Nobody]
<1>0. /\ th[t].pc = "choose"
      /\ UNCHANGED <<entryLock, valid, chain, lru, free,
                     num_free_blocks, evict_lock, calls, leaked>>
  BY DEF SkipItem, At, table, lists
<1>1. Goes(t, "barrier", Here(t).next)
  BY <1>0, PointerTypes, HeaderTypes, AtMoves DEF SkipItem, Label, Here
<1>2. barrier' = [barrier EXCEPT ![B(t)] = Nobody]
  BY DEF SkipItem, Drop
<1> QED BY <1>0, <1>1, <1>2

LEMMA SkipItemTypes ==
    ASSUME TInv, NEW t \in Threads, HarmsTyped, SkipItem(t)
    PROVE  TInv'
<1>1. Moved(t)
  BY SkipItemDoes DEF Goes, Moves, Returns
<1>2. block' \in [Blocks -> Header]
  <2>1. th[t].it \in Blocks
    BY SkipItemDoes, PointerTypes
  <2>2. [block[th[t].it] EXCEPT !.slock = 0] \in Header
    BY <2>1, HeaderTypes, HeaderWith
  <2> QED BY <2>1, <2>2, StateTypes DEF SkipItem, Here
<1>3. PointersOf(t)' /\ AmountsOf(t)'
  BY SkipItemDoes, ThreadTypes, PointerTypes
  DEF PointersOf, AmountsOf, Writing, Choosing, Evicting,
      Goes, Moves, SameItems, SameAmounts, Returns, Idle
<1>4. LocksOf(t)'
  <2>1. th'[t].pc \in InEntry => B(t)' = B(t)
    BY SkipItemDoes DEF B, Hv, InEntry, Inside, Writing, Goes, Moves, SameItems, SameAmounts, Returns, Idle
  <2> QED BY SkipItemDoes, <2>1, ThreadTypes, PointerTypes, StateTypes
          DEF LocksOf, InEntry, Inside, Writing, Evicting, Choosing,
              Goes, Moves, SameItems, SameAmounts, Returns, Idle
<1>5. CountCovers'
  <2>1. th[t].pc # "pop" /\ th'[t].pc # "pop"
    BY SkipItemDoes DEF Goes, Moves, Returns, Idle
  <2>2. num_free_blocks' \in Int /\ num_free_blocks' >= num_free_blocks
    BY SkipItemDoes, StateTypes
  <2> QED BY <1>1, <2>1, <2>2, SamePopping
<1>6. DataTyped
  BY SkipItemDoes, <1>2, StateTypes DEF DataTyped
<1>7. LocksLeft(t)
  BY SkipItemDoes, StateTypes, ThreadTypes, PointerTypes
  DEF LocksLeft, LocksOf, InEntry, Inside, Evicting, Choosing, Writing
<1> QED BY <1>1, <1>3, <1>4, <1>5, <1>6, <1>7, TStep

LEMMA OtherKeyDoes ==
    ASSUME TInv, NEW t \in Threads, OtherKey(t)
    PROVE  /\ th[t].pc = "own"
           /\ UNCHANGED <<entryLock, barrier, valid, chain, lru, free,
                          num_free_blocks, evict_lock, calls, leaked>>
           /\ Goes(t, "walk", Here(t).next)
<1>0. /\ th[t].pc = "own"
      /\ UNCHANGED <<entryLock, barrier, valid, chain, lru, free,
                     num_free_blocks, evict_lock, calls, leaked>>
  BY DEF OtherKey, At, table, lists
<1>1. Goes(t, "walk", Here(t).next)
  BY <1>0, PointerTypes, HeaderTypes, AtMoves DEF OtherKey, Label, Here
<1> QED BY <1>0, <1>1

LEMMA OtherKeyTypes ==
    ASSUME TInv, NEW t \in Threads, HarmsTyped, OtherKey(t)
    PROVE  TInv'
<1>1. Moved(t)
  BY OtherKeyDoes DEF Goes, Moves, Returns
<1>2. block' \in [Blocks -> Header]
  <2>1. th[t].it \in Blocks
    BY OtherKeyDoes, PointerTypes
  <2>2. [block[th[t].it] EXCEPT !.lock = FALSE] \in Header
    BY <2>1, HeaderTypes, HeaderWith
  <2> QED BY <2>1, <2>2, StateTypes DEF OtherKey, Here
<1>3. PointersOf(t)' /\ AmountsOf(t)'
  BY OtherKeyDoes, ThreadTypes, PointerTypes
  DEF PointersOf, AmountsOf, Writing, Choosing, Evicting,
      Goes, Moves, SameItems, SameAmounts, Returns, Idle
<1>4. LocksOf(t)'
  <2>1. th'[t].pc \in InEntry => B(t)' = B(t)
    BY OtherKeyDoes DEF B, Hv, InEntry, Inside, Writing, Goes, Moves, SameItems, SameAmounts, Returns, Idle
  <2> QED BY OtherKeyDoes, <2>1, ThreadTypes
          DEF LocksOf, InEntry, Inside, Writing, Evicting, Choosing,
              Goes, Moves, SameItems, SameAmounts, Returns, Idle
<1>5. CountCovers'
  <2>1. th[t].pc # "pop" /\ th'[t].pc # "pop"
    BY OtherKeyDoes DEF Goes, Moves, Returns, Idle
  <2>2. num_free_blocks' \in Int /\ num_free_blocks' >= num_free_blocks
    BY OtherKeyDoes, StateTypes
  <2> QED BY <1>1, <2>1, <2>2, SamePopping
<1>6. DataTyped
  BY OtherKeyDoes, <1>2, StateTypes DEF DataTyped
<1>7. LocksLeft(t)
  BY OtherKeyDoes, StateTypes, ThreadTypes, PointerTypes
  DEF LocksLeft, LocksOf, InEntry, Inside, Evicting, Choosing, Writing
<1> QED BY <1>1, <1>3, <1>4, <1>5, <1>6, <1>7, TStep

LEMMA GetOwnDoes ==
    ASSUME TInv, NEW t \in Threads, GetOwn(t)
    PROVE  /\ th[t].pc = "own"
           /\ UNCHANGED <<entryLock, barrier, valid, chain, free,
                          num_free_blocks, evict_lock, calls, leaked>>
           /\ th[t].op = "get"
           /\ Goes(t, "leave", th[t].it)
<1>0. /\ th[t].pc = "own"
      /\ UNCHANGED <<entryLock, barrier, valid, chain, free,
                     num_free_blocks, evict_lock, calls, leaked>>
      /\ th[t].op = "get"
  BY DEF GetOwn, At, table, lists
<1>1. Goes(t, "leave", th[t].it)
  BY <1>0, GotoMoves DEF GetOwn, Label
<1> QED BY <1>0, <1>1

LEMMA GetOwnTypes ==
    ASSUME TInv, NEW t \in Threads, HarmsTyped, GetOwn(t)
    PROVE  TInv'
<1>1. Moved(t)
  BY GetOwnDoes DEF Goes, Moves, Returns
<1>2. block' \in [Blocks -> Header] /\ lru' \in Seq(Blocks)
  <2>1. th[t].it \in Blocks /\ lru \in Seq(Blocks)
    BY GetOwnDoes, PointerTypes, StateTypes
  <2>2. block' \in [Blocks -> Header]
    <3>1. [block[th[t].it] EXCEPT !.state = "r", !.readers = 1] \in Header
      BY <2>1, HeaderTypes, HeaderWith
    <3> QED BY <2>1, <3>1, StateTypes DEF GetOwn
  <2> QED BY <2>1, <2>2, ToFrontFacts DEF GetOwn
<1>3. PointersOf(t)' /\ AmountsOf(t)'
  BY GetOwnDoes, ThreadTypes, PointerTypes
  DEF PointersOf, AmountsOf, Writing, Choosing, Evicting,
      Goes, Moves, SameItems, SameAmounts, Returns, Idle
<1>4. LocksOf(t)'
  <2>1. th'[t].pc \in InEntry => B(t)' = B(t)
    BY GetOwnDoes DEF B, Hv, InEntry, Inside, Writing, Goes, Moves, SameItems, SameAmounts, Returns, Idle
  <2> QED BY GetOwnDoes, <2>1, ThreadTypes
          DEF LocksOf, InEntry, Inside, Writing, Evicting, Choosing,
              Goes, Moves, SameItems, SameAmounts, Returns, Idle
<1>5. CountCovers'
  <2>1. th[t].pc # "pop" /\ th'[t].pc # "pop"
    BY GetOwnDoes DEF Goes, Moves, Returns, Idle
  <2>2. num_free_blocks' \in Int /\ num_free_blocks' >= num_free_blocks
    BY GetOwnDoes, StateTypes
  <2> QED BY <1>1, <2>1, <2>2, SamePopping
<1>6. DataTyped
  BY GetOwnDoes, <1>2, StateTypes DEF DataTyped
<1>7. LocksLeft(t)
  BY GetOwnDoes, StateTypes, ThreadTypes, PointerTypes
  DEF LocksLeft, LocksOf, InEntry, Inside, Evicting, Choosing, Writing
<1> QED BY <1>1, <1>3, <1>4, <1>5, <1>6, <1>7, TStep

LEMMA SetTooOldDoes ==
    ASSUME TInv, NEW t \in Threads, SetTooOld(t)
    PROVE  /\ th[t].pc = "own"
           /\ UNCHANGED <<valid, chain, block, lru, free,
                          num_free_blocks, evict_lock, calls>>
           /\ Returns(t)
           /\ barrier' = [barrier EXCEPT ![B(t)] = Nobody] /\ entryLock' = [entryLock EXCEPT ![B(t)] = Nobody]
<1>0. /\ th[t].pc = "own"
      /\ UNCHANGED <<valid, chain, block, lru, free,
                     num_free_blocks, evict_lock, calls>>
  BY DEF SetTooOld, At, table, lists
<1>1. Returns(t)
  BY ReturnMoves DEF SetTooOld
<1>2. barrier' = [barrier EXCEPT ![B(t)] = Nobody] /\ entryLock' = [entryLock EXCEPT ![B(t)] = Nobody]
  BY DEF SetTooOld, Drop
<1> QED BY <1>0, <1>1, <1>2

LEMMA SetTooOldTypes ==
    ASSUME TInv, NEW t \in Threads, HarmsTyped, SetTooOld(t)
    PROVE  TInv'
<1>1. Moved(t)
  BY SetTooOldDoes DEF Goes, Moves, Returns
<1>2. leaked' \subseteq Blocks
  BY SetTooOldDoes, PointerTypes, StateTypes DEF SetTooOld
<1>3. PointersOf(t)' /\ AmountsOf(t)'
  BY SetTooOldDoes, ThreadTypes, PointerTypes
  DEF PointersOf, AmountsOf, Writing, Choosing, Evicting,
      Goes, Moves, SameItems, SameAmounts, Returns, Idle
<1>4. LocksOf(t)'
  <2>1. th'[t].pc \in InEntry => B(t)' = B(t)
    BY SetTooOldDoes DEF B, Hv, InEntry, Inside, Writing, Goes, Moves, SameItems, SameAmounts, Returns, Idle
  <2> QED BY SetTooOldDoes, <2>1, ThreadTypes, PointerTypes, StateTypes
          DEF LocksOf, InEntry, Inside, Writing, Evicting, Choosing,
              Goes, Moves, SameItems, SameAmounts, Returns, Idle
<1>5. CountCovers'
  <2>1. th[t].pc # "pop" /\ th'[t].pc # "pop"
    BY SetTooOldDoes DEF Goes, Moves, Returns, Idle
  <2>2. num_free_blocks' \in Int /\ num_free_blocks' >= num_free_blocks
    BY SetTooOldDoes, StateTypes
  <2> QED BY <1>1, <2>1, <2>2, SamePopping
<1>6. DataTyped
  BY SetTooOldDoes, <1>2, StateTypes DEF DataTyped
<1>7. LocksLeft(t)
  BY SetTooOldDoes, StateTypes, ThreadTypes, PointerTypes, ZenonT(40)
  DEF LocksLeft, LocksOf, InEntry, Inside, Evicting, Choosing, Writing
<1> QED BY <1>1, <1>3, <1>4, <1>5, <1>6, <1>7, TStep

LEMMA SetOwnDoes ==
    ASSUME TInv, NEW t \in Threads, SetOwn(t)
    PROVE  /\ th[t].pc = "own"
           /\ UNCHANGED <<entryLock, valid, chain, lru, free,
                          num_free_blocks, evict_lock, calls, leaked>>
           /\ th[t].op = "set"
           /\ Moves(t, th'[t].pc) /\ SameAmounts(t)
           /\ th'[t].pc \in {"room", "drop", "finish"}
           /\ th'[t].mine = th[t].it /\ th'[t].as = "over"
           /\ th'[t].it = th[t].it /\ th'[t].got = th[t].got
           /\ barrier' = [barrier EXCEPT ![B(t)] = Nobody]
<1>0. /\ th[t].pc = "own"
      /\ UNCHANGED <<entryLock, valid, chain, lru, free,
                     num_free_blocks, evict_lock, calls, leaked>>
      /\ th[t].op = "set"
  BY DEF SetOwn, At, table, lists
<1>1. /\ Moves(t, th'[t].pc) /\ SameAmounts(t)
      /\ th'[t].pc \in {"room", "drop", "finish"}
      /\ th'[t].mine = th[t].it /\ th'[t].as = "over"
      /\ th'[t].it = th[t].it /\ th'[t].got = th[t].got
  <2> DEFINE p == AfterWrite(Len(Here(t).frags), th[t].frags)
             r == [th[t] EXCEPT !.mine = th[t].it, !.as = "over", !.pc = p]
  <2>1. p \in {"room", "drop", "finish"}
    <3>1. Len(Here(t).frags) \in Nat
      BY <1>0, PointerTypes, HeaderTypes DEF Here
    <3> QED BY <3>1, ThreadTypes, AfterWriteLabels
  <2>2. th' = [th EXCEPT ![t] = r]
    BY DEF SetOwn
  <2> HIDE DEF p
  <2>3. r \in Thread
    BY <2>1, ThreadTypes, ZenonT(40) DEF Thread, Label
  <2>4. th'[t] = r /\ Moved(t)
    BY <2>2, <2>3, StateTypes DEF Moved
  <2> QED BY <2>1, <2>4, ThreadTypes DEF Moves, Moved, SameAmounts, Thread, TInv, TypeOK
<1>2. barrier' = [barrier EXCEPT ![B(t)] = Nobody]
  BY DEF SetOwn, Drop
<1> QED BY <1>0, <1>1, <1>2

LEMMA SetOwnTypes ==
    ASSUME TInv, NEW t \in Threads, HarmsTyped, SetOwn(t)
    PROVE  TInv'
<1>1. Moved(t)
  BY SetOwnDoes DEF Goes, Moves, Returns
<1>2. block' \in [Blocks -> Header]
  <2>1. th[t].it \in Blocks
    BY SetOwnDoes, PointerTypes
  <2>2. [block[th[t].it] EXCEPT !.state = "w", !.size = 1, !.ver = th[t].ver] \in Header
    <3>1. block[th[t].it] \in Header /\ th[t].ver \in Nat
      BY <2>1, HeaderTypes, ThreadTypes
    <3> QED BY <3>1 DEF Header
  <2> QED BY <2>1, <2>2, StateTypes DEF SetOwn, Here
<1>3. PointersOf(t)' /\ AmountsOf(t)'
  BY SetOwnDoes, ThreadTypes, PointerTypes
  DEF PointersOf, AmountsOf, Writing, Choosing, Evicting,
      Goes, Moves, SameItems, SameAmounts, Returns, Idle
<1>4. LocksOf(t)'
  <2>1. th'[t].pc \in InEntry => B(t)' = B(t)
    BY SetOwnDoes DEF B, Hv, InEntry, Inside, Writing, Goes, Moves, SameItems, SameAmounts, Returns, Idle
  <2> QED BY SetOwnDoes, <2>1, ThreadTypes
          DEF LocksOf, InEntry, Inside, Writing, Evicting, Choosing,
              Goes, Moves, SameItems, SameAmounts, Returns, Idle
<1>5. CountCovers'
  <2>1. th[t].pc # "pop" /\ th'[t].pc # "pop"
    BY SetOwnDoes DEF Goes, Moves, Returns, Idle
  <2>2. num_free_blocks' \in Int /\ num_free_blocks' >= num_free_blocks
    BY SetOwnDoes, StateTypes
  <2> QED BY <1>1, <2>1, <2>2, SamePopping
<1>6. DataTyped
  BY SetOwnDoes, <1>2, StateTypes DEF DataTyped
<1>7. LocksLeft(t)
  BY SetOwnDoes, StateTypes, ThreadTypes, PointerTypes
  DEF LocksLeft, LocksOf, InEntry, Inside, Evicting, Choosing, Writing
<1> QED BY <1>1, <1>3, <1>4, <1>5, <1>6, <1>7, TStep

LEMMA PassDoes ==
    ASSUME TInv, NEW t \in Threads, Pass(t)
    PROVE  /\ th[t].pc = "pass"
           /\ UNCHANGED <<entryLock, barrier, valid, chain, lru, free,
                          num_free_blocks, evict_lock, calls, leaked>>
           /\ Goes(t, "walk", Here(t).next)
<1>0. /\ th[t].pc = "pass"
      /\ UNCHANGED <<entryLock, barrier, valid, chain, lru, free,
                     num_free_blocks, evict_lock, calls, leaked>>
  BY DEF Pass, At, table, lists
<1>1. Goes(t, "walk", Here(t).next)
  BY <1>0, PointerTypes, HeaderTypes, AtMoves DEF Pass, Label, Here
<1> QED BY <1>0, <1>1

LEMMA PassTypes ==
    ASSUME TInv, NEW t \in Threads, HarmsTyped, Pass(t)
    PROVE  TInv'
<1>1. Moved(t)
  BY PassDoes DEF Goes, Moves, Returns
<1>2. block' \in [Blocks -> Header]
  <2>1. th[t].it \in Blocks
    BY PassDoes, PointerTypes
  <2>2. Released(Here(t)) \in Header
    BY <2>1, ReleasedType DEF Here
  <2>3. block' = [block EXCEPT ![th[t].it] = Released(Here(t))]
    BY DEF Pass, Here
  <2> QED BY <2>1, <2>2, <2>3, StateTypes
<1>3. PointersOf(t)' /\ AmountsOf(t)'
  BY PassDoes, ThreadTypes, PointerTypes
  DEF PointersOf, AmountsOf, Writing, Choosing, Evicting,
      Goes, Moves, SameItems, SameAmounts, Returns, Idle
<1>4. LocksOf(t)'
  <2>1. th'[t].pc \in InEntry => B(t)' = B(t)
    BY PassDoes DEF B, Hv, InEntry, Inside, Writing, Goes, Moves, SameItems, SameAmounts, Returns, Idle
  <2> QED BY PassDoes, <2>1, ThreadTypes
          DEF LocksOf, InEntry, Inside, Writing, Evicting, Choosing,
              Goes, Moves, SameItems, SameAmounts, Returns, Idle
<1>5. CountCovers'
  <2>1. th[t].pc # "pop" /\ th'[t].pc # "pop"
    BY PassDoes DEF Goes, Moves, Returns, Idle
  <2>2. num_free_blocks' \in Int /\ num_free_blocks' >= num_free_blocks
    BY PassDoes, StateTypes
  <2> QED BY <1>1, <2>1, <2>2, SamePopping
<1>6. DataTyped
  BY PassDoes, <1>2, StateTypes DEF DataTyped
<1>7. LocksLeft(t)
  BY PassDoes, StateTypes, ThreadTypes, PointerTypes
  DEF LocksLeft, LocksOf, InEntry, Inside, Evicting, Choosing, Writing
<1> QED BY <1>1, <1>3, <1>4, <1>5, <1>6, <1>7, TStep

LEMMA LeaveDoes ==
    ASSUME TInv, NEW t \in Threads, Leave(t)
    PROVE  /\ th[t].pc = "leave"
           /\ UNCHANGED <<valid, chain, block, lru, free,
                          num_free_blocks, evict_lock, calls, leaked>>
           /\ Goes(t, "copy", th[t].it)
           /\ barrier' = [barrier EXCEPT ![B(t)] = Nobody] /\ entryLock' = [entryLock EXCEPT ![B(t)] = Nobody]
<1>0. /\ th[t].pc = "leave"
      /\ UNCHANGED <<valid, chain, block, lru, free,
                     num_free_blocks, evict_lock, calls, leaked>>
  BY DEF Leave, At, table, lists
<1>1. Goes(t, "copy", th[t].it)
  BY <1>0, GotoMoves DEF Leave, Label
<1>2. barrier' = [barrier EXCEPT ![B(t)] = Nobody] /\ entryLock' = [entryLock EXCEPT ![B(t)] = Nobody]
  BY DEF Leave, Drop
<1> QED BY <1>0, <1>1, <1>2

LEMMA LeaveTypes ==
    ASSUME TInv, NEW t \in Threads, HarmsTyped, Leave(t)
    PROVE  TInv'
<1>1. Moved(t)
  BY LeaveDoes DEF Goes, Moves, Returns
<1>2. PointersOf(t)' /\ AmountsOf(t)'
  BY LeaveDoes, ThreadTypes, PointerTypes
  DEF PointersOf, AmountsOf, Writing, Choosing, Evicting,
      Goes, Moves, SameItems, SameAmounts, Returns, Idle
<1>3. LocksOf(t)'
  <2>1. th'[t].pc \in InEntry => B(t)' = B(t)
    BY LeaveDoes DEF B, Hv, InEntry, Inside, Writing, Goes, Moves, SameItems, SameAmounts, Returns, Idle
  <2> QED BY LeaveDoes, <2>1, ThreadTypes, PointerTypes, StateTypes
          DEF LocksOf, InEntry, Inside, Writing, Evicting, Choosing,
              Goes, Moves, SameItems, SameAmounts, Returns, Idle
<1>4. CountCovers'
  <2>1. th[t].pc # "pop" /\ th'[t].pc # "pop"
    BY LeaveDoes DEF Goes, Moves, Returns, Idle
  <2>2. num_free_blocks' \in Int /\ num_free_blocks' >= num_free_blocks
    BY LeaveDoes, StateTypes
  <2> QED BY <1>1, <2>1, <2>2, SamePopping
<1>5. DataTyped
  BY LeaveDoes, StateTypes DEF DataTyped
<1>6. LocksLeft(t)
  <2>1. entryLock[B(t)] = t /\ barrier[B(t)] = t
    BY LeaveDoes, ThreadTypes DEF LocksOf, InEntry, Inside
  <2>2. /\ UNCHANGED evict_lock /\ barrier' = [barrier EXCEPT ![B(t)] = Nobody]
        /\ entryLock' = [entryLock EXCEPT ![B(t)] = Nobody]
    BY LeaveDoes
  <2> QED BY <2>1, <2>2, StateTypes DEF LocksLeft
<1> QED BY <1>1, <1>2, <1>3, <1>4, <1>5, <1>6, TStep

LEMMA EndCopyDoes ==
    ASSUME TInv, NEW t \in Threads, EndCopy(t)
    PROVE  /\ th[t].pc = "copy"
           /\ UNCHANGED <<entryLock, barrier, valid, chain, lru, free,
                          num_free_blocks, evict_lock, calls, leaked>>
           /\ Returns(t)
<1>0. /\ th[t].pc = "copy"
      /\ UNCHANGED <<entryLock, barrier, valid, chain, lru, free,
                     num_free_blocks, evict_lock, calls, leaked>>
  BY DEF EndCopy, At, table, lists
<1>1. Returns(t)
  BY ReturnMoves DEF EndCopy
<1> QED BY <1>0, <1>1

LEMMA EndCopyTypes ==
    ASSUME TInv, NEW t \in Threads, HarmsTyped, EndCopy(t)
    PROVE  TInv'
<1>1. Moved(t)
  BY EndCopyDoes DEF Goes, Moves, Returns
<1>2. block' \in [Blocks -> Header]
  <2>1. th[t].it \in Blocks
    BY EndCopyDoes, PointerTypes
  <2>2. Released(Here(t)) \in Header
    BY <2>1, ReleasedType DEF Here
  <2>3. block' = [block EXCEPT ![th[t].it] = Released(Here(t))]
    BY DEF EndCopy, Here
  <2> QED BY <2>1, <2>2, <2>3, StateTypes
<1>3. PointersOf(t)' /\ AmountsOf(t)'
  BY EndCopyDoes, ThreadTypes, PointerTypes
  DEF PointersOf, AmountsOf, Writing, Choosing, Evicting,
      Goes, Moves, SameItems, SameAmounts, Returns, Idle
<1>4. LocksOf(t)'
  <2>1. th'[t].pc \in InEntry => B(t)' = B(t)
    BY EndCopyDoes DEF B, Hv, InEntry, Inside, Writing, Goes, Moves, SameItems, SameAmounts, Returns, Idle
  <2> QED BY EndCopyDoes, <2>1, ThreadTypes, PointerTypes, StateTypes
          DEF LocksOf, InEntry, Inside, Writing, Evicting, Choosing,
              Goes, Moves, SameItems, SameAmounts, Returns, Idle
<1>5. CountCovers'
  <2>1. th[t].pc # "pop" /\ th'[t].pc # "pop"
    BY EndCopyDoes DEF Goes, Moves, Returns, Idle
  <2>2. num_free_blocks' \in Int /\ num_free_blocks' >= num_free_blocks
    BY EndCopyDoes, StateTypes
  <2> QED BY <1>1, <2>1, <2>2, SamePopping
<1>6. DataTyped
  BY EndCopyDoes, <1>2, StateTypes DEF DataTyped
<1>7. LocksLeft(t)
  BY EndCopyDoes, StateTypes, ThreadTypes, PointerTypes
  DEF LocksLeft, LocksOf, InEntry, Inside, Evicting, Choosing, Writing
<1> QED BY <1>1, <1>3, <1>4, <1>5, <1>6, <1>7, TStep

LEMMA RoomDoes ==
    ASSUME TInv, NEW t \in Threads, Room(t)
    PROVE  /\ th[t].pc = "room"
           /\ UNCHANGED <<entryLock, barrier, valid, chain, block, lru,
                          free, num_free_blocks, evict_lock, calls, leaked>>
           /\ \/ Goes(t, "evict_lock", th[t].it)
              \/ Goes(t, "pop", th[t].it) /\ ~Short
<1>0. /\ th[t].pc = "room"
      /\ UNCHANGED <<entryLock, barrier, valid, chain, block, lru,
                     free, num_free_blocks, evict_lock, calls, leaked>>
  BY DEF Room, At, table, lists
<1>1. \/ Goes(t, "evict_lock", th[t].it)
      \/ Goes(t, "pop", th[t].it) /\ ~Short
  <2>1. CASE Short
    BY <2>1, GotoMoves DEF Room, Label
  <2>2. CASE ~Short
    BY <2>2, GotoMoves DEF Room, Label
  <2> QED BY <2>1, <2>2
<1> QED BY <1>0, <1>1

LEMMA RoomTypes ==
    ASSUME TInv, NEW t \in Threads, HarmsTyped, Room(t)
    PROVE  TInv'
<1>1. Moved(t)
  BY RoomDoes DEF Goes, Moves, Returns
<1>2. PointersOf(t)' /\ AmountsOf(t)'
  BY RoomDoes, ThreadTypes, PointerTypes
  DEF PointersOf, AmountsOf, Writing, Choosing, Evicting,
      Goes, Moves, SameItems, SameAmounts, Returns, Idle
<1>3. LocksOf(t)'
  <2>1. th'[t].pc \in InEntry => B(t)' = B(t)
    BY RoomDoes DEF B, Hv, InEntry, Inside, Writing, Goes, Moves, SameItems, SameAmounts, Returns, Idle
  <2> QED BY RoomDoes, <2>1, ThreadTypes, PointerTypes, StateTypes
          DEF LocksOf, InEntry, Inside, Writing, Evicting, Choosing,
              Goes, Moves, SameItems, SameAmounts, Returns, Idle
<1>4. CountCovers'
  <2>1. CASE Goes(t, "evict_lock", th[t].it)
    BY RoomDoes, <2>1, <1>1, StateTypes, SamePopping DEF Goes, Moves
  <2>2. CASE ~Short
    BY RoomDoes, <2>2, <1>1, AllMayPop
  <2> QED BY RoomDoes, <2>1, <2>2
<1>5. DataTyped
  BY RoomDoes, StateTypes DEF DataTyped
<1>6. LocksLeft(t)
  BY RoomDoes, StateTypes, ThreadTypes, PointerTypes
  DEF LocksLeft, LocksOf, InEntry, Inside, Evicting, Choosing, Writing
<1> QED BY <1>1, <1>2, <1>3, <1>4, <1>5, <1>6, TStep

LEMMA EvictLockDoes ==
    ASSUME TInv, NEW t \in Threads, EvictLock(t)
    PROVE  /\ th[t].pc = "evict_lock"
           /\ UNCHANGED <<entryLock, barrier, valid, chain, block, lru,
                          free, num_free_blocks, calls, leaked>>
           /\ \/ /\ Moves(t, "tail") /\ SameItems(t) /\ th'[t].it = th[t].it
                 /\ th'[t].amount = MinEvict /\ th'[t].freed_tot = 0
                 /\ evict_lock' = t
              \/ /\ Goes(t, "pop", th[t].it) /\ ~Short
                 /\ evict_lock' = evict_lock
           /\ evict_lock = Nobody /\ evict_lock' \in {t, evict_lock}
<1>0. /\ th[t].pc = "evict_lock"
      /\ UNCHANGED <<entryLock, barrier, valid, chain, block, lru,
                     free, num_free_blocks, calls, leaked>>
  BY DEF EvictLock, At, table, lists
<1>1. \/ /\ Moves(t, "tail") /\ SameItems(t) /\ th'[t].it = th[t].it
         /\ th'[t].amount = MinEvict /\ th'[t].freed_tot = 0
         /\ evict_lock' = t
      \/ /\ Goes(t, "pop", th[t].it) /\ ~Short
         /\ evict_lock' = evict_lock
  <2>1. CASE Short
    <3> DEFINE r == [th[t] EXCEPT !.pc = "tail", !.freed_tot = 0, !.amount = MinEvict]
    <3>0. "tail" \in Label /\ th[t] \in Thread /\ MinEvict \in Int
      BY ThreadTypes, KeyTypes DEF Label
    <3>1. r \in Thread
      BY <3>0 DEF Thread
    <3>2. th' = [th EXCEPT ![t] = r] /\ evict_lock' = t
      BY <2>1 DEF EvictLock
    <3> QED BY <3>1, <3>2 DEF Moves, Moved, SameItems, Thread, TInv, TypeOK
  <2>2. CASE ~Short
    BY <2>2, StateTypes, GotoMoves, KeyTypes DEF EvictLock, Label
  <2> QED BY <2>1, <2>2
<1>2. evict_lock = Nobody /\ evict_lock' \in {t, evict_lock}
  BY <1>1 DEF EvictLock
<1> QED BY <1>0, <1>1, <1>2

LEMMA EvictLockTypes ==
    ASSUME TInv, NEW t \in Threads, HarmsTyped, EvictLock(t)
    PROVE  TInv'
<1>1. Moved(t)
  BY EvictLockDoes DEF Goes, Moves, Returns
<1>2. PointersOf(t)' /\ AmountsOf(t)'
  BY EvictLockDoes, KeyTypes, ThreadTypes, PointerTypes
  DEF PointersOf, AmountsOf, Writing, Choosing, Evicting,
      Goes, Moves, SameItems, SameAmounts, Returns, Idle
<1>3. LocksOf(t)'
  <2>1. th'[t].pc \in InEntry => B(t)' = B(t)
    BY EvictLockDoes DEF B, Hv, InEntry, Inside, Writing, Goes, Moves, SameItems, SameAmounts, Returns, Idle
  <2> QED BY EvictLockDoes, <2>1, ThreadTypes, PointerTypes, StateTypes
          DEF LocksOf, InEntry, Inside, Writing, Evicting, Choosing,
              Goes, Moves, SameItems, SameAmounts, Returns, Idle
<1>4. CountCovers'
  <2>1. CASE Moves(t, "tail")
    <3>1. th[t].pc # "pop" /\ th'[t].pc # "pop"
      BY EvictLockDoes, <2>1 DEF Moves
    <3>2. num_free_blocks' \in Int /\ num_free_blocks' >= num_free_blocks
      BY EvictLockDoes, StateTypes
    <3> QED BY <1>1, <3>1, <3>2, SamePopping
  <2>2. CASE ~Short
    BY EvictLockDoes, <2>2, <1>1, AllMayPop
  <2> QED BY EvictLockDoes, <2>1, <2>2
<1>5. DataTyped
  BY EvictLockDoes, StateTypes DEF DataTyped
<1>6. LocksLeft(t)
  BY EvictLockDoes, StateTypes, KeyTypes DEF LocksLeft
<1> QED BY <1>1, <1>2, <1>3, <1>4, <1>5, <1>6, TStep

LEMMA ReadTailDoes ==
    ASSUME TInv, NEW t \in Threads, ReadTail(t)
    PROVE  /\ th[t].pc = "tail"
           /\ UNCHANGED <<entryLock, barrier, valid, chain, block, lru,
                          free, num_free_blocks, evict_lock, calls, leaked>>
           /\ \/ Goes(t, "crash", th[t].it)
              \/ /\ Moves(t, "try") /\ SameAmounts(t) /\ th'[t].got \in Blocks
                 /\ th'[t].as = th[t].as /\ th'[t].mine = th[t].mine /\ th'[t].it = th[t].it
<1>0. /\ th[t].pc = "tail"
      /\ UNCHANGED <<entryLock, barrier, valid, chain, block, lru,
                     free, num_free_blocks, evict_lock, calls, leaked>>
  BY DEF ReadTail, At, table, lists
<1>1. \/ Goes(t, "crash", th[t].it)
      \/ /\ Moves(t, "try") /\ SameAmounts(t) /\ th'[t].got \in Blocks
         /\ th'[t].as = th[t].as /\ th'[t].mine = th[t].mine /\ th'[t].it = th[t].it
  <2>1. CASE lru = << >>
    BY <2>1, GotoMoves DEF ReadTail, Label, Goto
  <2>2. CASE lru # << >>
    <3> DEFINE r == [th[t] EXCEPT !.pc = "try", !.got = Last(lru)]
    <3>1. Last(lru) \in Blocks /\ Last(lru) \in 0 .. NumBlocks
      BY <2>2, ToSetFacts, StateTypes, KeyTypes
    <3>2. r \in Thread
      BY <3>1, ThreadTypes, ZenonT(40) DEF Thread, Label
    <3>3. th' = [th EXCEPT ![t] = r]
      BY <2>2 DEF ReadTail
    <3> QED BY <3>1, <3>2, <3>3 DEF Moves, Moved, SameAmounts, Thread, TInv, TypeOK
  <2> QED BY <2>1, <2>2
<1> QED BY <1>0, <1>1

LEMMA ReadTailTypes ==
    ASSUME TInv, NEW t \in Threads, HarmsTyped, ReadTail(t)
    PROVE  TInv'
<1>1. Moved(t)
  BY ReadTailDoes DEF Goes, Moves, Returns
<1>2. PointersOf(t)' /\ AmountsOf(t)'
  BY ReadTailDoes, KeyTypes, ThreadTypes, PointerTypes
  DEF PointersOf, AmountsOf, Writing, Choosing, Evicting,
      Goes, Moves, SameItems, SameAmounts, Returns, Idle
<1>3. LocksOf(t)'
  <2>1. th'[t].pc \in InEntry => B(t)' = B(t)
    BY ReadTailDoes DEF B, Hv, InEntry, Inside, Writing, Goes, Moves, SameItems, SameAmounts, Returns, Idle
  <2> QED BY ReadTailDoes, <2>1, ThreadTypes, PointerTypes, StateTypes
          DEF LocksOf, InEntry, Inside, Writing, Evicting, Choosing,
              Goes, Moves, SameItems, SameAmounts, Returns, Idle
<1>4. CountCovers'
  <2>1. th[t].pc # "pop" /\ th'[t].pc # "pop"
    BY ReadTailDoes DEF Goes, Moves, Returns, Idle
  <2>2. num_free_blocks' \in Int /\ num_free_blocks' >= num_free_blocks
    BY ReadTailDoes, StateTypes
  <2> QED BY <1>1, <2>1, <2>2, SamePopping
<1>5. DataTyped
  BY ReadTailDoes, StateTypes DEF DataTyped
<1>6. LocksLeft(t)
  BY ReadTailDoes, StateTypes, ThreadTypes, PointerTypes
  DEF LocksLeft, LocksOf, InEntry, Inside, Evicting, Choosing, Writing
<1> QED BY <1>1, <1>2, <1>3, <1>4, <1>5, <1>6, TStep

LEMMA TryTailDoes ==
    ASSUME TInv, NEW t \in Threads, TryTail(t)
    PROVE  /\ th[t].pc = "try"
           /\ UNCHANGED <<entryLock, barrier, valid, chain, free,
                          num_free_blocks, evict_lock, calls, leaked>>
           /\ Goes(t, "tail", th[t].it) \/ Goes(t, "unchain", th[t].it)
<1>0. /\ th[t].pc = "try"
      /\ UNCHANGED <<entryLock, barrier, valid, chain, free,
                     num_free_blocks, evict_lock, calls, leaked>>
  BY DEF TryTail, At, table, lists
<1>1. Goes(t, "tail", th[t].it) \/ Goes(t, "unchain", th[t].it)
  BY <1>0, GotoMoves DEF TryTail, Label
<1> QED BY <1>0, <1>1

LEMMA TryTailTypes ==
    ASSUME TInv, NEW t \in Threads, HarmsTyped, TryTail(t)
    PROVE  TInv'
<1>1. Moved(t)
  BY TryTailDoes DEF Goes, Moves, Returns
<1>2. block' \in [Blocks -> Header] /\ lru' \in Seq(Blocks)
  <2>1. th[t].got \in Blocks /\ lru \in Seq(Blocks)
    BY TryTailDoes, PointerTypes, StateTypes
  <2>2. block' \in [Blocks -> Header]
    <3>1. [block[th[t].got] EXCEPT !.lock = TRUE] \in Header
      BY <2>1, HeaderTypes, HeaderWith
    <3> QED BY <2>1, <3>1, StateTypes DEF TryTail
  <2> QED BY <2>1, <2>2, ToFrontFacts DEF TryTail
<1>3. PointersOf(t)' /\ AmountsOf(t)'
  BY TryTailDoes, ThreadTypes, PointerTypes
  DEF PointersOf, AmountsOf, Writing, Choosing, Evicting,
      Goes, Moves, SameItems, SameAmounts, Returns, Idle
<1>4. LocksOf(t)'
  <2>1. th'[t].pc \in InEntry => B(t)' = B(t)
    BY TryTailDoes DEF B, Hv, InEntry, Inside, Writing, Goes, Moves, SameItems, SameAmounts, Returns, Idle
  <2> QED BY TryTailDoes, <2>1, ThreadTypes, PointerTypes, StateTypes
          DEF LocksOf, InEntry, Inside, Writing, Evicting, Choosing,
              Goes, Moves, SameItems, SameAmounts, Returns, Idle
<1>5. CountCovers'
  <2>1. th[t].pc # "pop" /\ th'[t].pc # "pop"
    BY TryTailDoes DEF Goes, Moves, Returns, Idle
  <2>2. num_free_blocks' \in Int /\ num_free_blocks' >= num_free_blocks
    BY TryTailDoes, StateTypes
  <2> QED BY <1>1, <2>1, <2>2, SamePopping
<1>6. DataTyped
  BY TryTailDoes, <1>2, StateTypes DEF DataTyped
<1>7. LocksLeft(t)
  BY TryTailDoes, StateTypes, ThreadTypes, PointerTypes
  DEF LocksLeft, LocksOf, InEntry, Inside, Evicting, Choosing, Writing
<1> QED BY <1>1, <1>3, <1>4, <1>5, <1>6, <1>7, TStep

LEMMA UnchainDoes ==
    ASSUME TInv, NEW t \in Threads, Unchain(t)
    PROVE  /\ th[t].pc = "unchain"
           /\ UNCHANGED <<entryLock, barrier, lru, free, num_free_blocks,
                          evict_lock, calls, leaked>>
           /\ Goes(t, "reclaim", th[t].it)
<1>0. /\ th[t].pc = "unchain"
      /\ UNCHANGED <<entryLock, barrier, lru, free, num_free_blocks,
                     evict_lock, calls, leaked>>
  BY DEF Unchain, At, table, lists
<1>1. Goes(t, "reclaim", th[t].it)
  BY <1>0, GotoMoves DEF Unchain, Label
<1> QED BY <1>0, <1>1

LEMMA UnchainTypes ==
    ASSUME TInv, NEW t \in Threads, HarmsTyped, Unchain(t)
    PROVE  TInv'
<1>1. Moved(t)
  BY UnchainDoes DEF Goes, Moves, Returns
<1>2. block' \in [Blocks -> Header] /\ chain' \in [Buckets -> 0 .. NumBlocks]
      /\ valid' \in [Buckets -> BOOLEAN]
  <2> DEFINE x == block[th[t].got]
             b == Bucket(x.hv)
  <2>1. x.next \in 0 .. NumBlocks /\ x.prev \in 0 .. NumBlocks /\ b \in Buckets
    BY UnchainDoes, PointerTypes, HeaderTypes
  <2>2. /\ block' = Unlinked(x.prev, x.next)
        /\ chain' = [chain EXCEPT ![b] = x.next] \/ chain' = chain
        /\ valid' = [valid EXCEPT ![b] = @ /\ x.next # NULL] \/ valid' = valid
    BY DEF Unchain
  <2> HIDE DEF x, b
  <2>3. block' \in [Blocks -> Header]
    <3>1. \A y \in Blocks : [block[y] EXCEPT !.next = x.next] \in Header
                            /\ [block[y] EXCEPT !.prev = x.prev] \in Header
      BY <2>1, HeaderTypes, HeaderLinks
    <3> QED BY <2>2, <3>1, StateTypes DEF Unlinked
  <2>4. /\ chain' \in [Buckets -> 0 .. NumBlocks]
        /\ valid' \in [Buckets -> BOOLEAN]
    BY <2>1, <2>2, StateTypes
  <2> QED BY <2>3, <2>4
<1>3. PointersOf(t)' /\ AmountsOf(t)'
  BY UnchainDoes, ThreadTypes, PointerTypes
  DEF PointersOf, AmountsOf, Writing, Choosing, Evicting,
      Goes, Moves, SameItems, SameAmounts, Returns, Idle
<1>4. LocksOf(t)'
  <2>1. th'[t].pc \in InEntry => B(t)' = B(t)
    BY UnchainDoes DEF B, Hv, InEntry, Inside, Writing, Goes, Moves, SameItems, SameAmounts, Returns, Idle
  <2> QED BY UnchainDoes, <2>1, ThreadTypes, PointerTypes, StateTypes, ZenonT(40)
          DEF LocksOf, InEntry, Inside, Writing, Evicting, Choosing,
              Goes, Moves, SameItems, SameAmounts, Returns, Idle
<1>5. CountCovers'
  <2>1. th[t].pc # "pop" /\ th'[t].pc # "pop"
    BY UnchainDoes DEF Goes, Moves, Returns, Idle
  <2>2. num_free_blocks' \in Int /\ num_free_blocks' >= num_free_blocks
    BY UnchainDoes, StateTypes
  <2> QED BY <1>1, <2>1, <2>2, SamePopping
<1>6. DataTyped
  BY UnchainDoes, <1>2, StateTypes DEF DataTyped
<1>7. LocksLeft(t)
  BY UnchainDoes, StateTypes, ThreadTypes, PointerTypes
  DEF LocksLeft, LocksOf, InEntry, Inside, Evicting, Choosing, Writing
<1> QED BY <1>1, <1>3, <1>4, <1>5, <1>6, <1>7, TStep

LEMMA ReclaimDoes ==
    ASSUME TInv, NEW t \in Threads, Reclaim(t)
    PROVE  /\ th[t].pc = "reclaim"
           /\ UNCHANGED <<entryLock, barrier, valid, chain,
                          num_free_blocks, evict_lock, calls>>
           /\ Moves(t, th'[t].pc) /\ th'[t].as = th[t].as /\ th'[t].mine = th[t].mine
           /\ th'[t].it = th[t].it /\ th'[t].got = NULL
           /\ block[th[t].got].size \in Nat
           /\ th'[t].amount = th[t].amount - block[th[t].got].size
           /\ th'[t].freed_tot = th[t].freed_tot + block[th[t].got].size
           /\ \/ th'[t].pc = "tail" /\ th[t].amount > block[th[t].got].size
              \/ th'[t].pc = "evict_end" /\ ~(th[t].amount > block[th[t].got].size)
<1>0. /\ th[t].pc = "reclaim"
      /\ UNCHANGED <<entryLock, barrier, valid, chain,
                     num_free_blocks, evict_lock, calls>>
  BY DEF Reclaim, At, table, lists
<1>1. /\ Moves(t, th'[t].pc) /\ th'[t].as = th[t].as /\ th'[t].mine = th[t].mine
      /\ th'[t].it = th[t].it /\ th'[t].got = NULL
      /\ block[th[t].got].size \in Nat
      /\ th'[t].amount = th[t].amount - block[th[t].got].size
      /\ th'[t].freed_tot = th[t].freed_tot + block[th[t].got].size
      /\ \/ th'[t].pc = "tail" /\ th[t].amount > block[th[t].got].size
         \/ th'[t].pc = "evict_end" /\ ~(th[t].amount > block[th[t].got].size)
  <2> DEFINE n == block[th[t].got].size
  <2>1. n \in Nat
    BY <1>0, PointerTypes, HeaderTypes
  <2>2. CASE th[t].amount > n
    <3>1. th' = [th EXCEPT ![t] = [@ EXCEPT !.amount = th[t].amount - n,
                                            !.freed_tot = th[t].freed_tot + n,
                                            !.got = NULL, !.pc = "tail"]]
      BY <2>2 DEF Reclaim
    <3> HIDE DEF n
    <3>2. "tail" \in Label
      BY DEF Label
    <3>3. /\ Moves(t, "tail") /\ th'[t].as = th[t].as /\ th'[t].mine = th[t].mine
          /\ th'[t].it = th[t].it /\ th'[t].got = NULL
          /\ th'[t].amount = th[t].amount - n /\ th'[t].freed_tot = th[t].freed_tot + n
      BY <2>1, <3>1, <3>2, EvictorMoves
    <3> QED BY <2>1, <2>2, <3>3 DEF Moves, n
  <2>3. CASE ~(th[t].amount > n)
    <3>1. th' = [th EXCEPT ![t] = [@ EXCEPT !.amount = th[t].amount - n,
                                            !.freed_tot = th[t].freed_tot + n,
                                            !.got = NULL, !.pc = "evict_end"]]
      BY <2>3 DEF Reclaim
    <3> HIDE DEF n
    <3>2. "evict_end" \in Label
      BY DEF Label
    <3>3. /\ Moves(t, "evict_end") /\ th'[t].as = th[t].as /\ th'[t].mine = th[t].mine
          /\ th'[t].it = th[t].it /\ th'[t].got = NULL
          /\ th'[t].amount = th[t].amount - n /\ th'[t].freed_tot = th[t].freed_tot + n
      BY <2>1, <3>1, <3>2, EvictorMoves
    <3> QED BY <2>1, <2>3, <3>3 DEF Moves, n
  <2> QED BY <2>2, <2>3
<1> QED BY <1>0, <1>1

LEMMA ReclaimTypes ==
    ASSUME TInv, NEW t \in Threads, HarmsTyped, Reclaim(t)
    PROVE  TInv'
<1>1. Moved(t)
  BY ReclaimDoes DEF Goes, Moves, Returns
<1>2. /\ lru' \in Seq(Blocks) /\ free' \in Seq(Blocks)
      /\ block' \in [Blocks -> Header] /\ leaked' \subseteq Blocks
  <2>1. th[t].got \in Blocks /\ block[th[t].got].frags \in Seq(Blocks)
    BY ReclaimDoes, PointerTypes, HeaderTypes
  <2>2. lru' \in Seq(Blocks)
    BY WithoutFacts, StateTypes DEF Reclaim
  <2>3. <<th[t].got>> \o block[th[t].got].frags \in Seq(Blocks)
    BY <2>1, One, Joined
  <2>4. free' \in Seq(Blocks)
    BY <2>3, StateTypes, Joined DEF Reclaim
  <2>5. block' \in [Blocks -> Header]
    BY <2>1, EvictedType DEF Reclaim
  <2> QED BY <2>2, <2>4, <2>5, StateTypes DEF Reclaim
<1>3. PointersOf(t)' /\ AmountsOf(t)'
  BY ReclaimDoes, ThreadTypes, PointerTypes
  DEF PointersOf, AmountsOf, Writing, Choosing, Evicting,
      Goes, Moves, SameItems, SameAmounts, Returns, Idle
<1>4. LocksOf(t)'
  <2>1. th'[t].pc \in InEntry => B(t)' = B(t)
    BY ReclaimDoes DEF B, Hv, InEntry, Inside, Writing, Goes, Moves, SameItems, SameAmounts, Returns, Idle
  <2> QED BY ReclaimDoes, <2>1, ThreadTypes, PointerTypes, StateTypes
          DEF LocksOf, InEntry, Inside, Writing, Evicting, Choosing,
              Goes, Moves, SameItems, SameAmounts, Returns, Idle
<1>5. CountCovers'
  <2>1. th[t].pc # "pop" /\ th'[t].pc # "pop"
    BY ReclaimDoes DEF Goes, Moves, Returns, Idle
  <2>2. num_free_blocks' \in Int /\ num_free_blocks' >= num_free_blocks
    BY ReclaimDoes, StateTypes
  <2> QED BY <1>1, <2>1, <2>2, SamePopping
<1>6. DataTyped
  BY ReclaimDoes, <1>2, StateTypes DEF DataTyped
<1>7. LocksLeft(t)
  BY ReclaimDoes, StateTypes, ThreadTypes, PointerTypes
  DEF LocksLeft, LocksOf, InEntry, Inside, Evicting, Choosing, Writing
<1> QED BY <1>1, <1>3, <1>4, <1>5, <1>6, <1>7, TStep

LEMMA EvictEndDoes ==
    ASSUME TInv, NEW t \in Threads, EvictEnd(t)
    PROVE  /\ th[t].pc = "evict_end"
           /\ UNCHANGED <<entryLock, barrier, valid, chain, block,
                          lru, free, calls, leaked>>
           /\ Goes(t, "pop", th[t].it)
           /\ evict_lock' = Nobody /\ evict_lock = t
<1>0. /\ th[t].pc = "evict_end"
      /\ UNCHANGED <<entryLock, barrier, valid, chain, block,
                     lru, free, calls, leaked>>
  BY DEF EvictEnd, At, table, lists
<1>1. Goes(t, "pop", th[t].it)
  BY <1>0, GotoMoves DEF EvictEnd, Label
<1>2. evict_lock' = Nobody /\ evict_lock = t
  BY <1>0, ThreadTypes DEF EvictEnd, LocksOf, Evicting
<1> QED BY <1>0, <1>1, <1>2

LEMMA EvictEndTypes ==
    ASSUME TInv, NEW t \in Threads, HarmsTyped, EvictEnd(t)
    PROVE  TInv'
<1>1. Moved(t)
  BY EvictEndDoes DEF Goes, Moves, Returns
<1>2. /\ num_free_blocks' \in Int
      /\ num_free_blocks' >= num_free_blocks + 1
  <2>1. th[t].freed_tot \in Nat /\ th[t].freed_tot >= 1
    BY EvictEndDoes, ThreadTypes, KeyTypes DEF AmountsOf, Evicting
  <2> QED BY <2>1, StateTypes DEF EvictEnd
<1>3. PointersOf(t)' /\ AmountsOf(t)'
  BY EvictEndDoes, ThreadTypes, PointerTypes
  DEF PointersOf, AmountsOf, Writing, Choosing, Evicting,
      Goes, Moves, SameItems, SameAmounts, Returns, Idle
<1>4. LocksOf(t)'
  <2>1. th'[t].pc \in InEntry => B(t)' = B(t)
    BY EvictEndDoes DEF B, Hv, InEntry, Inside, Writing, Goes, Moves, SameItems, SameAmounts, Returns, Idle
  <2> QED BY EvictEndDoes, <2>1, ThreadTypes, PointerTypes, StateTypes
          DEF LocksOf, InEntry, Inside, Writing, Evicting, Choosing,
              Goes, Moves, SameItems, SameAmounts, Returns, Idle
<1>5. CountCovers'
  <2>1. Popping' = Popping \cup {t}
    BY EvictEndDoes, <1>1 DEF Popping, At, Moved, Goes, Moves
  <2>2. IsFiniteSet(Popping) /\ Cardinality(Popping) \in Nat
    BY ThreadsAssumption, FS_Subset, FS_CardinalityType DEF Popping
  <2>3. Cardinality(Popping') <= Cardinality(Popping) + 1
        /\ Cardinality(Popping') \in Nat
    BY <2>1, <2>2, FS_AddElement, SMTT(20)
  <2> QED BY <1>2, <2>2, <2>3, StateTypes DEF CountCovers
<1>6. DataTyped
  BY EvictEndDoes, <1>2, StateTypes DEF DataTyped
<1>7. LocksLeft(t)
  BY EvictEndDoes, StateTypes, ThreadTypes, PointerTypes
  DEF LocksLeft, LocksOf, InEntry, Inside, Evicting, Choosing, Writing
<1> QED BY <1>1, <1>3, <1>4, <1>5, <1>6, <1>7, TStep

LEMMA PopDoes ==
    ASSUME TInv, NEW t \in Threads, Pop(t)
    PROVE  /\ th[t].pc = "pop"
           /\ UNCHANGED <<entryLock, barrier, valid, chain, lru,
                          evict_lock, calls, leaked>>
           /\ \/ Goes(t, "crash", th[t].it) /\ UNCHANGED <<free, block>>
              \/ /\ Moves(t, "fill") /\ SameAmounts(t) /\ th'[t].got = Head(free)
                 /\ th'[t].as = th[t].as /\ th'[t].mine = th[t].mine /\ th'[t].it = th[t].it
                 /\ free # << >> /\ Head(free) \in Blocks
<1>0. /\ th[t].pc = "pop"
      /\ UNCHANGED <<entryLock, barrier, valid, chain, lru,
                     evict_lock, calls, leaked>>
  BY DEF Pop, At, table, lists
<1>1. \/ Goes(t, "crash", th[t].it) /\ UNCHANGED <<free, block>>
      \/ /\ Moves(t, "fill") /\ SameAmounts(t) /\ th'[t].got = Head(free)
         /\ th'[t].as = th[t].as /\ th'[t].mine = th[t].mine /\ th'[t].it = th[t].it
         /\ free # << >> /\ Head(free) \in Blocks
  <2>1. CASE free = << >>
    BY <2>1, GotoMoves DEF Pop, Label
  <2>2. CASE free # << >>
    <3> DEFINE r == [th[t] EXCEPT !.pc = "fill", !.got = Head(free)]
    <3>1. Head(free) \in Blocks /\ Head(free) \in 0 .. NumBlocks
      BY <2>2, TailFacts, StateTypes, KeyTypes
    <3>2. r \in Thread
      BY <3>1, ThreadTypes, ZenonT(40) DEF Thread, Label
    <3>3. th' = [th EXCEPT ![t] = r]
      BY <2>2 DEF Pop
    <3> QED BY <2>2, <3>1, <3>2, <3>3 DEF Moves, Moved, SameAmounts, Thread, TInv, TypeOK
  <2> QED BY <2>1, <2>2
<1> QED BY <1>0, <1>1

LEMMA PopTypes ==
    ASSUME TInv, NEW t \in Threads, HarmsTyped, Pop(t)
    PROVE  TInv'
<1>1. Moved(t)
  BY PopDoes DEF Goes, Moves, Returns
<1>2. /\ free' \in Seq(Blocks) /\ block' \in [Blocks -> Header]
      /\ num_free_blocks' \in Int /\ num_free_blocks' = num_free_blocks - 1
  <2>1. IsFiniteSet(Popping) /\ t \in Popping
    BY PopDoes, ThreadsAssumption, FS_Subset DEF Popping, At
  <2>2. Cardinality(Popping) \in Nat \ {0}
    BY <2>1, FS_EmptySet, FS_CardinalityType
  <2>3. num_free_blocks' \in Int /\ num_free_blocks' = num_free_blocks - 1
    BY <2>2, StateTypes DEF Pop, CountCovers
  <2>4. CASE free = << >>
    BY <2>3, <2>4, StateTypes DEF Pop
  <2>5. CASE free # << >>
    <3>1. Head(free) \in Blocks /\ Tail(free) \in Seq(Blocks)
      BY <2>5, TailFacts, StateTypes
    <3> QED BY <2>3, <2>5, <3>1, ZeroType, StateTypes DEF Pop
  <2> QED BY <2>4, <2>5
<1>3. PointersOf(t)' /\ AmountsOf(t)'
  <2>1. CASE Goes(t, "crash", th[t].it)
    BY PopDoes, <2>1, ThreadTypes, PointerTypes
    DEF PointersOf, AmountsOf, Writing, Choosing, Evicting, Goes, Moves, SameItems
  <2>2. CASE Moves(t, "fill") /\ th'[t].got \in Blocks /\ th'[t].mine = th[t].mine
    <3>1. th'[t].got # NULL
      BY <2>2, KeyTypes
    <3> QED BY PopDoes, <2>2, <3>1, ThreadTypes
            DEF PointersOf, AmountsOf, Writing, Choosing, Evicting, Moves
  <2> QED BY PopDoes, <2>1, <2>2
<1>4. LocksOf(t)'
  <2>1. th'[t].pc \in InEntry => B(t)' = B(t)
    BY PopDoes DEF B, Hv, InEntry, Inside, Writing, Goes, Moves, SameItems, SameAmounts, Returns, Idle
  <2> QED BY PopDoes, <2>1, ThreadTypes, PointerTypes, StateTypes, ZenonT(40)
          DEF LocksOf, InEntry, Inside, Writing, Evicting, Choosing,
              Goes, Moves, SameItems, SameAmounts, Returns, Idle
<1>5. CountCovers'
  <2>1. Popping' = Popping \ {t} /\ t \in Popping
    BY PopDoes, <1>1 DEF Popping, At, Moved, Goes, Moves
  <2>2. IsFiniteSet(Popping) /\ Cardinality(Popping) \in Nat
    BY ThreadsAssumption, FS_Subset, FS_CardinalityType DEF Popping
  <2>3. Cardinality(Popping') = Cardinality(Popping) - 1
    BY <2>1, <2>2, FS_RemoveElement
  <2> QED BY <1>2, <2>2, <2>3, StateTypes DEF CountCovers
<1>6. DataTyped
  BY PopDoes, <1>2, StateTypes DEF DataTyped
<1>7. LocksLeft(t)
  BY PopDoes, StateTypes, ThreadTypes, PointerTypes
  DEF LocksLeft, LocksOf, InEntry, Inside, Evicting, Choosing, Writing
<1> QED BY <1>1, <1>3, <1>4, <1>5, <1>6, <1>7, TStep

LEMMA FillItemDoes ==
    ASSUME TInv, NEW t \in Threads, FillItem(t)
    PROVE  /\ th[t].pc = "fill"
           /\ UNCHANGED <<entryLock, barrier, valid, chain, lru, free,
                          num_free_blocks, evict_lock, calls, leaked>>
           /\ Moves(t, th'[t].pc) /\ SameAmounts(t)
           /\ th'[t].pc \in {"room", "drop", "finish"}
           /\ th'[t].mine = th[t].got /\ th'[t].got = NULL
           /\ th'[t].as = th[t].as /\ th'[t].it = th[t].it
<1>0. /\ th[t].pc = "fill"
      /\ UNCHANGED <<entryLock, barrier, valid, chain, lru, free,
                     num_free_blocks, evict_lock, calls, leaked>>
  BY DEF FillItem, At, table, lists
<1>1. /\ Moves(t, th'[t].pc) /\ SameAmounts(t)
      /\ th'[t].pc \in {"room", "drop", "finish"}
      /\ th'[t].mine = th[t].got /\ th'[t].got = NULL
      /\ th'[t].as = th[t].as /\ th'[t].it = th[t].it
  <2> DEFINE p == AfterWrite(0, th[t].frags)
             r == [th[t] EXCEPT !.mine = th[t].got, !.got = NULL, !.pc = p]
  <2>1. p \in {"room", "drop", "finish"}
    BY ThreadTypes, AfterWriteLabels
  <2>2. th' = [th EXCEPT ![t] = r]
    BY DEF FillItem
  <2> HIDE DEF p
  <2>3. r \in Thread
    <3>1. p \in Label /\ th[t] \in Thread /\ NULL \in 0 .. NumBlocks
      BY <2>1, ThreadTypes, KeyTypes DEF Label
    <3> QED BY <3>1 DEF Thread
  <2> QED BY <2>1, <2>2, <2>3 DEF Moves, Moved, SameAmounts, Thread, TInv, TypeOK
<1> QED BY <1>0, <1>1

LEMMA FillItemTypes ==
    ASSUME TInv, NEW t \in Threads, HarmsTyped, FillItem(t)
    PROVE  TInv'
<1>1. Moved(t)
  BY FillItemDoes DEF Goes, Moves, Returns
<1>2. block' \in [Blocks -> Header]
  <2>1. Hv(t) \in Nat /\ th[t].key \in Keys \cup {NoKey} /\ th[t].ver \in Nat
    BY FillItemDoes, PointerTypes, ThreadTypes
  <2>2. [Zero EXCEPT !.hv = Hv(t), !.key = th[t].key, !.size = 1, !.ver = th[t].ver] \in Header
    BY <2>1, ZeroType DEF Header
  <2> QED BY <2>2, StateTypes DEF FillItem
<1>3. PointersOf(t)' /\ AmountsOf(t)'
  BY FillItemDoes, ThreadTypes, PointerTypes
  DEF PointersOf, AmountsOf, Writing, Choosing, Evicting,
      Goes, Moves, SameItems, SameAmounts, Returns, Idle
<1>4. LocksOf(t)'
  <2>1. th'[t].pc \in InEntry => B(t)' = B(t)
    BY FillItemDoes DEF B, Hv, InEntry, Inside, Writing, Goes, Moves, SameItems, SameAmounts, Returns, Idle
  <2> QED BY FillItemDoes, <2>1, ThreadTypes, PointerTypes, StateTypes, SMTT(30)
          DEF LocksOf, InEntry, Inside, Writing, Evicting, Choosing,
              Goes, Moves, SameItems, SameAmounts, Returns, Idle
<1>5. CountCovers'
  <2>1. th[t].pc # "pop" /\ th'[t].pc # "pop"
    BY FillItemDoes DEF Goes, Moves, Returns, Idle
  <2>2. num_free_blocks' \in Int /\ num_free_blocks' >= num_free_blocks
    BY FillItemDoes, StateTypes
  <2> QED BY <1>1, <2>1, <2>2, SamePopping
<1>6. DataTyped
  BY FillItemDoes, <1>2, StateTypes DEF DataTyped
<1>7. LocksLeft(t)
  BY FillItemDoes, StateTypes, ThreadTypes, PointerTypes
  DEF LocksLeft, LocksOf, InEntry, Inside, Evicting, Choosing, Writing
<1> QED BY <1>1, <1>3, <1>4, <1>5, <1>6, <1>7, TStep

LEMMA FillFragmentDoes ==
    ASSUME TInv, NEW t \in Threads, FillFragment(t)
    PROVE  /\ th[t].pc = "fill"
           /\ UNCHANGED <<entryLock, barrier, valid, chain, lru, free,
                          num_free_blocks, evict_lock, calls, leaked>>
           /\ th[t].mine # NULL
           /\ Moves(t, th'[t].pc) /\ SameAmounts(t)
           /\ th'[t].pc \in {"room", "drop", "finish"}
           /\ th'[t].mine = th[t].mine /\ th'[t].got = NULL
           /\ th'[t].as = th[t].as /\ th'[t].it = th[t].it
<1>0. /\ th[t].pc = "fill"
      /\ UNCHANGED <<entryLock, barrier, valid, chain, lru, free,
                     num_free_blocks, evict_lock, calls, leaked>>
      /\ th[t].mine # NULL
  BY DEF FillFragment, At, table, lists
<1>1. /\ Moves(t, th'[t].pc) /\ SameAmounts(t)
      /\ th'[t].pc \in {"room", "drop", "finish"}
      /\ th'[t].mine = th[t].mine /\ th'[t].got = NULL
      /\ th'[t].as = th[t].as /\ th'[t].it = th[t].it
  <2> DEFINE f == Append(block[th[t].mine].frags, th[t].got)
             p == AfterWrite(Len(f), th[t].frags)
             r == [th[t] EXCEPT !.got = NULL, !.pc = p]
  <2>0. f \in Seq(Blocks)
    BY <1>0, PointerTypes, HeaderTypes, Appended
  <2>1. p \in {"room", "drop", "finish"}
    <3>1. Len(f) \in Nat /\ th[t].frags \in Nat
      BY <2>0, ThreadTypes
    <3> HIDE DEF f
    <3> QED BY <3>1, AfterWriteLabels
  <2>2. th' = [th EXCEPT ![t] = r]
    BY DEF FillFragment
  <2> HIDE DEF p, f
  <2>3. r \in Thread
    <3>1. p \in Label /\ th[t] \in Thread /\ NULL \in 0 .. NumBlocks
      BY <2>1, ThreadTypes, KeyTypes DEF Label
    <3> QED BY <3>1 DEF Thread
  <2> QED BY <2>1, <2>2, <2>3 DEF Moves, Moved, SameAmounts, Thread, TInv, TypeOK
<1> QED BY <1>0, <1>1

LEMMA FillFragmentTypes ==
    ASSUME TInv, NEW t \in Threads, HarmsTyped, FillFragment(t)
    PROVE  TInv'
<1>1. Moved(t)
  BY FillFragmentDoes DEF Goes, Moves, Returns
<1>2. block' \in [Blocks -> Header]
  <2> DEFINE f == Append(block[th[t].mine].frags, th[t].got)
             n == block[th[t].mine].size + 1
  <2>1. f \in Seq(Blocks) /\ n \in Nat
    BY FillFragmentDoes, PointerTypes, HeaderTypes, Appended
  <2>2. block' = [block EXCEPT ![th[t].got].slock = FragBytes,
                               ![th[t].mine].frags = f, ![th[t].mine].size = n]
    BY DEF FillFragment
  <2> HIDE DEF f, n
  <2>3. FragBytes \in Nat
    BY BlocksAssumption
  <2>4. th[t].got \in Blocks /\ th[t].mine \in Blocks
    BY FillFragmentDoes, PointerTypes
  <2>5. \A h \in Header : /\ [h EXCEPT !.slock = FragBytes] \in Header
                          /\ [h EXCEPT !.frags = f] \in Header
                          /\ [h EXCEPT !.size = n] \in Header
    BY <2>1, <2>3 DEF Header
  <2> DEFINE b == [block EXCEPT ![th[t].got].slock = FragBytes]
             c == [b EXCEPT ![th[t].mine].frags = f]
  <2>6. b \in [Blocks -> Header]
    BY <2>4, <2>5, StateTypes
  <2>7. block' = [c EXCEPT ![th[t].mine].size = n]
    BY <2>2
  <2> HIDE DEF b
  <2>8. c \in [Blocks -> Header]
    BY <2>4, <2>5, <2>6
  <2> HIDE DEF c
  <2> QED BY <2>4, <2>5, <2>7, <2>8
<1>3. PointersOf(t)' /\ AmountsOf(t)'
  BY FillFragmentDoes, ThreadTypes, PointerTypes
  DEF PointersOf, AmountsOf, Writing, Choosing, Evicting,
      Goes, Moves, SameItems, SameAmounts, Returns, Idle
<1>4. LocksOf(t)'
  <2>1. th'[t].pc \in InEntry => B(t)' = B(t)
    BY FillFragmentDoes DEF B, Hv, InEntry, Inside, Writing, Goes, Moves, SameItems, SameAmounts, Returns, Idle
  <2> QED BY FillFragmentDoes, <2>1, ThreadTypes, PointerTypes, StateTypes, SMTT(30)
          DEF LocksOf, InEntry, Inside, Writing, Evicting, Choosing,
              Goes, Moves, SameItems, SameAmounts, Returns, Idle
<1>5. CountCovers'
  <2>1. th[t].pc # "pop" /\ th'[t].pc # "pop"
    BY FillFragmentDoes DEF Goes, Moves, Returns, Idle
  <2>2. num_free_blocks' \in Int /\ num_free_blocks' >= num_free_blocks
    BY FillFragmentDoes, StateTypes
  <2> QED BY <1>1, <2>1, <2>2, SamePopping
<1>6. DataTyped
  BY FillFragmentDoes, <1>2, StateTypes DEF DataTyped
<1>7. LocksLeft(t)
  BY FillFragmentDoes, StateTypes, ThreadTypes, PointerTypes
  DEF LocksLeft, LocksOf, InEntry, Inside, Evicting, Choosing, Writing
<1> QED BY <1>1, <1>3, <1>4, <1>5, <1>6, <1>7, TStep

LEMMA GiveBackDoes ==
    ASSUME TInv, NEW t \in Threads, GiveBack(t)
    PROVE  /\ th[t].pc = "drop"
           /\ UNCHANGED <<entryLock, barrier, valid, chain, lru,
                          num_free_blocks, evict_lock, calls, leaked>>
           /\ \/ Goes(t, "finish", th[t].it) /\ UNCHANGED <<block, free>>
              \/ /\ Moves(t, "count") /\ th'[t].amount = th[t].amount
                 /\ th'[t].got \in Blocks /\ th'[t].freed_tot \in Nat
                 /\ th'[t].as = th[t].as /\ th'[t].mine = th[t].mine /\ th'[t].it = th[t].it
                 /\ free' \in Seq(Blocks) /\ block' \in [Blocks -> Header]
<1>0. /\ th[t].pc = "drop"
      /\ UNCHANGED <<entryLock, barrier, valid, chain, lru,
                     num_free_blocks, evict_lock, calls, leaked>>
  BY DEF GiveBack, At, table, lists
<1>1. \/ Goes(t, "finish", th[t].it) /\ UNCHANGED <<block, free>>
      \/ /\ Moves(t, "count") /\ th'[t].amount = th[t].amount
         /\ th'[t].got \in Blocks /\ th'[t].freed_tot \in Nat
         /\ th'[t].as = th[t].as /\ th'[t].mine = th[t].mine /\ th'[t].it = th[t].it
         /\ free' \in Seq(Blocks) /\ block' \in [Blocks -> Header]
  <2> DEFINE f == block[th[t].mine].frags
             kept == SubSeq(f, 1, th[t].frags)
             extra == SubSeq(f, th[t].frags + 1, Len(f))
  <2>1. CASE extra = << >>
    BY <2>1, GotoMoves DEF GiveBack, Label
  <2>2. CASE extra # << >>
    <3>1. f \in Seq(Blocks) /\ th[t].frags \in Nat
      BY <1>0, PointerTypes, HeaderTypes, ThreadTypes
    <3>2. Len(f) \in Nat /\ th[t].frags + 1 \in Nat
          /\ \A i \in 1 .. Len(f) : f[i] \in Blocks
      BY <3>1
    <3>3. extra \in Seq(Blocks)
      BY <3>1, <3>2, SubSeqProperties
    <3>4. th[t].frags < Len(f)
      BY <2>2, <3>1, <3>2, SubSeqEmpty
    <3>5. kept \in Seq(Blocks)
      BY <3>1, <3>2, <3>4, SubSeqProperties
    <3>6. /\ th' = [th EXCEPT ![t] = [@ EXCEPT !.pc = "count", !.got = Head(extra),
                                              !.freed_tot = Len(extra)]]
          /\ block' = [Evicted(Head(extra), Tail(extra)) EXCEPT ![th[t].mine].frags = kept]
          /\ free' = extra \o free
      BY <2>2 DEF GiveBack
    <3> HIDE DEF f, kept, extra
    <3>7. Head(extra) \in Blocks /\ Tail(extra) \in Seq(Blocks) /\ Len(extra) \in Nat
      BY <2>2, <3>3, TailFacts
    <3>8. [th[t] EXCEPT !.pc = "count", !.got = Head(extra), !.freed_tot = Len(extra)]
            \in Thread
      <4>1. PICK g, n : g = Head(extra) /\ n = Len(extra)
        OBVIOUS
      <4>2. g \in 0 .. NumBlocks /\ n \in Nat /\ "count" \in Label
        BY <3>7, <4>1, KeyTypes DEF Label
      <4>3. th[t] \in Thread
        BY ThreadTypes
      <4>4. [th[t] EXCEPT !.pc = "count", !.got = g, !.freed_tot = n] \in Thread
        BY <4>2, <4>3 DEF Thread
      <4> QED BY <4>1, <4>4
    <3>9. Evicted(Head(extra), Tail(extra)) \in [Blocks -> Header]
      BY <3>7, EvictedType
    <3>10. block' \in [Blocks -> Header]
      <4> DEFINE e == Evicted(Head(extra), Tail(extra))
      <4> HIDE DEF e
      <4>1. /\ e \in [Blocks -> Header] /\ th[t].mine \in Blocks
            /\ block' = [e EXCEPT ![th[t].mine].frags = kept]
        BY <1>0, <3>6, <3>9, PointerTypes DEF e
      <4>2. \A h \in Header : [h EXCEPT !.frags = kept] \in Header
        BY <3>5 DEF Header
      <4> QED BY <4>1, <4>2
    <3>11. free' \in Seq(Blocks)
      BY <3>3, <3>6, StateTypes, Joined
    <3> QED BY <3>6, <3>7, <3>8, <3>10, <3>11 DEF Moves, Moved, Thread, TInv, TypeOK
  <2> QED BY <2>1, <2>2
<1> QED BY <1>0, <1>1

LEMMA GiveBackTypes ==
    ASSUME TInv, NEW t \in Threads, HarmsTyped, GiveBack(t)
    PROVE  TInv'
<1>1. Moved(t)
  BY GiveBackDoes DEF Goes, Moves, Returns
<1>2. /\ free' \in Seq(Blocks) /\ block' \in [Blocks -> Header]
  BY GiveBackDoes, StateTypes
<1>3. PointersOf(t)' /\ AmountsOf(t)'
  <2>1. CASE Goes(t, "finish", th[t].it)
    BY GiveBackDoes, <2>1, ThreadTypes, PointerTypes
    DEF PointersOf, AmountsOf, Writing, Choosing, Evicting, Goes, Moves, SameItems
  <2>2. CASE Moves(t, "count") /\ th'[t].got \in Blocks /\ th'[t].mine = th[t].mine
    <3>1. th'[t].got # NULL
      BY <2>2, KeyTypes
    <3> QED BY GiveBackDoes, <2>2, <3>1, ThreadTypes
            DEF PointersOf, AmountsOf, Writing, Choosing, Evicting, Moves
  <2> QED BY GiveBackDoes, <2>1, <2>2
<1>4. LocksOf(t)'
  <2>1. th'[t].pc \in InEntry => B(t)' = B(t)
    BY GiveBackDoes DEF B, Hv, InEntry, Inside, Writing, Goes, Moves, SameItems, SameAmounts, Returns, Idle
  <2> QED BY GiveBackDoes, <2>1, ThreadTypes, PointerTypes, StateTypes, ZenonT(40)
          DEF LocksOf, InEntry, Inside, Writing, Evicting, Choosing,
              Goes, Moves, SameItems, SameAmounts, Returns, Idle
<1>5. CountCovers'
  <2>1. th[t].pc # "pop" /\ th'[t].pc # "pop"
    BY GiveBackDoes DEF Goes, Moves, Returns, Idle
  <2>2. num_free_blocks' \in Int /\ num_free_blocks' >= num_free_blocks
    BY GiveBackDoes, StateTypes
  <2> QED BY <1>1, <2>1, <2>2, SamePopping
<1>6. DataTyped
  BY GiveBackDoes, <1>2, StateTypes DEF DataTyped
<1>7. LocksLeft(t)
  BY GiveBackDoes, StateTypes, ThreadTypes, PointerTypes
  DEF LocksLeft, LocksOf, InEntry, Inside, Evicting, Choosing, Writing
<1> QED BY <1>1, <1>3, <1>4, <1>5, <1>6, <1>7, TStep

LEMMA CountBackDoes ==
    ASSUME TInv, NEW t \in Threads, CountBack(t)
    PROVE  /\ th[t].pc = "count"
           /\ UNCHANGED <<entryLock, barrier, valid, chain, block, lru,
                          free, evict_lock, calls, leaked>>
           /\ Goes(t, "finish", th[t].it)
<1>0. /\ th[t].pc = "count"
      /\ UNCHANGED <<entryLock, barrier, valid, chain, block, lru,
                     free, evict_lock, calls, leaked>>
  BY DEF CountBack, At, table, lists
<1>1. Goes(t, "finish", th[t].it)
  BY <1>0, GotoMoves DEF CountBack, Label
<1> QED BY <1>0, <1>1

LEMMA CountBackTypes ==
    ASSUME TInv, NEW t \in Threads, HarmsTyped, CountBack(t)
    PROVE  TInv'
<1>1. Moved(t)
  BY CountBackDoes DEF Goes, Moves, Returns
<1>2. /\ num_free_blocks' \in Int
      /\ num_free_blocks' >= num_free_blocks
  <2>1. block[th[t].got].slock \in Nat
    BY CountBackDoes, PointerTypes, HeaderTypes
  <2> QED BY <2>1, StateTypes DEF CountBack
<1>3. PointersOf(t)' /\ AmountsOf(t)'
  BY CountBackDoes, ThreadTypes, PointerTypes
  DEF PointersOf, AmountsOf, Writing, Choosing, Evicting,
      Goes, Moves, SameItems, SameAmounts, Returns, Idle
<1>4. LocksOf(t)'
  <2>1. th'[t].pc \in InEntry => B(t)' = B(t)
    BY CountBackDoes DEF B, Hv, InEntry, Inside, Writing, Goes, Moves, SameItems, SameAmounts, Returns, Idle
  <2> QED BY CountBackDoes, <2>1, ThreadTypes, PointerTypes, StateTypes, SMTT(30)
          DEF LocksOf, InEntry, Inside, Writing, Evicting, Choosing,
              Goes, Moves, SameItems, SameAmounts, Returns, Idle
<1>5. CountCovers'
  <2>1. th'[t].pc # "pop"
    BY CountBackDoes DEF Goes, Moves, SameItems, SameAmounts, Returns, Idle
  <2> QED BY CountBackDoes, <1>1, <1>2, <2>1, StateTypes, SamePopping
<1>6. DataTyped
  BY CountBackDoes, <1>2, StateTypes DEF DataTyped
<1>7. LocksLeft(t)
  BY CountBackDoes, StateTypes, ThreadTypes, PointerTypes
  DEF LocksLeft, LocksOf, InEntry, Inside, Evicting, Choosing, Writing
<1> QED BY <1>1, <1>3, <1>4, <1>5, <1>6, <1>7, TStep

LEMMA FinishFirstDoes ==
    ASSUME TInv, NEW t \in Threads, FinishFirst(t)
    PROVE  /\ th[t].pc = "finish"
           /\ UNCHANGED <<entryLock, barrier, valid, block, free,
                          num_free_blocks, evict_lock, calls, leaked>>
           /\ Moves(t, "publish") /\ SameAmounts(t)
           /\ th'[t].mine = NULL /\ th'[t].got = th[t].got
           /\ th'[t].as = th[t].as /\ th'[t].it = th[t].it
<1>0. /\ th[t].pc = "finish"
      /\ UNCHANGED <<entryLock, barrier, valid, block, free,
                     num_free_blocks, evict_lock, calls, leaked>>
  BY DEF FinishFirst, At, table, lists
<1>1. /\ Moves(t, "publish") /\ SameAmounts(t)
      /\ th'[t].mine = NULL /\ th'[t].got = th[t].got
      /\ th'[t].as = th[t].as /\ th'[t].it = th[t].it
  <2> DEFINE r == [th[t] EXCEPT !.pc = "publish", !.mine = NULL]
  <2>1. r \in Thread
    <3>1. "publish" \in Label /\ th[t] \in Thread /\ NULL \in 0 .. NumBlocks
      BY ThreadTypes, KeyTypes DEF Label
    <3> QED BY <3>1 DEF Thread
  <2>2. th' = [th EXCEPT ![t] = r]
    BY DEF FinishFirst
  <2> QED BY <2>1, <2>2 DEF Moves, Moved, SameAmounts, Thread, TInv, TypeOK
<1> QED BY <1>0, <1>1

LEMMA FinishFirstTypes ==
    ASSUME TInv, NEW t \in Threads, HarmsTyped, FinishFirst(t)
    PROVE  TInv'
<1>1. Moved(t)
  BY FinishFirstDoes DEF Goes, Moves, Returns
<1>2. chain' \in [Buckets -> 0 .. NumBlocks] /\ lru' \in Seq(Blocks)
  <2>1. th[t].mine \in Blocks
    BY FinishFirstDoes, PointerTypes
  <2> QED BY FinishFirstDoes, <2>1, ToFrontFacts, StateTypes, KeyTypes DEF FinishFirst
<1>3. PointersOf(t)' /\ AmountsOf(t)'
  BY FinishFirstDoes, ThreadTypes, PointerTypes
  DEF PointersOf, AmountsOf, Writing, Choosing, Evicting,
      Goes, Moves, SameItems, SameAmounts, Returns, Idle
<1>4. LocksOf(t)'
  <2>1. th'[t].pc \in InEntry => B(t)' = B(t)
    BY FinishFirstDoes DEF B, Hv, InEntry, Inside, Writing, Goes, Moves, SameItems, SameAmounts, Returns, Idle
  <2> QED BY FinishFirstDoes, <2>1, ThreadTypes, PointerTypes, StateTypes, SMTT(30)
          DEF LocksOf, InEntry, Inside, Writing, Evicting, Choosing,
              Goes, Moves, SameItems, SameAmounts, Returns, Idle
<1>5. CountCovers'
  <2>1. th[t].pc # "pop" /\ th'[t].pc # "pop"
    BY FinishFirstDoes DEF Goes, Moves, Returns, Idle
  <2>2. num_free_blocks' \in Int /\ num_free_blocks' >= num_free_blocks
    BY FinishFirstDoes, StateTypes
  <2> QED BY <1>1, <2>1, <2>2, SamePopping
<1>6. DataTyped
  BY FinishFirstDoes, <1>2, StateTypes DEF DataTyped
<1>7. LocksLeft(t)
  BY FinishFirstDoes, StateTypes, ThreadTypes, PointerTypes
  DEF LocksLeft, LocksOf, InEntry, Inside, Evicting, Choosing, Writing
<1> QED BY <1>1, <1>3, <1>4, <1>5, <1>6, <1>7, TStep

LEMMA PublishDoes ==
    ASSUME TInv, NEW t \in Threads, Publish(t)
    PROVE  /\ th[t].pc = "publish"
           /\ UNCHANGED <<barrier, chain, block, lru, free,
                          num_free_blocks, evict_lock, calls, leaked>>
           /\ Returns(t)
           /\ entryLock' = [entryLock EXCEPT ![B(t)] = Nobody]
<1>0. /\ th[t].pc = "publish"
      /\ UNCHANGED <<barrier, chain, block, lru, free,
                     num_free_blocks, evict_lock, calls, leaked>>
  BY DEF Publish, At, table, lists
<1>1. Returns(t)
  BY ReturnMoves DEF Publish
<1>2. entryLock' = [entryLock EXCEPT ![B(t)] = Nobody]
  BY DEF Publish, Drop
<1> QED BY <1>0, <1>1, <1>2

LEMMA PublishTypes ==
    ASSUME TInv, NEW t \in Threads, HarmsTyped, Publish(t)
    PROVE  TInv'
<1>1. Moved(t)
  BY PublishDoes DEF Goes, Moves, Returns
<1>2. valid' \in [Buckets -> BOOLEAN]
  BY StateTypes DEF Publish
<1>3. PointersOf(t)' /\ AmountsOf(t)'
  BY PublishDoes, ThreadTypes, PointerTypes
  DEF PointersOf, AmountsOf, Writing, Choosing, Evicting,
      Goes, Moves, SameItems, SameAmounts, Returns, Idle
<1>4. LocksOf(t)'
  <2>1. th'[t].pc \in InEntry => B(t)' = B(t)
    BY PublishDoes DEF B, Hv, InEntry, Inside, Writing, Goes, Moves, SameItems, SameAmounts, Returns, Idle
  <2> QED BY PublishDoes, <2>1, ThreadTypes, PointerTypes, StateTypes
          DEF LocksOf, InEntry, Inside, Writing, Evicting, Choosing,
              Goes, Moves, SameItems, SameAmounts, Returns, Idle
<1>5. CountCovers'
  <2>1. th[t].pc # "pop" /\ th'[t].pc # "pop"
    BY PublishDoes DEF Goes, Moves, Returns, Idle
  <2>2. num_free_blocks' \in Int /\ num_free_blocks' >= num_free_blocks
    BY PublishDoes, StateTypes
  <2> QED BY <1>1, <2>1, <2>2, SamePopping
<1>6. DataTyped
  BY PublishDoes, <1>2, StateTypes DEF DataTyped
<1>7. LocksLeft(t)
  BY PublishDoes, StateTypes, ThreadTypes, PointerTypes
  DEF LocksLeft, LocksOf, InEntry, Inside, Evicting, Choosing, Writing
<1> QED BY <1>1, <1>3, <1>4, <1>5, <1>6, <1>7, TStep

LEMMA FinishInsertDoes ==
    ASSUME TInv, NEW t \in Threads, FinishInsert(t)
    PROVE  /\ th[t].pc = "finish"
           /\ UNCHANGED <<barrier, free, num_free_blocks, evict_lock, calls, leaked>>
           /\ Returns(t)
           /\ entryLock' = [entryLock EXCEPT ![B(t)] = Nobody]
<1>0. /\ th[t].pc = "finish"
      /\ UNCHANGED <<barrier, free, num_free_blocks, evict_lock, calls, leaked>>
  BY DEF FinishInsert, At, table, lists
<1>1. Returns(t)
  BY ReturnMoves DEF FinishInsert
<1>2. entryLock' = [entryLock EXCEPT ![B(t)] = Nobody]
  BY DEF FinishInsert, Drop
<1> QED BY <1>0, <1>1, <1>2

LEMMA FinishInsertTypes ==
    ASSUME TInv, NEW t \in Threads, HarmsTyped, FinishInsert(t)
    PROVE  TInv'
<1>1. Moved(t)
  BY FinishInsertDoes DEF Goes, Moves, Returns
<1>2. /\ chain' \in [Buckets -> 0 .. NumBlocks] /\ lru' \in Seq(Blocks)
      /\ valid' \in [Buckets -> BOOLEAN] /\ block' \in [Blocks -> Header]
  <2>1. th[t].mine \in Blocks /\ chain[B(t)] \in 0 .. NumBlocks
    BY FinishInsertDoes, PointerTypes
  <2>2. block' \in [Blocks -> Header]
    <3>1. \A y \in Blocks : [block[y] EXCEPT !.next = chain[B(t)]] \in Header
                            /\ [block[y] EXCEPT !.prev = th[t].mine] \in Header
      BY <2>1, KeyTypes, HeaderTypes, HeaderLinks
    <3> QED BY <3>1, StateTypes DEF FinishInsert, LinkedBefore
  <2>3. chain' \in [Buckets -> 0 .. NumBlocks] /\ lru' \in Seq(Blocks)
    BY <2>1, ToFrontFacts, StateTypes, KeyTypes DEF FinishInsert
  <2>4. valid' \in [Buckets -> BOOLEAN]
    BY StateTypes DEF FinishInsert
  <2> QED BY <2>2, <2>3, <2>4
<1>3. PointersOf(t)' /\ AmountsOf(t)'
  BY FinishInsertDoes, ThreadTypes, PointerTypes
  DEF PointersOf, AmountsOf, Writing, Choosing, Evicting,
      Goes, Moves, SameItems, SameAmounts, Returns, Idle
<1>4. LocksOf(t)'
  <2>1. th'[t].pc \in InEntry => B(t)' = B(t)
    BY FinishInsertDoes DEF B, Hv, InEntry, Inside, Writing, Goes, Moves, SameItems, SameAmounts, Returns, Idle
  <2> QED BY FinishInsertDoes, <2>1, ThreadTypes, PointerTypes, StateTypes
          DEF LocksOf, InEntry, Inside, Writing, Evicting, Choosing,
              Goes, Moves, SameItems, SameAmounts, Returns, Idle
<1>5. CountCovers'
  <2>1. th[t].pc # "pop" /\ th'[t].pc # "pop"
    BY FinishInsertDoes DEF Goes, Moves, Returns, Idle
  <2>2. num_free_blocks' \in Int /\ num_free_blocks' >= num_free_blocks
    BY FinishInsertDoes, StateTypes
  <2> QED BY <1>1, <2>1, <2>2, SamePopping
<1>6. DataTyped
  BY FinishInsertDoes, <1>2, StateTypes DEF DataTyped
<1>7. LocksLeft(t)
  BY FinishInsertDoes, StateTypes, ThreadTypes, PointerTypes
  DEF LocksLeft, LocksOf, InEntry, Inside, Evicting, Choosing, Writing
<1> QED BY <1>1, <1>3, <1>4, <1>5, <1>6, <1>7, TStep

LEMMA FinishOverwriteDoes ==
    ASSUME TInv, NEW t \in Threads, FinishOverwrite(t)
    PROVE  /\ th[t].pc = "finish"
           /\ UNCHANGED <<barrier, valid, chain, free, num_free_blocks,
                          evict_lock, calls, leaked>>
           /\ Returns(t)
           /\ entryLock' = [entryLock EXCEPT ![B(t)] = Nobody]
<1>0. /\ th[t].pc = "finish"
      /\ UNCHANGED <<barrier, valid, chain, free, num_free_blocks,
                     evict_lock, calls, leaked>>
  BY DEF FinishOverwrite, At, table, lists
<1>1. Returns(t)
  BY ReturnMoves DEF FinishOverwrite
<1>2. entryLock' = [entryLock EXCEPT ![B(t)] = Nobody]
  BY DEF FinishOverwrite, Drop
<1> QED BY <1>0, <1>1, <1>2

LEMMA FinishOverwriteTypes ==
    ASSUME TInv, NEW t \in Threads, HarmsTyped, FinishOverwrite(t)
    PROVE  TInv'
<1>1. Moved(t)
  BY FinishOverwriteDoes DEF Goes, Moves, Returns
<1>2. /\ lru' \in Seq(Blocks) /\ block' \in [Blocks -> Header]
  <2>1. th[t].mine \in Blocks
    BY FinishOverwriteDoes, PointerTypes
  <2>2. block' \in [Blocks -> Header]
    <3>1. [block[th[t].mine] EXCEPT !.state = "-", !.lock = FALSE] \in Header
      BY <2>1, HeaderTypes, HeaderWith
    <3> QED BY <2>1, <3>1, StateTypes DEF FinishOverwrite
  <2> QED BY <2>1, <2>2, StateTypes, ToFrontFacts DEF FinishOverwrite
<1>3. PointersOf(t)' /\ AmountsOf(t)'
  BY FinishOverwriteDoes, ThreadTypes, PointerTypes
  DEF PointersOf, AmountsOf, Writing, Choosing, Evicting,
      Goes, Moves, SameItems, SameAmounts, Returns, Idle
<1>4. LocksOf(t)'
  <2>1. th'[t].pc \in InEntry => B(t)' = B(t)
    BY FinishOverwriteDoes DEF B, Hv, InEntry, Inside, Writing, Goes, Moves, SameItems, SameAmounts, Returns, Idle
  <2> QED BY FinishOverwriteDoes, <2>1, ThreadTypes, PointerTypes, StateTypes
          DEF LocksOf, InEntry, Inside, Writing, Evicting, Choosing,
              Goes, Moves, SameItems, SameAmounts, Returns, Idle
<1>5. CountCovers'
  <2>1. th[t].pc # "pop" /\ th'[t].pc # "pop"
    BY FinishOverwriteDoes DEF Goes, Moves, Returns, Idle
  <2>2. num_free_blocks' \in Int /\ num_free_blocks' >= num_free_blocks
    BY FinishOverwriteDoes, StateTypes
  <2> QED BY <1>1, <2>1, <2>2, SamePopping
<1>6. DataTyped
  BY FinishOverwriteDoes, <1>2, StateTypes DEF DataTyped
<1>7. LocksLeft(t)
  BY FinishOverwriteDoes, StateTypes, ThreadTypes, PointerTypes
  DEF LocksLeft, LocksOf, InEntry, Inside, Evicting, Choosing, Writing
<1> QED BY <1>1, <1>3, <1>4, <1>5, <1>6, <1>7, TStep

LEMMA TInit == Init => TInv
<1> SUFFICES ASSUME Init PROVE TInv
  OBVIOUS
<1>1. free \in Seq(Blocks)
  <2>1. free \in [1 .. NumBlocks -> Blocks] /\ NumBlocks \in Nat
    BY KeyTypes DEF Init, Blocks
  <2> QED BY <2>1, SeqDef
<1>2. TypeOK
  <2>1. lru \in Seq(Blocks) /\ num_free_blocks \in Nat /\ num_free_blocks \in Int /\ calls \in 0 .. MaxCalls
    BY KeyTypes, BlocksAssumption DEF Init
  <2>2. block \in [Blocks -> Header] /\ th \in [Threads -> Thread]
    BY ZeroType, IdleType DEF Init
  <2>3. chain \in [Buckets -> 0 .. NumBlocks]
    BY KeyTypes DEF Init
  <2> QED BY <1>1, <2>1, <2>2, <2>3 DEF Init, TypeOK
<1>3. ASSUME NEW t \in Threads
      PROVE  PointersOf(t) /\ LocksOf(t) /\ AmountsOf(t)
  <2>1. th[t] = Idle
    BY DEF Init
  <2> QED BY <2>1 DEF PointersOf, LocksOf, AmountsOf, Idle, InEntry, Inside, Writing,
                      Evicting, Choosing
<1>4. CountCovers
  <2>1. Popping = {}
    BY DEF Popping, At, Init, Idle
  <2> QED BY <2>1, FS_EmptySet, KeyTypes DEF CountCovers, Init
<1> QED BY <1>2, <1>3, <1>4 DEF TInv

\* A step is one of the actions below, by one thread.
LEMMA Actions ==
    ASSUME Next
    PROVE  \E t \in Threads :
        \/ \E k \in Keys : BeginGet(t, k)
        \/ \E k \in Keys : \E w \in Writes : BeginSet(t, k, w)
        \/ Enter(t) \/ ReadHead(t) \/ TakeBarrier(t) \/ WalkOn(t) \/ WalkEnds(t)
        \/ TakeState(t) \/ TryItem(t) \/ SkipItem(t) \/ OtherKey(t)
        \/ GetShares(t) \/ GetOwn(t) \/ Pass(t) \/ Leave(t) \/ EndCopy(t)
        \/ Room(t) \/ EvictLock(t) \/ ReadTail(t) \/ TryTail(t) \/ Unchain(t)
        \/ Reclaim(t) \/ EvictEnd(t) \/ Pop(t)
        \/ SetWaits(t) \/ SetTooOld(t) \/ SetOwn(t) \/ FillItem(t)
        \/ FillFragment(t) \/ GiveBack(t) \/ CountBack(t) \/ FinishFirst(t)
        \/ Publish(t) \/ FinishInsert(t) \/ FinishOverwrite(t)
BY Zenon DEF Next, Begin, Walk, Get, GetFree, Set

LEMMA TNext == TInv /\ [Next]_vars => TInv'
<1> SUFFICES ASSUME TInv, [Next]_vars PROVE TInv'
  OBVIOUS
<1>1. CASE UNCHANGED vars
  BY <1>1 DEF TInv, TypeOK, PointersOf, LocksOf, AmountsOf, CountCovers, Popping, At, B, Hv,
              FewThreads, vars, table, lists
<1>2. CASE Next
  <2>1. HarmsTyped
    BY <1>2 DEF Next, Watch, HarmsTyped, TInv, TypeOK
  <2> QED BY <1>2, <2>1, Actions, BeginGetTypes, BeginSetTypes, EnterTypes, ReadHeadTypes,
             TakeBarrierTypes, WalkOnTypes, WalkEndsTypes, TakeStateTypes, TryItemTypes,
             SkipItemTypes, OtherKeyTypes, GetSharesTypes, GetOwnTypes, PassTypes, LeaveTypes,
             EndCopyTypes, RoomTypes, EvictLockTypes, ReadTailTypes, TryTailTypes, UnchainTypes,
             ReclaimTypes, EvictEndTypes, PopTypes, SetWaitsTypes, SetTooOldTypes, SetOwnTypes,
             FillItemTypes, FillFragmentTypes, GiveBackTypes, CountBackTypes, FinishFirstTypes,
             PublishTypes, FinishInsertTypes, FinishOverwriteTypes
<1> QED BY <1>1, <1>2

\* Every variable keeps its type, whatever the threads do: in particular no pointer leaves
\* the log; and the count of free blocks does not wrap below zero as long as there are no
\* more threads than EVICT_POINT (ram_ht.c:1015-1072).  With more of them it may.
THEOREM TypesHold == Spec => []TypeOK
<1>1. TInv => TypeOK
  BY DEF TInv
<1> QED BY <1>1, TInit, TNext, PTL DEF Spec

\* The locks of its bucket are a thread's own from entry->lock to its release, the
\* evictor's lock is the evictor's, and the pointers a thread follows are not NULL.
THEOREM LocksHeld == Spec => [](\A t \in Threads : PointersOf(t) /\ LocksOf(t) /\ AmountsOf(t))
<1>1. TInv => \A t \in Threads : PointersOf(t) /\ LocksOf(t) /\ AmountsOf(t)
  BY DEF TInv
<1> QED BY <1>1, TInit, TNext, PTL DEF Spec
=============================================================================
