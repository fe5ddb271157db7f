---------------------------- MODULE DatabaseProofs ----------------------------
(***************************************************************************)
(* For any number of workers, keys and datagrams: the server's variables   *)
(* keep their types, and its log is used as the queue of LogQueue.  What   *)
(* both rest on is that a thread that writes an item out finds its own     *)
(* item again, whatever has left the log or entered it meanwhile.          *)
(*                                                                         *)
(* Then the cache: with nothing of a key on its way to it, what it answers *)
(* for the key is what the SSD has, unless a version was cached after a    *)
(* newer one had been evicted.  And the newest value of a key: it is in    *)
(* the log until it has been on the SSD and in the cache, and from there   *)
(* on neither has anything older to answer a GET with.                     *)
(***************************************************************************)
EXTENDS Database, FiniteSetTheorems, SequenceTheorems, TLAPS

Writing(t) == th[t].pc \in {"store", "cache", "consume"}

\* The request and the version a thread has where it needs them.
FieldsFit ==
    \A t \in Threads :
        /\ \/ th[t].pc \in {"supersede", "append", "find", "cached", "read", "fill"}
           \/ th[t].then = "append"
           => th[t].key \in Keys
        /\ th[t].pc \in {"cache", "fill"} => th[t].ver \in Nat

\* Every thread that writes out has an item of its own behind next.
ItemsOwned ==
    /\ \A i, j \in Positions : log[i].id = log[j].id => i = j
    /\ \A t \in Threads : Writing(t) =>
          \E i \in 1 .. next : log[i].id = th[t].id /\ log[i].busy
    /\ \A t, u \in Threads :
          Writing(t) /\ Writing(u) /\ th[t].id = th[u].id => t = u

IInv == TypeOK /\ FieldsFit /\ ItemsOwned

LEMMA WorkersAreThreads == Workers \subseteq Threads /\ Maint \in Threads
BY DEF Threads

-----------------------------------------------------------------------------
(* The operators of the model. *)

\* Positions and their items.
LEMMA LogItems ==
    ASSUME TypeOK
    PROVE  /\ Len(log) \in Nat /\ next \in Nat /\ next <= Len(log)
           /\ log \in [Positions -> Item]
           /\ \A i \in Positions : log[i] \in Item
BY LenProperties DEF TypeOK, Positions

\* A thread that writes out comes back to the item it claimed.
LEMMA MineIsMine ==
    ASSUME IInv, NEW t \in Threads, Writing(t)
    PROVE  /\ Mine(t) \in 1 .. next /\ Mine(t) \in Positions
           /\ log[Mine(t)].id = th[t].id /\ log[Mine(t)].busy
           /\ \A i \in Positions : log[i].id = th[t].id => i = Mine(t)
           /\ log[Mine(t)] \in Item
<1>1. TypeOK
  BY DEF IInv
<1>2. PICK i \in 1 .. next : log[i].id = th[t].id /\ log[i].busy
  BY DEF IInv, ItemsOwned
<1>3. i \in Positions
  BY <1>1, <1>2, LogItems DEF Positions
<1>4. Mine(t) \in Positions /\ log[Mine(t)].id = th[t].id
  BY <1>2, <1>3 DEF Mine
<1>5. Mine(t) = i
  <2>1. \A a, b \in Positions : log[a].id = log[b].id => a = b
    BY DEF IInv, ItemsOwned
  <2>2. QED
    BY <1>2, <1>3, <1>4, <2>1
<1>6. QED
  BY <1>1, <1>2, <1>3, <1>4, <1>5, LogItems DEF IInv, ItemsOwned

\* There is always an id that no item in the log has.
LEMMA FreshIdIsFresh ==
    ASSUME TypeOK
    PROVE  FreshId \in Nat /\ \A i \in Positions : log[i].id # FreshId
<1> DEFINE f == [i \in Positions |-> log[i].id]
           used == {log[i].id : i \in Positions}
           candidates == 1 .. Len(log) + 1
<1>1. Len(log) \in Nat
  BY LogItems
<1>2. f \in Surjection(Positions, used)
  BY DEF Surjection
<1>3. IsFiniteSet(Positions) /\ Cardinality(Positions) = Len(log)
  <2>1. 1 \in Int /\ Len(log) \in Int /\ Len(log) - 1 + 1 = Len(log)
    BY <1>1
  <2>2. /\ IsFiniteSet(1 .. Len(log))
        /\ Cardinality(1 .. Len(log)) =
              IF 1 > Len(log) THEN 0 ELSE Len(log) - 1 + 1
    BY <2>1, FS_Interval
  <2>3. Cardinality(1 .. Len(log)) = Len(log)
    BY <1>1, <2>1, <2>2
  <2>4. QED
    BY <2>2, <2>3 DEF Positions
<1>4. IsFiniteSet(used) /\ Cardinality(used) <= Len(log)
  BY <1>2, <1>3, FS_Surjection
<1>5. Cardinality(candidates) = Len(log) + 1 /\ IsFiniteSet(candidates)
  BY <1>1, FS_Interval
<1>6. Cardinality(used) \in Nat
  BY <1>4, FS_CardinalityType
<1>7. ~(candidates \subseteq used)
  <2>1. SUFFICES ASSUME candidates \in SUBSET used PROVE FALSE
    OBVIOUS
  <2>2. Cardinality(candidates) <= Cardinality(used)
    BY <1>4, <2>1, FS_Subset
  <2>3. QED
    BY <1>1, <1>4, <1>5, <1>6, <2>2
<1>8. \E n \in candidates : \A i \in Positions : log[i].id # n
  BY <1>7
<1>9. FreshId \in candidates /\ \A i \in Positions : log[i].id # FreshId
  BY <1>8 DEF FreshId
<1>10. QED
  BY <1>1, <1>9

\* At most one item of a key is found, and it is live.
LEMMA FoundIsOne ==
    ASSUME TypeOK, NEW k \in Keys
    PROVE  /\ Found(k) \subseteq Positions
           /\ \A i \in Found(k) : log[i].live
           /\ \A i, j \in Found(k) : i = j
BY LogItems DEF Found, Positions

\* A set of numbers has a least one.
LEMMA LeastNumber ==
    ASSUME NEW S \in SUBSET Nat, S # {}
    PROVE  \E m \in S : \A j \in S : m <= j
<1> DEFINE R == StrictSubsetOrdering(Nat)
           T == {0 .. m : m \in S}
<1>1. IsWellFoundedOn(R, FiniteSubsetsOf(Nat))
  BY FS_StrictSubsetOrderingWellFounded
<1>2. T \subseteq FiniteSubsetsOf(Nat) /\ T # {}
  <2>1. \A m \in S : IsFiniteSet(0 .. m)
    BY FS_Interval
  <2>2. \A m \in S : 0 .. m \in SUBSET Nat
    OBVIOUS
  <2>3. \A m \in S : 0 .. m \in FiniteSubsetsOf(Nat)
    BY <2>1, <2>2 DEF FiniteSubsetsOf
  <2>4. QED
    BY <2>3
<1>3. PICK X \in T : \A Y \in T : ~ (<<Y, X>> \in R)
  BY <1>1, <1>2, WFMin
<1>4. PICK m \in S : X = 0 .. m
  BY <1>3
<1>5. ASSUME NEW j \in S, j < m PROVE FALSE
  <2>1. (0 .. j) \subseteq (0 .. m) /\ m \in 0 .. m /\ m \notin 0 .. j
    BY <1>5
  <2>2. <<0 .. j, X>> \in R
    BY <1>4, <2>1 DEF StrictSubsetOrdering
  <2>3. QED
    BY <1>3, <2>2
<1>6. QED
  BY <1>5

\* Setting the cache keeps its type.
LEMMA CacheSetTyped ==
    ASSUME cache \in [Keys -> Seq(Cached)],
           NEW k \in Keys, NEW ver \in Nat, NEW val \in Nat,
           CacheSet(k, ver, val)
    PROVE  cache' \in [Keys -> Seq(Cached)]
<1> DEFINE new == [ver |-> ver, val |-> val, stuck |-> FALSE]
           i == First(Usable(k))
           stuck == [cache[k] EXCEPT ![i].stuck = TRUE]
<1>1. new \in Cached
  BY DEF Cached
<1>2. cache[k] \in Seq(Cached)
  OBVIOUS
<1>3. <<new>> \o cache[k] \in Seq(Cached)
  BY <1>1, <1>2
<1>4. ASSUME Usable(k) # {} PROVE i \in 1 .. Len(cache[k])
  <2>1. Usable(k) \in SUBSET Nat
    BY <1>2, LenProperties DEF Usable
  <2>2. \E m \in Usable(k) : \A j \in Usable(k) : m <= j
    BY <1>4, <2>1, LeastNumber
  <2>3. i \in Usable(k)
    BY <2>2 DEF First
  <2>4. QED
    BY <2>3 DEF Usable
<1>5. ASSUME Usable(k) # {} PROVE [cache[k] EXCEPT ![i] = new] \in Seq(Cached)
  BY <1>1, <1>2, <1>4, <1>5, ExceptSeq
<1>6. ASSUME Usable(k) # {} PROVE stuck \in Seq(Cached)
  <2>1. cache[k][i] \in Cached
    BY <1>2, <1>4, <1>6, ElementOfSeq
  <2>2. [cache[k][i] EXCEPT !.stuck = TRUE] \in Cached
    BY <2>1 DEF Cached
  <2>3. QED
    BY <1>2, <1>4, <1>6, <2>2, ExceptSeq
<1>7. cache' = [cache EXCEPT ![k] =
          IF Usable(k) = {} THEN <<new>> \o cache[k]
          ELSE IF cache[k][i].ver > ver THEN stuck
          ELSE [cache[k] EXCEPT ![i] = new]]
  BY DEF CacheSet
<1>8. CASE Usable(k) = {}
  BY <1>3, <1>7, <1>8
<1>9. CASE Usable(k) # {}
  BY <1>5, <1>6, <1>7, <1>9
<1>10. QED
  BY <1>8, <1>9

\* The history of the cache keeps its types.
LEMMA NoteCachedTyped ==
    ASSUME cachedMost \in [Keys -> Nat \cup {NoVersion}], harm \subseteq Harms,
           NEW k \in Keys, NEW ver \in Nat, NoteCached(k, ver)
    PROVE  /\ cachedMost' \in [Keys -> Nat \cup {NoVersion}]
           /\ harm' \subseteq Harms
BY DEF NoteCached, Harms

\* A log after items have left it at the head.
LEMMA LogAfterLeave ==
    ASSUME TypeOK, NEW n \in 0 .. Len(log), log' = SubSeq(log, n + 1, Len(log))
    PROVE  /\ log' \in Seq(Item) /\ Len(log') = Len(log) - n
           /\ \A i \in 1 .. Len(log) - n : i + n \in Positions /\ log'[i] = log[i + n]
<1>1. Len(log) \in Nat /\ \A i \in 1 .. Len(log) : log[i] \in Item
  BY LogItems DEF Positions
<1>2. /\ log' \in Seq(Item)
      /\ Len(log') = IF n + 1 <= Len(log) THEN Len(log) - (n + 1) + 1 ELSE 0
      /\ \A i \in 1 .. Len(log) - (n + 1) + 1 : log'[i] = log[n + 1 + i - 1]
  BY <1>1, SubSeqProperties
<1>3. QED
  BY <1>1, <1>2 DEF Positions

-----------------------------------------------------------------------------
(* Types. *)

LEMMA StartTyped ==
    ASSUME NEW t \in Threads
    PROVE  Start(t) \in Thread
BY DEF Start, Thread, Labels, NoVersion, NoValue

\* A thread's record with some of its fields set.
LEMMA ThreadTyped ==
    ASSUME NEW r \in Thread, NEW label \in Labels,
           NEW then \in {"idle", "claim", "append", "reply"},
           NEW val \in Nat, NEW ver \in Nat \cup {NoVersion}
    PROVE  /\ [r EXCEPT !.pc = label] \in Thread
           /\ [r EXCEPT !.pc = label, !.then = then] \in Thread
           /\ [r EXCEPT !.pc = label, !.val = val] \in Thread
           /\ [r EXCEPT !.pc = label, !.then = then, !.val = val] \in Thread
           /\ [r EXCEPT !.pc = label, !.val = val, !.ver = ver] \in Thread
<1>1. [r EXCEPT !.pc = label] \in Thread
  BY DEF Thread
<1>2. [r EXCEPT !.pc = label, !.then = then] \in Thread
  BY DEF Thread
<1>3. [r EXCEPT !.pc = label, !.val = val] \in Thread
  BY DEF Thread
<1>4. [r EXCEPT !.pc = label, !.then = then, !.val = val] \in Thread
  BY DEF Thread
<1>5. [r EXCEPT !.pc = label, !.val = val, !.ver = ver] \in Thread
  BY DEF Thread
<1>6. QED
  BY <1>1, <1>2, <1>3, <1>4, <1>5

\* A step of one thread keeps the type of all.
LEMMA StepTyped ==
    ASSUME th \in [Threads -> Thread], NEW t \in Threads, NEW r \in Thread,
           th' = [th EXCEPT ![t] = r]
    PROVE  th' \in [Threads -> Thread]
OBVIOUS

LEMMA TypesKept ==
    ASSUME IInv, Next
    PROVE  TypeOK'
<1> USE DEF IInv
<1>0. TypeOK /\ Len(log) \in Nat /\ \A i \in Positions : log[i] \in Item
  BY LogItems
<1>th. th \in [Threads -> Thread]
  BY DEF TypeOK
<1>1. ASSUME NEW w \in Workers, NEW m \in Messages, Drop(w, m) PROVE TypeOK'
  BY <1>1 DEF TypeOK, Drop
<1>2. ASSUME NEW w \in Workers, NEW m \in Messages, Request(w, m) PROVE TypeOK'
  <2>1. w \in Threads /\ m.key \in Keys /\ m.op \in {"get", "set"}
    BY <1>2, WorkersAreThreads, MessagesAssumption DEF Request, Dropped
  <2>2. newest[m.key] \in Nat
    BY <2>1 DEF TypeOK
  <2> DEFINE label == IF m.op = "get" THEN "find" ELSE "supersede"
             r == [Start(w) EXCEPT !.pc = label, !.op = m.op, !.key = m.key,
                                   !.promised = newest[m.key]]
  <2>3. r \in Thread
    <3>1. label \in Labels
      BY DEF Labels
    <3>2. Start(w) \in Thread
      BY <2>1, StartTyped
    <3>3. QED
      BY <2>1, <2>2, <3>1, <3>2 DEF Thread
  <2>4. th' \in [Threads -> Thread]
    <3>1. th' = [th EXCEPT ![w] = r]
      BY <1>2 DEF Request
    <3>2. QED
      BY <1>th, <2>1, <2>3, <3>1, StepTyped
  <2>5. QED
    BY <1>2, <2>4 DEF Request, TypeOK
<1>3. ASSUME NEW w \in Workers, ServeSet(w) PROVE TypeOK'
  <2> w \in Threads
    BY WorkersAreThreads
  <2>1. CASE Supersede(w)
    <3>1. \A i \in Positions : [log[i] EXCEPT !.live = FALSE] \in Item
      BY <1>0 DEF Item
    <3>2. log' \in Seq(Item) /\ Len(log') = Len(log)
      BY <1>0, <2>1, <3>1 DEF Supersede, Positions
    <3>3. th' \in [Threads -> Thread]
      <4> DEFINE label == IF Found(th[w].key) = {} THEN "append" ELSE "invalidate"
      <4>1. th[w] \in Thread /\ label \in Labels
        BY <1>th DEF Labels
      <4>2. [th[w] EXCEPT !.pc = label, !.then = "append"] \in Thread
        BY <4>1, ThreadTyped
      <4>3. th' = [th EXCEPT ![w] = [th[w] EXCEPT !.pc = label, !.then = "append"]]
        BY <2>1 DEF Supersede
      <4>4. QED
        BY <1>th, <4>2, <4>3, StepTyped
    <3>4. QED
      BY <2>1, <3>2, <3>3 DEF Supersede, TypeOK, history
  <2>2. CASE AppendItem(w)
    <3>1. th[w].key \in Keys /\ newest[th[w].key] \in Nat
      BY <2>2 DEF AppendItem, At, FieldsFit, TypeOK
    <3> DEFINE new == [id |-> FreshId, key |-> th[w].key,
                       val |-> newest[th[w].key] + 1, live |-> TRUE,
                       busy |-> FALSE]
    <3>2. new \in Item
      BY <3>1, FreshIdIsFresh DEF Item
    <3>3. log' = Append(log, new)
      BY <2>2 DEF AppendItem
    <3>4. log' \in Seq(Item) /\ Len(log') = Len(log) + 1
      BY <3>2, <3>3, AppendProperties DEF TypeOK
    <3>5. th' \in [Threads -> Thread]
      <4>1. Start(w) \in Thread
        BY StartTyped
      <4>2. th' = [th EXCEPT ![w] = Start(w)]
        BY <2>2 DEF AppendItem
      <4>3. QED
        BY <1>th, <4>1, <4>2, StepTyped
    <3>6. newest' \in [Keys -> Nat] /\ harm' \subseteq Harms
      BY <2>2, <3>1 DEF AppendItem, TypeOK, Harms
    <3>7. QED
      BY <1>0, <2>2, <3>4, <3>5, <3>6 DEF AppendItem, TypeOK
  <2>3. CASE NoRoom(w)
    <3>1. th' \in [Threads -> Thread]
      <4> DEFINE r == [th[w] EXCEPT !.pc = "claim", !.then = "append"]
      <4>1. th[w] \in Thread /\ "claim" \in Labels
        BY <1>th DEF Labels
      <4>2. r \in Thread
        BY <4>1, ThreadTyped
      <4>3. th' = [th EXCEPT ![w] = r]
        BY <2>3 DEF NoRoom
      <4>4. QED
        BY <1>th, <4>2, <4>3, StepTyped
    <3>2. QED
      BY <2>3, <3>1 DEF NoRoom, TypeOK, history
  <2>4. QED
    BY <1>3, <2>1, <2>2, <2>3 DEF ServeSet
<1>4. ASSUME NEW w \in Workers, ServeGet(w) PROVE TypeOK'
  <2> w \in Threads
    BY WorkersAreThreads
  <2>1. CASE GetLog(w)
    <3>1. th[w].key \in Keys
      BY <2>1 DEF GetLog, At, FieldsFit
    <3>2. ASSUME Found(th[w].key) # {} PROVE log[First(Found(th[w].key))].val \in Nat
      <4>1. First(Found(th[w].key)) \in Positions
        BY <1>0, <3>1, <3>2, FoundIsOne DEF First, Positions
      <4>2. QED
        BY <1>0, <4>1 DEF Item
    <3>3. th' \in [Threads -> Thread]
      <4> DEFINE val == log[First(Found(th[w].key))].val
      <4>1. th[w] \in Thread /\ {"cached", "invalidate"} \subseteq Labels
        BY <1>th DEF Labels
      <4>2. CASE Found(th[w].key) = {}
        <5>1. th' = [th EXCEPT ![w] = [th[w] EXCEPT !.pc = "cached"]]
          BY <2>1, <4>2 DEF GetLog
        <5>2. [th[w] EXCEPT !.pc = "cached"] \in Thread
          BY <4>1, ThreadTyped
        <5>3. QED
          BY <1>th, <5>1, <5>2, StepTyped
      <4>3. CASE Found(th[w].key) # {}
        <5> DEFINE r == [th[w] EXCEPT !.pc = "invalidate", !.then = "reply",
                                      !.val = val]
        <5>1. th' = [th EXCEPT ![w] = r]
          BY <2>1, <4>3 DEF GetLog
        <5>2. r \in Thread
          BY <3>2, <4>1, <4>3, ThreadTyped
        <5>3. QED
          BY <1>th, <5>1, <5>2, StepTyped
      <4>4. QED
        BY <4>2, <4>3
    <3>4. QED
      BY <2>1, <3>3 DEF GetLog, TypeOK, Harms
  <2>2. CASE GetCached(w)
    <3>1. th[w].key \in Keys
      BY <2>2 DEF GetCached, At, FieldsFit
    <3> DEFINE k == th[w].key
    <3>2. ASSUME Usable(k) # {} PROVE cache[k][First(Usable(k))].val \in Nat
      <4>1. cache[k] \in Seq(Cached)
        BY <3>1 DEF TypeOK
      <4>2. Usable(k) \in SUBSET Nat /\ Usable(k) \subseteq 1 .. Len(cache[k])
        BY <4>1, LenProperties DEF Usable
      <4>3. First(Usable(k)) \in 1 .. Len(cache[k])
        BY <3>2, <4>2, LeastNumber DEF First
      <4>4. cache[k][First(Usable(k))] \in Cached
        BY <4>1, <4>3, ElementOfSeq
      <4>5. QED
        BY <4>4 DEF Cached
    <3>3. th' \in [Threads -> Thread]
      <4>1. th[w] \in Thread /\ {"read", "reply"} \subseteq Labels
        BY <1>th DEF Labels
      <4>2. CASE Usable(k) = {}
        <5>1. th' = [th EXCEPT ![w] = [th[w] EXCEPT !.pc = "read"]]
          BY <2>2, <4>2 DEF GetCached
        <5>2. [th[w] EXCEPT !.pc = "read"] \in Thread
          BY <4>1, ThreadTyped
        <5>3. QED
          BY <1>th, <5>1, <5>2, StepTyped
      <4>3. CASE Usable(k) # {}
        <5> DEFINE r == [th[w] EXCEPT !.pc = "reply",
                                      !.val = cache[k][First(Usable(k))].val]
        <5>1. th' = [th EXCEPT ![w] = r]
          BY <2>2, <4>3 DEF GetCached
        <5>2. r \in Thread
          BY <3>2, <4>1, <4>3, ThreadTyped
        <5>3. QED
          BY <1>th, <5>1, <5>2, StepTyped
      <4>4. QED
        BY <4>2, <4>3
    <3>4. QED
      BY <2>2, <3>3 DEF GetCached, TypeOK, history
  <2>3. CASE GetStored(w)
    <3>1. th[w].key \in Keys
      BY <2>3 DEF GetStored, At, FieldsFit
    <3> DEFINE k == th[w].key
    <3>2. ASSUME ssd[k] # << >> PROVE ssd[k][Len(ssd[k])] \in Nat /\ Version(k) \in Nat
      <4>1. ssd[k] \in Seq(Nat)
        BY <3>1 DEF TypeOK
      <4>2. Len(ssd[k]) \in Nat \ {0}
        BY <3>2, <4>1, EmptySeq
      <4>3. ssd[k][Len(ssd[k])] \in Nat
        BY <4>1, <4>2, ElementOfSeq
      <4>4. QED
        BY <4>2, <4>3 DEF Version
    <3>3. th' \in [Threads -> Thread]
      <4>1. th[w] \in Thread /\ {"reply", "fill"} \subseteq Labels
        BY <1>th DEF Labels
      <4>2. CASE ssd[k] = << >>
        <5>1. th' = [th EXCEPT ![w] = [th[w] EXCEPT !.pc = "reply"]]
          BY <2>3, <4>2 DEF GetStored
        <5>2. [th[w] EXCEPT !.pc = "reply"] \in Thread
          BY <4>1, ThreadTyped
        <5>3. QED
          BY <1>th, <5>1, <5>2, StepTyped
      <4>3. CASE ssd[k] # << >>
        <5> DEFINE r == [th[w] EXCEPT !.pc = "fill", !.val = ssd[k][Len(ssd[k])],
                                      !.ver = Version(k)]
        <5>1. th' = [th EXCEPT ![w] = r]
          BY <2>3, <4>3 DEF GetStored
        <5>2. r \in Thread
          BY <3>2, <4>1, <4>3, ThreadTyped
        <5>3. QED
          BY <1>th, <5>1, <5>2, StepTyped
      <4>4. QED
        BY <4>2, <4>3
    <3>4. QED
      BY <2>3, <3>3 DEF GetStored, TypeOK, history
  <2>4. CASE Fill(w)
    <3>1. th[w].key \in Keys /\ th[w].ver \in Nat /\ th[w].val \in Nat
      BY <2>4 DEF Fill, At, FieldsFit, TypeOK, Thread, Labels
    <3>2. cache' \in [Keys -> Seq(Cached)]
      BY <2>4, <3>1, CacheSetTyped DEF Fill, TypeOK
    <3>3. cachedMost' \in [Keys -> Nat \cup {NoVersion}] /\ harm' \subseteq Harms
      BY <2>4, <3>1, NoteCachedTyped DEF Fill, TypeOK
    <3>4. th' \in [Threads -> Thread]
      <4>1. th[w] \in Thread /\ "reply" \in Labels
        BY <1>th DEF Labels
      <4>2. [th[w] EXCEPT !.pc = "reply"] \in Thread
        BY <4>1, ThreadTyped
      <4>3. th' = [th EXCEPT ![w] = [th[w] EXCEPT !.pc = "reply"]]
        BY <2>4 DEF Fill, Goto
      <4>4. QED
        BY <1>th, <4>2, <4>3, StepTyped
    <3>5. QED
      BY <2>4, <3>2, <3>3, <3>4 DEF Fill, TypeOK
  <2>5. CASE Reply(w)
    <3>1. Start(w) \in Thread
      BY StartTyped
    <3>2. th' = [th EXCEPT ![w] = Start(w)]
      BY <2>5 DEF Reply
    <3>3. th' \in [Threads -> Thread]
      BY <1>th, <3>1, <3>2, StepTyped
    <3>4. QED
      BY <2>5, <3>3 DEF Reply, TypeOK, history
  <2>6. QED
    BY <1>4, <2>1, <2>2, <2>3, <2>4, <2>5 DEF ServeGet
<1>5. ASSUME NEW t \in Threads, WriteOut(t) PROVE TypeOK'
  <2>1. CASE Claim(t)
    <3>1. next + 1 \in Positions /\ next' = next + 1
      BY <1>0, <2>1, LogItems DEF Claim, Positions
    <3>2. [log[next + 1] EXCEPT !.busy = TRUE] \in Item /\ log[next + 1].id \in Nat
      BY <1>0, <3>1 DEF Item
    <3>3. log' \in Seq(Item) /\ Len(log') = Len(log)
      BY <2>1, <3>1, <3>2, ExceptSeq DEF Claim, TypeOK, Positions
    <3> DEFINE r == [th[t] EXCEPT !.pc = "store", !.id = log[next + 1].id]
    <3>4. th' \in [Threads -> Thread]
      <4>1. th[t] \in Thread
        BY <1>th
      <4>2. r \in Thread
        BY <3>2, <4>1 DEF Thread, Labels
      <4>3. th' = [th EXCEPT ![t] = r]
        BY <2>1 DEF Claim
      <4>4. QED
        BY <1>th, <4>2, <4>3, StepTyped
    <3>5. next' \in 0 .. Len(log)
      BY <1>0, <3>1, LogItems DEF Positions
    <3>6. QED
      BY <2>1, <3>3, <3>4, <3>5 DEF Claim, TypeOK, history
  <2>2. CASE ClaimNothing(t)
    <3>1. th' \in [Threads -> Thread]
      <4>1. th[t] \in Thread /\ "invalidate" \in Labels
        BY <1>th DEF Labels
      <4>2. [th[t] EXCEPT !.pc = "invalidate"] \in Thread
        BY <4>1, ThreadTyped
      <4>3. th' = [th EXCEPT ![t] = [th[t] EXCEPT !.pc = "invalidate"]]
        BY <2>2 DEF ClaimNothing, Goto
      <4>4. QED
        BY <1>th, <4>2, <4>3, StepTyped
    <3>2. QED
      BY <2>2, <3>1 DEF ClaimNothing, TypeOK, history
  <2>3. CASE Store(t)
    <3> DEFINE k == log[Mine(t)].key
               v == log[Mine(t)].val
    <3>1. Writing(t)
      BY <2>3 DEF Store, At, Writing
    <3>2. k \in Keys /\ v \in Nat
      BY <3>1, MineIsMine DEF Item
    <3>3. ssd[k] \in Seq(Nat)
      BY <3>2 DEF TypeOK
    <3>4. Append(ssd[k], v) \in Seq(Nat) /\ Len(ssd[k]) \in Nat
      BY <3>2, <3>3, AppendProperties, LenProperties
    <3>5. ssd' \in [Keys -> Seq(Nat)]
      BY <2>3, <3>2, <3>4 DEF Store, TypeOK
    <3>6. Version(k) + 1 \in Nat
      BY <3>4 DEF Version
    <3> DEFINE r == [th[t] EXCEPT !.pc = "cache", !.val = v, !.ver = Version(k) + 1]
    <3>7. th' \in [Threads -> Thread]
      <4>1. th[t] \in Thread /\ "cache" \in Labels
        BY <1>th DEF Labels
      <4>2. r \in Thread
        BY <3>2, <3>6, <4>1, ThreadTyped
      <4>3. th' = [th EXCEPT ![t] = r]
        BY <2>3 DEF Store
      <4>4. QED
        BY <1>th, <4>2, <4>3, StepTyped
    <3>8. QED
      BY <2>3, <3>5, <3>7 DEF Store, TypeOK, Harms
  <2>4. CASE CacheStored(t)
    <3> DEFINE k == log[Mine(t)].key
    <3>1. Writing(t) /\ th[t].ver \in Nat /\ th[t].val \in Nat
      BY <2>4 DEF CacheStored, At, Writing, FieldsFit, TypeOK, Thread, Labels
    <3>2. k \in Keys
      BY <3>1, MineIsMine DEF Item
    <3>3. cache' \in [Keys -> Seq(Cached)]
      BY <2>4, <3>1, <3>2, CacheSetTyped DEF CacheStored, TypeOK
    <3>4. cachedMost' \in [Keys -> Nat \cup {NoVersion}] /\ harm' \subseteq Harms
      BY <2>4, <3>1, <3>2, NoteCachedTyped DEF CacheStored, TypeOK
    <3>5. th' \in [Threads -> Thread]
      <4> DEFINE r == [th[t] EXCEPT !.pc = "consume", !.val = NoValue,
                                    !.ver = NoVersion]
      <4>1. /\ th[t] \in Thread /\ "consume" \in Labels
            /\ NoValue \in Nat /\ NoVersion \in Nat \cup {NoVersion}
        BY <1>th DEF Labels, NoValue
      <4>2. r \in Thread
        BY <4>1, ThreadTyped
      <4>3. th' = [th EXCEPT ![t] = r]
        BY <2>4 DEF CacheStored
      <4>4. QED
        BY <1>th, <4>2, <4>3, StepTyped
    <3>6. QED
      BY <2>4, <3>3, <3>4, <3>5 DEF CacheStored, TypeOK
  <2>5. CASE Consume(t)
    <3>1. Writing(t)
      BY <2>5 DEF Consume, At, Writing
    <3> DEFINE i == Mine(t)
               x == [log[i] EXCEPT !.live = FALSE, !.busy = FALSE]
    <3>2. i \in 1 .. Len(log) /\ x \in Item
      <4>1. i \in Positions /\ log[i] \in Item
        BY <3>1, MineIsMine
      <4>2. QED
        BY <4>1 DEF Item, Positions
    <3>3. log' = [log EXCEPT ![i] = x]
      BY <2>5 DEF Consume
    <3>4. log' \in Seq(Item) /\ Len(log') = Len(log)
      BY <3>2, <3>3, ExceptSeq DEF TypeOK
    <3>5. th' \in [Threads -> Thread]
      <4> DEFINE r == [th[t] EXCEPT !.pc = "invalidate", !.id = 0]
      <4>1. th[t] \in Thread /\ "invalidate" \in Labels
        BY <1>th DEF Labels
      <4>2. r \in Thread
        BY <4>1 DEF Thread
      <4>3. th' = [th EXCEPT ![t] = r]
        BY <2>5 DEF Consume
      <4>4. QED
        BY <1>th, <4>2, <4>3, StepTyped
    <3>6. QED
      BY <2>5, <3>4, <3>5 DEF Consume, TypeOK, history
  <2>6. CASE Invalidate(t)
    <3>1. PICK n \in 0 .. Len(log) : log' = SubSeq(log, n + 1, Len(log))
                                      /\ next' = NextAfter(n)
      BY <2>6 DEF Invalidate
    <3>2. log' \in Seq(Item) /\ Len(log') = Len(log) - n
      BY <3>1, LogAfterLeave
    <3>3. next' \in 0 .. Len(log')
      BY <1>0, <3>1, <3>2, LogItems DEF NextAfter
    <3>4. th' \in [Threads -> Thread]
      <4>1. th[t] \in Thread /\ th[t].then \in Labels
        BY <1>th DEF Thread, Labels
      <4>2. [th[t] EXCEPT !.pc = th[t].then] \in Thread
        BY <4>1, ThreadTyped
      <4>3. th' = [th EXCEPT ![t] = [th[t] EXCEPT !.pc = th[t].then]]
        BY <2>6 DEF Invalidate, Goto
      <4>4. QED
        BY <1>th, <4>2, <4>3, StepTyped
    <3>5. QED
      BY <2>6, <3>2, <3>3, <3>4 DEF Invalidate, TypeOK, history
  <2>7. QED
    BY <1>5, <2>1, <2>2, <2>3, <2>4, <2>5, <2>6 DEF WriteOut
<1>6. ASSUME NEW k \in Keys, Evict(k) PROVE TypeOK'
  <2>1. cache[k] \in Seq(Cached)
    BY DEF TypeOK
  <2>2. PICK i \in Usable(k) :
           cache' = [cache EXCEPT ![k] = SubSeq(cache[k], 1, i - 1)
                                   \o SubSeq(cache[k], i + 1, Len(cache[k]))]
    BY <1>6 DEF Evict
  <2>3. i \in 1 .. Len(cache[k]) /\ Len(cache[k]) \in Nat
        /\ \A j \in 1 .. Len(cache[k]) : cache[k][j] \in Cached
    BY <2>1, <2>2, LenProperties DEF Usable
  <2>4. SubSeq(cache[k], 1, i - 1) \in Seq(Cached)
    BY <2>3, SubSeqProperties
  <2>5. SubSeq(cache[k], i + 1, Len(cache[k])) \in Seq(Cached)
    BY <2>3, SubSeqProperties
  <2>6. cache' \in [Keys -> Seq(Cached)]
    BY <2>2, <2>4, <2>5, ConcatProperties DEF TypeOK
  <2>7. QED
    BY <1>6, <2>6 DEF Evict, TypeOK, history
<1>7. QED
  BY <1>1, <1>2, <1>3, <1>4, <1>5, <1>6 DEF Next

-----------------------------------------------------------------------------
(* The request and version of each thread. *)

\* A step of t leaves the other threads where they are.
LEMMA FieldsKept ==
    ASSUME IInv, Next
    PROVE  FieldsFit'
<1> USE DEF IInv
<1>0. FieldsFit /\ th \in [Threads -> Thread]
  BY DEF TypeOK
<1>1. ASSUME NEW w \in Workers, NEW m \in Messages, Drop(w, m) PROVE FieldsFit'
  BY <1>1 DEF FieldsFit, Drop
<1>2. ASSUME NEW w \in Workers, NEW m \in Messages, Request(w, m) PROVE FieldsFit'
  <2>1. w \in Threads /\ m.key \in Keys
    BY WorkersAreThreads, MessagesAssumption
  <2>2. Start(w).then \in {"idle", "claim"}
    BY DEF Start
  <2>3. /\ th'[w].key = m.key /\ th'[w].pc \in {"find", "supersede"}
        /\ th'[w].then \in {"idle", "claim"}
    BY <1>0, <1>2, <2>1, <2>2 DEF Request, Start
  <2>4. \A u \in Threads \ {w} : th'[u] = th[u]
    BY <1>0, <1>2 DEF Request
  <2>5. QED
    BY <1>0, <2>1, <2>3, <2>4 DEF FieldsFit
<1>3. ASSUME NEW w \in Workers, ServeSet(w) PROVE FieldsFit'
  <2> w \in Threads
    BY WorkersAreThreads
  <2>1. CASE Supersede(w)
    BY <1>0, <2>1 DEF Supersede, At, FieldsFit
  <2>2. CASE AppendItem(w)
    BY <1>0, <2>2 DEF AppendItem, Start, FieldsFit
  <2>3. CASE NoRoom(w)
    BY <1>0, <2>3 DEF NoRoom, At, FieldsFit
  <2>4. QED
    BY <1>3, <2>1, <2>2, <2>3 DEF ServeSet
<1>4. ASSUME NEW w \in Workers, ServeGet(w) PROVE FieldsFit'
  <2> w \in Threads
    BY WorkersAreThreads
  <2>1. CASE GetLog(w)
    BY <1>0, <2>1 DEF GetLog, At, FieldsFit
  <2>2. CASE GetCached(w)
    BY <1>0, <2>2 DEF GetCached, At, FieldsFit
  <2>3. CASE GetStored(w)
    <3>1. th[w].key \in Keys
      BY <2>3 DEF GetStored, At, FieldsFit
    <3>2. ssd[th[w].key] # << >> => Version(th[w].key) \in Nat
      <4>1. ssd[th[w].key] \in Seq(Nat)
        BY <3>1 DEF TypeOK
      <4>2. QED
        BY <4>1, EmptySeq DEF Version
    <3>3. CASE ssd[th[w].key] = << >>
      BY <1>0, <2>3, <3>3 DEF GetStored, At, FieldsFit
    <3>4. CASE ssd[th[w].key] # << >>
      <4>1. /\ th'[w].key = th[w].key /\ th'[w].pc = "fill"
            /\ th'[w].ver = Version(th[w].key)
        BY <1>0, <2>3, <3>4 DEF GetStored
      <4>2. \A u \in Threads \ {w} : th'[u] = th[u]
        BY <1>0, <2>3 DEF GetStored
      <4>3. QED
        BY <1>0, <3>1, <3>2, <3>4, <4>1, <4>2 DEF FieldsFit
    <3>5. QED
      BY <3>3, <3>4
  <2>4. CASE Fill(w)
    BY <1>0, <2>4 DEF Fill, Goto, At, FieldsFit
  <2>5. CASE Reply(w)
    BY <1>0, <2>5 DEF Reply, Start, FieldsFit
  <2>6. QED
    BY <1>4, <2>1, <2>2, <2>3, <2>4, <2>5 DEF ServeGet
<1>5. ASSUME NEW t \in Threads, WriteOut(t) PROVE FieldsFit'
  <2>1. CASE Claim(t)
    BY <1>0, <2>1 DEF Claim, At, FieldsFit
  <2>2. CASE ClaimNothing(t)
    BY <1>0, <2>2 DEF ClaimNothing, Goto, At, FieldsFit
  <2>3. CASE Store(t)
    <3> DEFINE k == log[Mine(t)].key
    <3>1. k \in Keys
      BY <2>3, MineIsMine DEF Store, At, Writing, Item
    <3>2. ssd[k] \in Seq(Nat)
      BY <3>1 DEF TypeOK
    <3>3. Version(k) + 1 \in Nat
      BY <3>2, LenProperties DEF Version
    <3>4. QED
      BY <1>0, <2>3, <3>3 DEF Store, At, FieldsFit
  <2>4. CASE CacheStored(t)
    BY <1>0, <2>4 DEF CacheStored, At, FieldsFit
  <2>5. CASE Consume(t)
    BY <1>0, <2>5 DEF Consume, At, FieldsFit
  <2>6. CASE Invalidate(t)
    <3>1. th[t].then \in {"idle", "claim", "append", "reply"}
      BY <1>0 DEF Thread
    <3>2. /\ th'[t].pc = th[t].then /\ th'[t].then = th[t].then
          /\ th'[t].key = th[t].key
      BY <1>0, <2>6 DEF Invalidate, Goto
    <3>3. \A u \in Threads \ {t} : th'[u] = th[u]
      BY <1>0, <2>6 DEF Invalidate, Goto
    <3>4. QED
      BY <1>0, <3>1, <3>2, <3>3 DEF FieldsFit
  <2>7. QED
    BY <1>5, <2>1, <2>2, <2>3, <2>4, <2>5, <2>6 DEF WriteOut
<1>6. ASSUME NEW k \in Keys, Evict(k) PROVE FieldsFit'
  BY <1>0, <1>6 DEF FieldsFit, Evict
<1>7. QED
  BY <1>1, <1>2, <1>3, <1>4, <1>5, <1>6 DEF Next

-----------------------------------------------------------------------------
(* The items of the threads. *)

\* Another step than these moves no item and no thread into or out of a
\* write-out.
LEMMA ItemsUnmoved ==
    ASSUME IInv, th' \in [Threads -> Thread], next' = next,
           Len(log') = Len(log), NEW w \in Threads,
           \A i \in Positions : log'[i].id = log[i].id /\ log'[i].busy = log[i].busy,
           \A u \in Threads \ {w} : th'[u] = th[u],
           Writing(w)' => Writing(w) /\ th'[w].id = th[w].id
    PROVE  ItemsOwned'
<1>1. Positions' = Positions /\ 1 .. next \subseteq Positions
  BY LogItems DEF IInv, Positions
<1>2. \A u \in Threads : Writing(u)' => Writing(u) /\ th'[u].id = th[u].id
  BY DEF Writing
<1>3. \A i, j \in Positions' : log'[i].id = log'[j].id => i = j
  BY <1>1 DEF IInv, ItemsOwned
<1>4. ASSUME NEW t \in Threads, Writing(t)'
      PROVE  \E i \in 1 .. next' : log'[i].id = th'[t].id /\ log'[i].busy
  <2>1. PICK i \in 1 .. next : log[i].id = th[t].id /\ log[i].busy
    BY <1>2, <1>4 DEF IInv, ItemsOwned
  <2>2. QED
    BY <1>1, <1>2, <1>4, <2>1
<1>5. ASSUME NEW t \in Threads, NEW u \in Threads, Writing(t)', Writing(u)',
             th'[t].id = th'[u].id
      PROVE  t = u
  BY <1>2, <1>5 DEF IInv, ItemsOwned
<1>6. QED
  BY <1>3, <1>4, <1>5 DEF ItemsOwned

LEMMA ItemsKept ==
    ASSUME IInv, Next, TypeOK'
    PROVE  ItemsOwned'
<1>0. /\ TypeOK /\ th \in [Threads -> Thread] /\ th' \in [Threads -> Thread]
      /\ Len(log) \in Nat /\ \A i \in Positions : log[i] \in Item
  BY LogItems DEF IInv, TypeOK
<1>1. ASSUME NEW w \in Workers, NEW m \in Messages, Drop(w, m) PROVE ItemsOwned'
  BY <1>0, <1>1, ItemsUnmoved, WorkersAreThreads DEF Drop, Writing
<1>2. ASSUME NEW w \in Workers, NEW m \in Messages, Request(w, m) PROVE ItemsOwned'
  <2>1. w \in Threads
    BY WorkersAreThreads
  <2>2. th'[w].pc \in {"find", "supersede"} /\ \A u \in Threads \ {w} : th'[u] = th[u]
    BY <1>0, <1>2, <2>1 DEF Request, Start
  <2>3. QED
    BY <1>0, <1>2, <2>1, <2>2, ItemsUnmoved DEF Request, Writing
<1>3. ASSUME NEW w \in Workers, ServeSet(w) PROVE ItemsOwned'
  <2> w \in Threads
    BY WorkersAreThreads
  <2>1. CASE Supersede(w)
    <3>1. \A i \in Positions : log'[i].id = log[i].id /\ log'[i].busy = log[i].busy
      <4>1. \A i \in Positions : /\ [log[i] EXCEPT !.live = FALSE].id = log[i].id
                                 /\ [log[i] EXCEPT !.live = FALSE].busy = log[i].busy
        BY <1>0 DEF Item
      <4>2. QED
        BY <2>1, <4>1 DEF Supersede
    <3>2. Len(log') = Len(log) /\ next' = next
      BY <1>0, <2>1 DEF Supersede, Positions, TypeOK
    <3>3. th'[w].pc \in {"append", "invalidate"}
      BY <1>0, <2>1 DEF Supersede
    <3>4. \A u \in Threads \ {w} : th'[u] = th[u]
      BY <1>0, <2>1 DEF Supersede
    <3>5. QED
      BY <1>0, <3>1, <3>2, <3>3, <3>4, ItemsUnmoved DEF Writing
  <2>2. CASE AppendItem(w)
    <3> DEFINE n == Len(log) + 1
    <3>1. /\ Len(log') = n /\ next' = next
          /\ log'[n].id = FreshId /\ \A i \in Positions : log'[i] = log[i]
      BY <1>0, <2>2, AppendProperties DEF AppendItem, Positions
    <3>2. Positions' = Positions \cup {n} /\ 1 .. next \subseteq Positions
      BY <1>0, <3>1, LogItems DEF Positions
    <3>3. \A i \in Positions : log[i].id # FreshId
      BY <1>0, FreshIdIsFresh
    <3>4. th'[w] = Start(w) /\ \A u \in Threads \ {w} : th'[u] = th[u]
      BY <1>0, <2>2 DEF AppendItem
    <3>5. \A u \in Threads : Writing(u)' => Writing(u) /\ th'[u].id = th[u].id
      BY <3>4 DEF Writing, Start
    <3>6. \A i, j \in Positions' : log'[i].id = log'[j].id => i = j
      BY <3>1, <3>2, <3>3 DEF IInv, ItemsOwned
    <3>7. ASSUME NEW t \in Threads, Writing(t)'
          PROVE  \E i \in 1 .. next' : log'[i].id = th'[t].id /\ log'[i].busy
      <4>1. PICK i \in 1 .. next : log[i].id = th[t].id /\ log[i].busy
        BY <3>5, <3>7 DEF IInv, ItemsOwned
      <4>2. QED
        BY <3>1, <3>2, <3>5, <3>7, <4>1
    <3>8. QED
      BY <3>5, <3>6, <3>7 DEF IInv, ItemsOwned
  <2>3. CASE NoRoom(w)
    <3>1. th'[w].pc = "claim" /\ \A u \in Threads \ {w} : th'[u] = th[u]
      BY <1>0, <2>3 DEF NoRoom
    <3>2. QED
      BY <1>0, <2>3, <3>1, ItemsUnmoved DEF NoRoom, Writing
  <2>4. QED
    BY <1>3, <2>1, <2>2, <2>3 DEF ServeSet
<1>4. ASSUME NEW w \in Workers, ServeGet(w) PROVE ItemsOwned'
  <2> w \in Threads
    BY WorkersAreThreads
  <2>1. log' = log /\ next' = next /\ \A u \in Threads \ {w} : th'[u] = th[u]
    BY <1>0, <1>4 DEF ServeGet, GetLog, GetCached, GetStored, Fill, Reply, Goto
  <2>2. th'[w].pc \notin {"store", "cache", "consume"}
    <3>1. CASE GetLog(w)
      BY <1>0, <3>1 DEF GetLog
    <3>2. CASE GetCached(w)
      BY <1>0, <3>2 DEF GetCached
    <3>3. CASE GetStored(w)
      BY <1>0, <3>3 DEF GetStored
    <3>4. CASE Fill(w)
      BY <1>0, <3>4 DEF Fill, Goto
    <3>5. CASE Reply(w)
      BY <1>0, <3>5 DEF Reply, Start
    <3>6. QED
      BY <1>4, <3>1, <3>2, <3>3, <3>4, <3>5 DEF ServeGet
  <2>3. QED
    BY <1>0, <2>1, <2>2, ItemsUnmoved DEF Writing
<1>5. ASSUME NEW t \in Threads, WriteOut(t) PROVE ItemsOwned'
  <2>1. CASE Claim(t)
    <3> DEFINE n == next + 1
    <3>1. n \in Positions /\ next' = n /\ next \in Nat
      BY <1>0, <2>1, LogItems DEF Claim, Positions
    <3>2. log' = [log EXCEPT ![n] = [log[n] EXCEPT !.busy = TRUE]]
      BY <2>1 DEF Claim
    <3>3. [log[n] EXCEPT !.busy = TRUE].id = log[n].id /\ [log[n] EXCEPT !.busy = TRUE].busy
      BY <1>0, <3>1 DEF Item
    <3>4. /\ Len(log') = Len(log) /\ log'[n].busy
          /\ \A i \in Positions : /\ log'[i].id = log[i].id
                                  /\ log[i].busy => log'[i].busy
      BY <1>0, <3>1, <3>2, <3>3, LogItems, ExceptSeq DEF TypeOK, Positions
    <3>5. /\ th'[t].id = log[n].id /\ ~Writing(t)
          /\ \A u \in Threads \ {t} : th'[u] = th[u]
      BY <1>0, <2>1 DEF Claim, At, Writing
    <3>6. Positions' = Positions /\ 1 .. next \subseteq Positions
      BY <1>0, <3>4, LogItems DEF Positions
    <3>7. \A i, j \in Positions : log[i].id = log[j].id => i = j
      BY DEF IInv, ItemsOwned
    <3>8. ASSUME NEW u \in Threads \ {t}, Writing(u)'
          PROVE  /\ th'[u].id # log[n].id
                 /\ \E i \in 1 .. n : log'[i].id = th'[u].id /\ log'[i].busy
      <4>1. Writing(u) /\ th'[u] = th[u]
        BY <3>5, <3>8 DEF Writing
      <4>2. PICK i \in 1 .. next : log[i].id = th[u].id /\ log[i].busy
        BY <4>1 DEF IInv, ItemsOwned
      <4>3. i \in Positions /\ i # n /\ i \in 1 .. n
        BY <3>1, <3>6, <4>2
      <4>4. QED
        BY <3>1, <3>4, <3>7, <4>1, <4>2, <4>3
    <3>9. \A u \in Threads : Writing(u)' =>
             \E i \in 1 .. next' : log'[i].id = th'[u].id /\ log'[i].busy
      <4>1. n \in 1 .. n /\ log'[n].id = log[n].id
        BY <3>1, <3>4
      <4>2. QED
        BY <3>1, <3>4, <3>5, <3>8, <4>1
    <3>10. ASSUME NEW u \in Threads, NEW v \in Threads, Writing(u)', Writing(v)',
                  th'[u].id = th'[v].id
           PROVE  u = v
      <4>1. CASE u = t \/ v = t
        BY <3>5, <3>8, <3>10, <4>1
      <4>2. CASE u # t /\ v # t
        BY <3>5, <3>10, <4>2 DEF IInv, ItemsOwned, Writing
      <4>3. QED
        BY <4>1, <4>2
    <3>11. QED
      BY <3>4, <3>6, <3>7, <3>9, <3>10 DEF ItemsOwned
  <2>2. CASE ClaimNothing(t)
    <3>1. th'[t].pc = "invalidate" /\ \A u \in Threads \ {t} : th'[u] = th[u]
      BY <1>0, <2>2 DEF ClaimNothing, Goto
    <3>2. QED
      BY <1>0, <2>2, <3>1, ItemsUnmoved DEF ClaimNothing, Writing
  <2>3. CASE Store(t)
    <3>1. /\ Writing(t) /\ th'[t].id = th[t].id
          /\ \A u \in Threads \ {t} : th'[u] = th[u]
      BY <1>0, <2>3 DEF Store, At, Writing
    <3>2. QED
      BY <1>0, <2>3, <3>1, ItemsUnmoved DEF Store
  <2>4. CASE CacheStored(t)
    <3>1. /\ Writing(t) /\ th'[t].id = th[t].id
          /\ \A u \in Threads \ {t} : th'[u] = th[u]
      BY <1>0, <2>4 DEF CacheStored, At, Writing
    <3>2. QED
      BY <1>0, <2>4, <3>1, ItemsUnmoved DEF CacheStored
  <2>5. CASE Consume(t)
    <3> DEFINE m == Mine(t)
               x == [log[m] EXCEPT !.live = FALSE, !.busy = FALSE]
    <3>1. Writing(t)
      BY <2>5 DEF Consume, At, Writing
    <3>2. m \in Positions /\ log[m].id = th[t].id /\ log[m] \in Item
      BY <3>1, MineIsMine
    <3>3. log' = [log EXCEPT ![m] = x] /\ next' = next
      BY <2>5 DEF Consume
    <3>4. x.id = log[m].id
      BY <3>2 DEF Item
    <3>5. /\ Len(log') = Len(log)
          /\ \A i \in Positions : /\ log'[i].id = log[i].id
                                  /\ i # m => log'[i] = log[i]
      BY <1>0, <3>2, <3>3, <3>4, LogItems DEF TypeOK, Positions
    <3>6. ~Writing(t)' /\ \A u \in Threads \ {t} : th'[u] = th[u]
      BY <1>0, <2>5 DEF Consume, Writing
    <3>7. Positions' = Positions /\ 1 .. next \subseteq Positions
      BY <1>0, <3>5, LogItems DEF Positions
    <3>8. \A i, j \in Positions : log[i].id = log[j].id => i = j
      BY DEF IInv, ItemsOwned
    <3>9. ASSUME NEW u \in Threads, Writing(u)'
          PROVE  /\ u # t /\ Writing(u) /\ th'[u] = th[u]
                 /\ \E i \in 1 .. next' : log'[i].id = th'[u].id /\ log'[i].busy
      <4>1. u # t /\ Writing(u) /\ th'[u] = th[u]
        BY <3>6, <3>9 DEF Writing
      <4>2. PICK i \in 1 .. next : log[i].id = th[u].id /\ log[i].busy
        BY <4>1 DEF IInv, ItemsOwned
      <4>3. i # m
        BY <3>1, <3>2, <4>1, <4>2 DEF IInv, ItemsOwned
      <4>4. log'[i] = log[i]
        BY <3>5, <3>7, <4>2, <4>3
      <4>5. QED
        BY <3>3, <4>1, <4>2, <4>4
    <3>10. QED
      BY <3>5, <3>7, <3>8, <3>9 DEF IInv, ItemsOwned
  <2>6. CASE Invalidate(t)
    <3>1. PICK n \in 0 .. Len(log) :
             /\ \A i \in 1 .. n : Released(log[i])
             /\ log' = SubSeq(log, n + 1, Len(log))
             /\ next' = NextAfter(n)
      BY <2>6 DEF Invalidate
    <3>2. /\ Len(log') = Len(log) - n /\ n \in Nat
          /\ \A i \in 1 .. Len(log) - n : i + n \in Positions /\ log'[i] = log[i + n]
      <4>1. /\ Len(log') = Len(log) - n
            /\ \A i \in 1 .. Len(log) - n : i + n \in Positions /\ log'[i] = log[i + n]
        BY <1>0, <3>1, LogAfterLeave
      <4>2. n \in Nat
        OBVIOUS
      <4>3. QED
        BY <4>1, <4>2
    <3>3. Positions' = 1 .. Len(log) - n /\ next \in Nat /\ next <= Len(log)
      BY <1>0, <3>2, LogItems DEF Positions
    <3>4. /\ th'[t].pc = th[t].then /\ th'[t].id = th[t].id
          /\ \A u \in Threads \ {t} : th'[u] = th[u]
      BY <1>0, <2>6 DEF Invalidate, Goto
    <3>5. th[t].then \in {"idle", "claim", "append", "reply"}
      BY <1>0 DEF Thread
    <3>6. ASSUME NEW u \in Threads, Writing(u)'
          PROVE  /\ Writing(u) /\ th'[u].id = th[u].id
                 /\ \E i \in 1 .. next' : log'[i].id = th'[u].id /\ log'[i].busy
      <4>1. u # t /\ Writing(u) /\ th'[u] = th[u]
        BY <3>4, <3>5, <3>6 DEF Writing
      <4>2. PICK i \in 1 .. next : log[i].id = th[u].id /\ log[i].busy
        BY <4>1 DEF IInv, ItemsOwned
      <4>3. i > n
        BY <3>1, <3>2, <4>2 DEF Released
      <4>4. next' = next - n /\ i - n \in 1 .. next' /\ i - n \in 1 .. Len(log) - n
        BY <3>1, <3>2, <3>3, <4>2, <4>3 DEF NextAfter
      <4>5. log'[i - n] = log[i]
        BY <3>2, <4>2, <4>4
      <4>6. QED
        BY <4>1, <4>2, <4>4, <4>5
    <3>7. ASSUME NEW i \in Positions', NEW j \in Positions', log'[i].id = log'[j].id
          PROVE  i = j
      <4>1. \A a, b \in Positions : log[a].id = log[b].id => a = b
        BY DEF IInv, ItemsOwned
      <4>2. /\ i \in 1 .. Len(log) - n /\ j \in 1 .. Len(log) - n
            /\ i + n \in Positions /\ log'[i] = log[i + n]
            /\ j + n \in Positions /\ log'[j] = log[j + n]
        BY <3>2, <3>3
      <4>3. i + n = j + n
        BY <3>7, <4>1, <4>2
      <4>4. QED
        BY <1>0, <3>2, <4>2, <4>3
    <3>8. QED
      BY <3>6, <3>7 DEF IInv, ItemsOwned
  <2>7. QED
    BY <1>5, <2>1, <2>2, <2>3, <2>4, <2>5, <2>6 DEF WriteOut
<1>6. ASSUME NEW k \in Keys, Evict(k) PROVE ItemsOwned'
  BY <1>0, <1>6, ItemsUnmoved, WorkersAreThreads DEF Evict, Writing
<1>7. QED
  BY <1>1, <1>2, <1>3, <1>4, <1>5, <1>6 DEF Next

-----------------------------------------------------------------------------
(* The invariant of the specification. *)

LEMMA InvInit ==
    ASSUME Init
    PROVE  IInv
<1>1. \A t \in Threads : Start(t) \in Thread
  BY StartTyped
<1>2. TypeOK
  <2>1. log \in Seq(Item) /\ Len(log) = 0
    BY EmptySeq DEF Init
  <2>2. /\ << >> \in Seq(Nat) /\ << >> \in Seq(Cached)
        /\ NoValue \in Nat /\ NoVersion \in Nat \cup {NoVersion}
    BY EmptySeq DEF NoValue
  <2>3. next \in 0 .. Len(log)
    BY <2>1 DEF Init
  <2>4. QED
    BY <1>1, <2>1, <2>2, <2>3 DEF Init, TypeOK
<1>3. FieldsFit
  BY DEF Init, FieldsFit, Start
<1>4. ItemsOwned
  <2>1. Positions = {}
    BY DEF Init, Positions
  <2>2. \A t \in Threads : ~Writing(t)
    BY DEF Init, Writing, Start
  <2>3. QED
    BY <2>1, <2>2 DEF ItemsOwned
<1>5. QED
  BY <1>2, <1>3, <1>4 DEF IInv

LEMMA InvStep ==
    ASSUME IInv, [Next]_vars
    PROVE  IInv'
<1>1. CASE Next
  BY <1>1, TypesKept, FieldsKept, ItemsKept DEF IInv
<1>2. CASE UNCHANGED vars
  <2>1. TypeOK'
    BY <1>2 DEF IInv, TypeOK, vars
  <2>2. FieldsFit'
    BY <1>2 DEF IInv, FieldsFit, vars
  <2>3. ItemsOwned'
    BY <1>2 DEF IInv, ItemsOwned, Writing, Positions, vars
  <2>4. QED
    BY <2>1, <2>2, <2>3 DEF IInv
<1>3. QED
  BY <1>1, <1>2

\* The variables keep their types, each thread has the request and the version
\* that the code it is at uses, and a thread between ssd_ht_set and the release
\* of its item has an item of its own behind next (NVDIMM.c:742).
THEOREM Invariance == Spec => []IInv
<1>1. Init => IInv
  BY InvInit
<1>2. IInv /\ [Next]_vars => IInv'
  BY InvStep
<1>3. QED
  BY <1>1, <1>2, PTL DEF Spec

\* The variables of the server keep their types.
THEOREM TypeCorrect == Spec => []TypeOK
<1>1. IInv => TypeOK
  BY DEF IInv
<1>2. QED
  BY <1>1, Invariance, PTL

-----------------------------------------------------------------------------
(* The log as a queue. *)

Flags == [i \in Positions |-> ~log[i].live /\ ~log[i].busy]

QueueNext == Queue!Next \/ UNCHANGED <<Flags, next>>

LEMMA FlagsShape ==
    ASSUME TypeOK
    PROVE  Flags \in Seq(BOOLEAN) /\ Len(Flags) = Len(log)
<1>1. Flags \in [1 .. Len(log) -> BOOLEAN]
  BY DEF Flags, Positions
<1>2. QED
  BY <1>1, LogItems

\* No item was released, none came and none left: a stuttering step.
LEMMA NothingReleased ==
    ASSUME Positions' = Positions, next' = next,
           \A i \in Positions : (~log[i].live /\ ~log[i].busy)'
                                 = (~log[i].live /\ ~log[i].busy)
    PROVE  QueueNext
BY DEF QueueNext, Flags

\* One item that was not released may be so now: a step of Release, or none.
LEMMA OneReleased ==
    ASSUME TypeOK, Positions' = Positions, next' = next,
           NEW n \in Positions, log[n].live \/ log[n].busy,
           \A i \in Positions \ {n} : log'[i] = log[i]
    PROVE  QueueNext
<1>1. CASE log'[n].live \/ log'[n].busy
  BY <1>1, NothingReleased
<1>2. CASE ~log'[n].live /\ ~log'[n].busy
  <2> DEFINE free(i) == ~log[i].live /\ ~log[i].busy
  <2>0. ASSUME NEW i \in Positions
        PROVE  free(i)' = IF i = n THEN TRUE ELSE free(i)
    <3>1. CASE i = n
      BY <1>2, <3>1, Zenon
    <3>2. CASE i # n
      <4>1. log'[i] = log[i]
        BY <3>2
      <4>2. QED
        BY <3>2, <4>1, Zenon
    <3>3. QED
      BY <3>1, <3>2
  <2>1. Flags' = [Flags EXCEPT ![n] = TRUE]
    BY <2>0 DEF Flags
  <2>2. n \in 1 .. Len(Flags) /\ ~Flags[n]
    BY FlagsShape DEF Flags, Positions
  <2>3. Queue!Release
    BY <2>1, <2>2 DEF Queue!Release, Flags
  <2>4. QED
    BY <2>3 DEF QueueNext, Queue!Next
<1>3. QED
  BY <1>1, <1>2

LEMMA SupersedeRefines ==
    ASSUME IInv, NEW w \in Workers, Supersede(w)
    PROVE  QueueNext
<1>0. /\ TypeOK /\ Len(log) \in Nat /\ \A i \in Positions : log[i] \in Item
      /\ w \in Threads /\ th[w].key \in Keys
  BY LogItems, WorkersAreThreads DEF IInv, FieldsFit, Supersede, At
<1> DEFINE found == Found(th[w].key)
<1>1. log' = [i \in Positions |->
                 IF i \in found THEN [log[i] EXCEPT !.live = FALSE] ELSE log[i]]
  BY DEF Supersede
<1>2. Positions' = Positions /\ next' = next
  BY <1>0, <1>1 DEF Positions, Supersede
<1>3. CASE found = {}
  BY <1>1, <1>2, <1>3, NothingReleased
<1>4. CASE found # {}
  <2>1. PICK n \in found : n \in Positions /\ log[n].live
                          /\ \A i \in found : i = n
    BY <1>0, <1>4, FoundIsOne
  <2>2. \A i \in Positions \ {n} : log'[i] = log[i]
    BY <1>1, <2>1
  <2>3. QED
    BY <1>0, <1>2, <2>1, <2>2, OneReleased
<1>5. QED
  BY <1>3, <1>4

LEMMA FlagAppended ==
    ASSUME NEW s \in Seq(BOOLEAN), NEW n \in Nat, Len(s) = n
    PROVE  /\ Append(s, FALSE) \in Seq(BOOLEAN)
           /\ Len(Append(s, FALSE)) = n + 1
           /\ \A i \in 1 .. n : Append(s, FALSE)[i] = s[i]
           /\ Append(s, FALSE)[n + 1] = FALSE
<1>1. s \in Seq(BOOLEAN) /\ FALSE \in BOOLEAN
  OBVIOUS
<1>2. QED
  BY <1>1, AppendProperties

LEMMA AppendRefines ==
    ASSUME IInv, NEW w \in Workers, AppendItem(w)
    PROVE  Queue!Enter
<1>0. TypeOK /\ Len(log) \in Nat
  BY LogItems DEF IInv
<1> DEFINE n == Len(log) + 1
<1>1. /\ Len(log') = n /\ log'[n].live
      /\ \A i \in Positions : log'[i] = log[i]
  BY <1>0, AppendProperties DEF AppendItem, TypeOK, Positions
<1>2. Flags' = [i \in 1 .. n |-> ~log'[i].live /\ ~log'[i].busy]
  BY <1>1 DEF Flags, Positions
<1>3. Flags \in Seq(BOOLEAN) /\ Len(Flags) = Len(log)
  BY <1>0, FlagsShape
<1>4. /\ Append(Flags, FALSE) \in Seq(BOOLEAN)
      /\ Len(Append(Flags, FALSE)) = n
      /\ \A i \in 1 .. Len(log) : Append(Flags, FALSE)[i] = Flags[i]
      /\ Append(Flags, FALSE)[n] = FALSE
  BY <1>0, <1>3, FlagAppended
<1>5. Append(Flags, FALSE) \in [1 .. n -> BOOLEAN]
  BY <1>4, LenProperties
<1>6. ASSUME NEW i \in 1 .. n
      PROVE  Append(Flags, FALSE)[i] = (~log'[i].live /\ ~log'[i].busy)
  <2>1. CASE i = n
    BY <1>1, <1>4, <2>1, Zenon
  <2>2. CASE i # n
    <3>1. i \in 1 .. Len(log)
      BY <1>0, <2>2
    <3>2. Flags[i] = (~log[i].live /\ ~log[i].busy) /\ log'[i] = log[i]
      BY <1>1, <3>1 DEF Flags, Positions
    <3>3. QED
      BY <1>4, <3>1, <3>2, Zenon
  <2>3. QED
    BY <2>1, <2>2
<1>7. Flags' = Append(Flags, FALSE)
  BY <1>2, <1>5, <1>6
<1>8. next' = next
  BY DEF AppendItem
<1>9. QED
  BY <1>7, <1>8 DEF Queue!Enter, Flags

LEMMA ClaimRefines ==
    ASSUME IInv, NEW t \in Threads, Claim(t)
    PROVE  Queue!ClaimOldest
<1>0. /\ TypeOK /\ Len(log) \in Nat /\ next \in Nat
      /\ \A i \in Positions : log[i] \in Item
  BY LogItems DEF IInv
<1> DEFINE n == next + 1
<1>1. n \in Positions /\ log[n].live /\ next < Len(log) /\ next' = n
  BY <1>0 DEF Claim, Positions
<1>2. log' = [log EXCEPT ![n] = [log[n] EXCEPT !.busy = TRUE]]
  BY DEF Claim
<1>3. [log[n] EXCEPT !.busy = TRUE].live = log[n].live
  BY <1>0, <1>1 DEF Item
<1>4. Positions' = Positions /\ \A i \in Positions \ {n} : log'[i] = log[i]
  BY <1>0, <1>1, <1>2 DEF Positions, TypeOK
<1>5. log'[n].live
  BY <1>0, <1>1, <1>2, <1>3 DEF Positions, TypeOK
<1>6. Flags' = Flags
  BY <1>1, <1>4, <1>5 DEF Flags
<1>7. Len(Flags) = Len(log) /\ ~Flags[n]
  BY <1>0, <1>1, FlagsShape DEF Flags
<1>8. QED
  BY <1>1, <1>6, <1>7 DEF Queue!ClaimOldest, Flags

LEMMA ConsumeRefines ==
    ASSUME IInv, NEW t \in Threads, Consume(t)
    PROVE  QueueNext
<1>0. TypeOK /\ Len(log) \in Nat
  BY LogItems DEF IInv
<1> DEFINE m == Mine(t)
           x == [log[m] EXCEPT !.live = FALSE, !.busy = FALSE]
<1>1. Writing(t)
  BY DEF Consume, At, Writing
<1>2. m \in Positions /\ log[m].busy
  BY <1>1, MineIsMine
<1>3. log' = [log EXCEPT ![m] = x] /\ next' = next
  BY DEF Consume
<1>4. Positions' = Positions /\ \A i \in Positions \ {m} : log'[i] = log[i]
  BY <1>0, <1>2, <1>3 DEF Positions, TypeOK
<1>5. QED
  BY <1>0, <1>2, <1>3, <1>4, OneReleased

LEMMA InvalidateRefines ==
    ASSUME IInv, NEW t \in Threads, Invalidate(t)
    PROVE  QueueNext
<1>0. TypeOK /\ Len(log) \in Nat /\ next \in Nat
  BY LogItems DEF IInv
<1>1. PICK n \in 0 .. Len(log) :
         /\ \A i \in 1 .. n : Released(log[i])
         /\ log' = SubSeq(log, n + 1, Len(log))
         /\ next' = NextAfter(n)
  BY DEF Invalidate
<1>2. /\ Len(log') = Len(log) - n
      /\ \A i \in 1 .. Len(log) - n : i + n \in Positions /\ log'[i] = log[i + n]
  BY <1>0, <1>1, LogAfterLeave
<1>3. Positions' = 1 .. Len(log) - n
  BY <1>2 DEF Positions
<1>4. CASE n = 0
  <2>1. Positions' = Positions /\ next' = next
    BY <1>0, <1>1, <1>3, <1>4 DEF Positions, NextAfter
  <2>2. \A i \in Positions : log'[i] = log[i]
    BY <1>0, <1>2, <1>4 DEF Positions
  <2>3. QED
    BY <2>1, <2>2, NothingReleased
<1>5. CASE n # 0
  <2>1. Flags \in Seq(BOOLEAN) /\ Len(Flags) = Len(log) /\ n \in 1 .. Len(Flags)
    BY <1>0, <1>5, FlagsShape
  <2>2. ASSUME NEW i \in 1 .. n
        PROVE  Flags[i]
    <3>1. i \in Positions
      BY <1>0 DEF Positions
    <3>2. ~log[i].live /\ ~log[i].busy
      BY <1>1 DEF Released
    <3>3. QED
      BY <3>1, <3>2, Zenon DEF Flags
  <2>3. Flags' = [i \in 1 .. Len(log) - n |-> ~log'[i].live /\ ~log'[i].busy]
    BY <1>3 DEF Flags
  <2>4. \A i \in 1 .. Len(log) - n :
           (~log'[i].live /\ ~log'[i].busy) = Flags[i + n]
    BY <1>2 DEF Flags
  <2>5. Flags' = [i \in 1 .. Len(log) - n |-> Flags[i + n]]
    BY <2>3, <2>4
  <2>6. Flags' = SubSeq(Flags, n + 1, Len(Flags))
    BY <1>0, <2>1, <2>5
  <2>7. next' = IF next < n THEN 0 ELSE next - n
    BY <1>1 DEF NextAfter
  <2>8. Queue!Leave
    BY <2>1, <2>2, <2>6, <2>7 DEF Queue!Leave, Flags
  <2>9. QED
    BY <2>8 DEF QueueNext, Queue!Next
<1>6. QED
  BY <1>4, <1>5

LEMMA StepRefines ==
    ASSUME IInv, [Next]_vars
    PROVE  [Queue!Next]_(Queue!qvars)
<1>0. log' = log /\ next' = next => QueueNext
  BY DEF QueueNext, Flags, Positions
<1>1. ASSUME NEW w \in Workers, ServeSet(w) PROVE QueueNext
  <2>1. CASE AppendItem(w)
    BY <2>1, AppendRefines DEF QueueNext, Queue!Next
  <2>2. CASE NoRoom(w)
    BY <1>0, <2>2 DEF NoRoom
  <2>3. QED
    BY <1>1, <2>1, <2>2, SupersedeRefines DEF ServeSet
<1>2. ASSUME NEW w \in Workers, ServeGet(w) PROVE QueueNext
  BY <1>0, <1>2 DEF ServeGet, GetLog, GetCached, GetStored, Fill, Reply
<1>3. ASSUME NEW t \in Threads, WriteOut(t) PROVE QueueNext
  <2>1. CASE Claim(t)
    BY <2>1, ClaimRefines DEF QueueNext, Queue!Next
  <2>2. CASE ClaimNothing(t) \/ Store(t) \/ CacheStored(t)
    BY <1>0, <2>2 DEF ClaimNothing, Store, CacheStored
  <2>3. QED
    BY <1>3, <2>1, <2>2, ConsumeRefines, InvalidateRefines DEF WriteOut
<1>4. ASSUME NEW w \in Workers, NEW m \in Messages, Drop(w, m) \/ Request(w, m)
      PROVE  QueueNext
  BY <1>0, <1>4 DEF Drop, Request
<1>5. ASSUME NEW k \in Keys, Evict(k) PROVE QueueNext
  BY <1>0, <1>5 DEF Evict
<1>6. ASSUME UNCHANGED vars PROVE QueueNext
  BY <1>0, <1>6 DEF vars
<1>7. QueueNext
  <2>1. CASE Next
    BY <1>1, <1>2, <1>3, <1>4, <1>5, <2>1, Zenon DEF Next
  <2>2. QED
    BY <1>6, <2>1
<1>8. QED
  BY <1>7 DEF QueueNext, Queue!qvars, Flags

\* The log the server keeps is a queue for every number of workers, keys and
\* requests: items are claimed in the order the SETs appended them and each at
\* most once, and leave in that order, none before it was stored or superseded,
\* although SETs of the key, write-outs and GETs move it at any time.
THEOREM QueueImplemented == Spec => ImplementsQueue
<1>1. Init => Queue!Init
  <2>1. Init => Flags = << >>
    BY DEF Init, Flags, Positions
  <2>2. QED
    BY <2>1 DEF Init, Queue!Init, Flags
<1>2. IInv /\ [Next]_vars => [Queue!Next]_(Queue!qvars)
  BY StepRefines
<1>3. QED
  BY <1>1, <1>2, Invariance, PTL DEF Spec, ImplementsQueue, Queue!Spec

-----------------------------------------------------------------------------
(* What the cache answers. *)

\* The value is the one stored under this version of the key.
Recorded(k, ver, val) == ver + 1 \in 1 .. Len(ssd[k]) /\ val = ssd[k][ver + 1]

Contents == \A k \in Keys : \A i \in 1 .. Len(cache[k]) :
                Recorded(k, cache[k][i].ver, cache[k][i].val)

InMotion == \A t \in Threads, k \in Keys :
                Moving(t, k) => Recorded(k, th[t].ver, th[t].val)

OneUsable(k) == \A i, j \in Usable(k) : i = j

\* A thread takes this version from ssd_ht_set to cache_ht_set.
Carries(t, k) == At(t, "cache") /\ log[Mine(t)].key = k

\* Only the newest version can be missing, with a thread that brings it.
NewestComes(k) ==
    /\ cachedMost[k] <= Version(k)
    /\ \/ cachedMost[k] = Version(k)
       \/ \E t \in Threads : Carries(t, k) /\ th[t].ver = Version(k)

UsableIsNewest(k) ==
    "stale" \notin harm => \A i \in Usable(k) : cache[k][i].ver = cachedMost[k]

CacheInv ==
    /\ Contents /\ InMotion
    /\ \A k \in Keys : OneUsable(k) /\ NewestComes(k) /\ UsableIsNewest(k)

-----------------------------------------------------------------------------
(* The item of a thread between ssd_ht_set and cache_ht_set. *)

LEMMA Types ==
    ASSUME IInv
    PROVE  /\ TypeOK /\ th \in [Threads -> Thread]
           /\ Len(log) \in Nat /\ \A i \in Positions : log[i] \in Item
           /\ ssd \in [Keys -> Seq(Nat)] /\ cache \in [Keys -> Seq(Cached)]
           /\ cachedMost \in [Keys -> Nat \cup {NoVersion}]
           /\ \A k \in Keys : Len(ssd[k]) \in Nat /\ Len(cache[k]) \in Nat
           /\ \A k \in Keys : \A i \in 1 .. Len(cache[k]) : cache[k][i] \in Cached
BY LogItems, LenProperties, ElementOfSeq DEF IInv, TypeOK

SameItem(x, y) == x.id = y.id /\ x.key = y.key /\ x.val = y.val

\* An item that is being written out is still in the log after any step.
LEMMA BusyStay ==
    ASSUME IInv, Next, NEW i \in Positions, log[i].busy
    PROVE  \E j \in Positions' : SameItem(log'[j], log[i])
<1> USE DEF SameItem
<1>0. /\ Len(log) \in Nat /\ log[i] \in Item /\ log \in Seq(Item)
      /\ log \in [Positions -> Item] /\ th \in [Threads -> Thread]
      /\ \A p \in Positions : log[p] \in Item
  BY Types, LogItems DEF TypeOK
<1>1. ASSUME log' = log
      PROVE  \E j \in Positions' : SameItem(log'[j], log[i])
  BY <1>1 DEF Positions
<1>2. ASSUME NEW w \in Workers, Supersede(w)
      PROVE  \E j \in Positions' : SameItem(log'[j], log[i])
  <2>1. Len(log') = Len(log)
    BY <1>0, <1>2 DEF Supersede, Positions
  <2>2. log'[i] = [log[i] EXCEPT !.live = FALSE] \/ log'[i] = log[i]
    BY <1>2 DEF Supersede
  <2>3. SameItem(log'[i], log[i])
    BY <1>0, <2>2 DEF Item
  <2>4. QED
    BY <2>1, <2>3 DEF Positions
<1>3. ASSUME NEW w \in Workers, AppendItem(w)
      PROVE  \E j \in Positions' : SameItem(log'[j], log[i])
  <2>1. Len(log') = Len(log) + 1 /\ log'[i] = log[i]
    BY <1>0, <1>3, AppendProperties DEF AppendItem, Positions
  <2>2. QED
    BY <1>0, <2>1 DEF Positions
<1>4. ASSUME NEW t \in Threads, Claim(t)
      PROVE  \E j \in Positions' : SameItem(log'[j], log[i])
  <2>1. log' = [log EXCEPT ![next + 1] = [log[next + 1] EXCEPT !.busy = TRUE]]
    BY <1>4 DEF Claim
  <2>2. Len(log') = Len(log)
    BY <1>0, <2>1 DEF Positions
  <2>3. log'[i] = [log[i] EXCEPT !.busy = TRUE] \/ log'[i] = log[i]
    BY <1>0, <2>1
  <2>4. SameItem(log'[i], log[i])
    BY <1>0, <2>3 DEF Item
  <2>5. QED
    BY <2>2, <2>4 DEF Positions
<1>5. ASSUME NEW t \in Threads, Consume(t)
      PROVE  \E j \in Positions' : SameItem(log'[j], log[i])
  <2>1. log' = [log EXCEPT ![Mine(t)] = [log[Mine(t)] EXCEPT !.live = FALSE, !.busy = FALSE]]
    BY <1>5 DEF Consume
  <2>2. Len(log') = Len(log)
    BY <1>0, <2>1 DEF Positions
  <2>3. log'[i] = [log[i] EXCEPT !.live = FALSE, !.busy = FALSE] \/ log'[i] = log[i]
    BY <1>0, <2>1
  <2>4. SameItem(log'[i], log[i])
    BY <1>0, <2>3 DEF Item
  <2>5. QED
    BY <2>2, <2>4 DEF Positions
<1>6. ASSUME NEW t \in Threads, Invalidate(t)
      PROVE  \E j \in Positions' : SameItem(log'[j], log[i])
  <2>1. PICK n \in 0 .. Len(log) :
           /\ \A j \in 1 .. n : Released(log[j])
           /\ log' = SubSeq(log, n + 1, Len(log))
    BY <1>6 DEF Invalidate
  <2>2. /\ Len(log') = Len(log) - n
        /\ \A j \in 1 .. Len(log) - n : log'[j] = log[j + n]
    BY <2>1, Types, LogAfterLeave
  <2>3. i > n /\ n \in Nat
    BY <1>0, <2>1 DEF Released, Positions
  <2>4. i - n \in Positions' /\ log'[i - n] = log[i]
    BY <1>0, <2>2, <2>3 DEF Positions
  <2>5. QED
    BY <2>4
<1>7. QED
  BY <1>1, <1>2, <1>3, <1>4, <1>5, <1>6
  DEF Next, Drop, Request, ServeSet, NoRoom, ServeGet, GetLog, GetCached, GetStored,
      Fill, Reply, WriteOut, ClaimNothing, Store, CacheStored, Evict, Threads

\* A thread that writes out keeps its item, and with it its key and value.
LEMMA ItemKept ==
    ASSUME IInv, IInv', Next, NEW t \in Threads, Writing(t),
           Writing(t)', th'[t].id = th[t].id
    PROVE  /\ log'[Mine(t)'].key = log[Mine(t)].key
           /\ log'[Mine(t)'].val = log[Mine(t)].val
<1> USE DEF SameItem
<1>1. Mine(t) \in Positions /\ log[Mine(t)].id = th[t].id /\ log[Mine(t)].busy
  BY MineIsMine
<1>2. PICK j \in Positions' : SameItem(log'[j], log[Mine(t)])
  BY <1>1, BusyStay
<1>3. Mine(t)' \in Positions' /\ log'[Mine(t)'].id = th'[t].id
  BY <1>1, <1>2 DEF Mine
<1>4. Mine(t)' = j
  BY <1>1, <1>2, <1>3 DEF IInv, ItemsOwned
<1>5. QED
  BY <1>2, <1>4

-----------------------------------------------------------------------------
(* cache_ht_set. *)

LEMMA FirstUsable ==
    ASSUME cache \in [Keys -> Seq(Cached)], NEW k \in Keys, Usable(k) # {}
    PROVE  First(Usable(k)) \in Usable(k)
<1>1. Usable(k) \in SUBSET Nat
  BY LenProperties DEF Usable
<1>2. \E m \in Usable(k) : \A j \in Usable(k) : m <= j
  BY <1>1, LeastNumber
<1>3. QED
  BY <1>2 DEF First

\* What it leaves in the chain is what was there or what it was given, and
\* what it leaves usable is what it was given.
LEMMA CacheSetFacts ==
    ASSUME cache \in [Keys -> Seq(Cached)], NEW k \in Keys, OneUsable(k),
           NEW ver \in Nat, NEW val \in Nat, CacheSet(k, ver, val)
    PROVE  /\ \A q \in Keys \ {k} : cache'[q] = cache[q]
           /\ \A i \in 1 .. Len(cache'[k]) :
                 \/ cache'[k][i].ver = ver /\ cache'[k][i].val = val
                 \/ \E j \in 1 .. Len(cache[k]) : /\ cache'[k][i].ver = cache[k][j].ver
                                                  /\ cache'[k][i].val = cache[k][j].val
           /\ OneUsable(k)'
           /\ \A i \in Usable(k)' : cache'[k][i].ver = ver
           /\ \A i \in Usable(k) : ver >= cache[k][i].ver \/ Usable(k)' = {}
<1> DEFINE i == First(Usable(k))
           new == [ver |-> ver, val |-> val, stuck |-> FALSE]
<1>0. /\ cache[k] \in Seq(Cached) /\ Len(cache[k]) \in Nat
      /\ cache[k] \in [1 .. Len(cache[k]) -> Cached]
      /\ \A j \in 1 .. Len(cache[k]) : cache[k][j] \in Cached
  BY LenProperties, ElementOfSeq
<1>1. /\ \A q \in Keys \ {k} : cache'[q] = cache[q]
      /\ cache'[k] = IF Usable(k) = {} THEN <<new>> \o cache[k]
                     ELSE IF cache[k][i].ver > ver
                          THEN [cache[k] EXCEPT ![i] = [cache[k][i] EXCEPT !.stuck = TRUE]]
                          ELSE [cache[k] EXCEPT ![i] = new]
  BY DEF CacheSet
<1>2. CASE Usable(k) = {}
  <2>1. cache'[k] = <<new>> \o cache[k]
    BY <1>1, <1>2
  <2>2. /\ Len(cache'[k]) = Len(cache[k]) + 1 /\ cache'[k][1] = new
        /\ \A j \in 2 .. Len(cache[k]) + 1 : cache'[k][j] = cache[k][j - 1]
    <3>1. <<new>> \in Seq(Cached) /\ Len(<<new>>) = 1 /\ <<new>>[1] = new
      BY DEF Cached
    <3>2. QED
      BY <1>0, <2>1, <3>1, ConcatProperties
  <2>3. \A j \in 1 .. Len(cache[k]) : cache[k][j].stuck
    BY <1>2 DEF Usable
  <2>4. \A j \in 2 .. Len(cache[k]) + 1 : /\ j - 1 \in 1 .. Len(cache[k])
                                          /\ cache'[k][j] = cache[k][j - 1]
                                          /\ cache'[k][j].stuck
    BY <1>0, <2>2, <2>3
  <2>5. \A j \in 1 .. Len(cache'[k]) : j = 1 \/ j \in 2 .. Len(cache[k]) + 1
    BY <1>0, <2>2
  <2>6. \A j \in Usable(k)' : j = 1
    BY <2>4, <2>5 DEF Usable
  <2>7. \A j \in 1 .. Len(cache'[k]) :
           \/ cache'[k][j].ver = ver /\ cache'[k][j].val = val
           \/ \E l \in 1 .. Len(cache[k]) : /\ cache'[k][j].ver = cache[k][l].ver
                                            /\ cache'[k][j].val = cache[k][l].val
    <3>1. cache'[k][1].ver = ver /\ cache'[k][1].val = val
      BY <2>2
    <3>2. QED
      BY <2>4, <2>5, <3>1
  <2>8. \A j \in Usable(k)' : cache'[k][j].ver = ver
    BY <2>2, <2>6
  <2>9. QED
    BY <1>1, <1>2, <2>6, <2>7, <2>8 DEF OneUsable
<1>3. CASE Usable(k) # {}
  <2>1. /\ i \in 1 .. Len(cache[k]) /\ i \in Usable(k)
        /\ \A j \in 1 .. Len(cache[k]) : j # i => cache[k][j].stuck
    BY <1>3, FirstUsable DEF OneUsable, Usable
  <2>2. CASE cache[k][i].ver > ver
    <3> DEFINE held == [cache[k][i] EXCEPT !.stuck = TRUE]
    <3>1. cache'[k] = [cache[k] EXCEPT ![i] = held]
      BY <1>1, <1>3, <2>2
    <3>2. held.ver = cache[k][i].ver /\ held.val = cache[k][i].val /\ held.stuck
      BY <1>0, <2>1 DEF Cached
    <3>3. /\ Len(cache'[k]) = Len(cache[k]) /\ cache'[k][i] = held
          /\ \A j \in 1 .. Len(cache[k]) : j # i => cache'[k][j] = cache[k][j]
      BY <1>0, <2>1, <3>1, ExceptSeq
    <3>4. \A j \in 1 .. Len(cache'[k]) : cache'[k][j].stuck
      BY <2>1, <3>2, <3>3
    <3>5. Usable(k)' = {}
      BY <3>4 DEF Usable
    <3>6. \A j \in 1 .. Len(cache'[k]) :
             /\ j \in 1 .. Len(cache[k])
             /\ cache'[k][j].ver = cache[k][j].ver /\ cache'[k][j].val = cache[k][j].val
      BY <3>2, <3>3
    <3>7. QED
      BY <1>1, <3>5, <3>6 DEF OneUsable
  <2>3. CASE ~(cache[k][i].ver > ver)
    <3>1. cache'[k] = [cache[k] EXCEPT ![i] = new]
      BY <1>1, <1>3, <2>3
    <3>2. /\ Len(cache'[k]) = Len(cache[k]) /\ cache'[k][i] = new
          /\ \A j \in 1 .. Len(cache[k]) : j # i => cache'[k][j] = cache[k][j]
      <4>1. new \in Cached
        BY DEF Cached
      <4>2. QED
        BY <1>0, <2>1, <3>1, <4>1, ExceptSeq
    <3>3. \A j \in Usable(k)' : j = i
      BY <2>1, <3>2 DEF Usable
    <3>4. \A j \in Usable(k) : j = i
      BY <2>1 DEF OneUsable
    <3>5. ver >= cache[k][i].ver
      BY <1>0, <2>1, <2>3 DEF Cached
    <3>6. new.ver = ver /\ new.val = val
      OBVIOUS
    <3>7. \A j \in 1 .. Len(cache'[k]) :
             \/ cache'[k][j].ver = ver /\ cache'[k][j].val = val
             \/ \E l \in 1 .. Len(cache[k]) : /\ cache'[k][j].ver = cache[k][l].ver
                                              /\ cache'[k][j].val = cache[k][l].val
      BY <3>2, <3>6
    <3>8. \A j \in Usable(k)' : cache'[k][j].ver = ver
      BY <3>2, <3>3, <3>6
    <3>9. QED
      BY <1>1, <3>3, <3>4, <3>5, <3>7, <3>8 DEF OneUsable
  <2>4. QED
    BY <2>2, <2>3
<1>4. QED
  BY <1>2, <1>3

-----------------------------------------------------------------------------
(* The steps. *)

\* A thread that does not move goes on carrying what it carries.
LEMMA Lasting ==
    ASSUME IInv, IInv', Next, NEW u \in Threads, th'[u] = th[u], NEW k
    PROVE  /\ Moving(u, k)' <=> Moving(u, k)
           /\ Carries(u, k)' <=> Carries(u, k)
<1>1. ASSUME th[u].pc = "cache" PROVE log'[Mine(u)'].key = log[Mine(u)].key
  BY <1>1, ItemKept DEF Writing
<1>2. QED
  BY <1>1 DEF Moving, Carries, At

\* What is stored, cached or noted does not change, nor does anything start or
\* stop moving.
LEMMA QuietKeeps ==
    ASSUME IInv, IInv', Next, CacheInv, NEW a \in Threads,
           UNCHANGED <<ssd, cache, cachedMost>>,
           "stale" \notin harm' => "stale" \notin harm,
           \A u \in Threads \ {a} : th'[u] = th[u],
           th[a].pc # "cache", th'[a].pc \notin {"cache", "fill"}
    PROVE  CacheInv'
<1>1. Contents'
  BY DEF CacheInv, Contents, Recorded
<1>2. InMotion'
  <2>1. ASSUME NEW t \in Threads, NEW k \in Keys, Moving(t, k)'
        PROVE  Recorded(k, th[t].ver, th[t].val) /\ th'[t] = th[t]
    <3>1. t # a /\ th'[t] = th[t]
      BY <2>1 DEF Moving, At
    <3>2. QED
      BY <2>1, <3>1, Lasting DEF CacheInv, InMotion
  <2>2. QED
    BY <2>1 DEF InMotion, Recorded
<1>3. ASSUME NEW k \in Keys PROVE NewestComes(k)'
  <2>1. NewestComes(k) /\ Version(k)' = Version(k)
    BY DEF CacheInv, Version
  <2>2. ASSUME NEW t \in Threads, Carries(t, k), th[t].ver = Version(k)
        PROVE  Carries(t, k)' /\ th'[t].ver = Version(k)
    <3>1. t # a /\ th'[t] = th[t]
      BY <2>2 DEF Carries, At
    <3>2. QED
      BY <2>2, <3>1, Lasting
  <2>3. QED
    BY <2>1, <2>2 DEF NewestComes
<1>4. \A k \in Keys : OneUsable(k)' /\ UsableIsNewest(k)'
  BY DEF CacheInv, OneUsable, UsableIsNewest, Usable
<1>5. QED
  BY <1>1, <1>2, <1>3, <1>4 DEF CacheInv

\* A version that was recorded stays so when another is stored.
LEMMA StoreKeeps ==
    ASSUME IInv, IInv', Next, CacheInv, NEW t \in Threads, Store(t)
    PROVE  CacheInv'
<1> DEFINE k == log[Mine(t)].key
           v == log[Mine(t)].val
<1>0. /\ k \in Keys /\ v \in Nat /\ Mine(t) \in Positions
      /\ th \in [Threads -> Thread] /\ th[t].pc = "store"
  <2>1. th[t].pc = "store"
    BY DEF Store, At
  <2>2. Mine(t) \in Positions /\ log[Mine(t)] \in Item
    BY <2>1, MineIsMine DEF Writing
  <2>3. QED
    BY <2>1, <2>2, Types DEF Item
<1>1. /\ ssd' = [ssd EXCEPT ![k] = Append(ssd[k], v)]
      /\ th' = [th EXCEPT ![t] = [th[t] EXCEPT !.pc = "cache", !.val = v,
                                               !.ver = Version(k) + 1]]
      /\ UNCHANGED <<log, cache, cachedMost>>
      /\ "stale" \in harm' <=> "stale" \in harm
  BY DEF Store
<1>2. /\ Len(ssd[k]) \in Nat /\ Len(ssd'[k]) = Len(ssd[k]) + 1
      /\ ssd'[k][Len(ssd[k]) + 1] = v
      /\ \A j \in 1 .. Len(ssd[k]) : ssd'[k][j] = ssd[k][j]
      /\ \A q \in Keys \ {k} : ssd'[q] = ssd[q]
  <2>1. ssd[k] \in Seq(Nat) /\ ssd'[k] = Append(ssd[k], v)
    BY <1>0, <1>1, Types
  <2>2. \A q \in Keys \ {k} : ssd'[q] = ssd[q]
    BY <1>0, <1>1, Types
  <2>3. QED
    BY <1>0, <2>1, <2>2, AppendProperties, LenProperties
<1>3. /\ th'[t].pc = "cache" /\ th'[t].val = v /\ th'[t].ver = Version(k) + 1
      /\ th'[t].id = th[t].id /\ \A u \in Threads \ {t} : th'[u] = th[u]
  BY <1>0, <1>1 DEF Thread
<1>4. Mine(t)' = Mine(t) /\ \A q : Carries(t, q)' <=> q = k
  <2>1. Mine(t)' = Mine(t)
    BY <1>1, <1>3 DEF Mine, Positions
  <2>2. QED
    BY <1>1, <1>3, <2>1 DEF Carries, At
<1>5. ASSUME NEW q \in Keys, NEW ver, NEW val, Recorded(q, ver, val)
      PROVE  Recorded(q, ver, val)'
  <2>1. CASE q = k
    BY <1>2, <1>5, <2>1 DEF Recorded
  <2>2. CASE q # k
    BY <1>2, <1>5, <2>2 DEF Recorded
  <2>3. QED
    BY <2>1, <2>2
<1>6. Contents'
  BY <1>1, <1>5 DEF CacheInv, Contents, Recorded
<1>7. InMotion'
  <2>1. ASSUME NEW u \in Threads, NEW q \in Keys, Moving(u, q)', u # t
        PROVE  Recorded(q, th[u].ver, th[u].val)'
    <3>1. th'[u] = th[u] /\ Recorded(q, th[u].ver, th[u].val)
      BY <1>3, <2>1, Lasting DEF CacheInv, InMotion
    <3>2. QED
      BY <1>5, <3>1 DEF Recorded
  <2>2. ASSUME NEW q \in Keys, Moving(t, q)'
        PROVE  Recorded(q, th[t].ver, th[t].val)'
    <3>1. q = k
      BY <1>3, <1>4, <2>2 DEF Moving, Carries, At
    <3>2. th'[t].ver = Len(ssd[q]) /\ th'[t].val = v
      BY <1>2, <1>3, <3>1 DEF Version
    <3>3. QED
      BY <1>2, <3>1, <3>2 DEF Recorded
  <2>3. QED
    BY <2>1, <2>2 DEF InMotion
<1>8. ASSUME NEW q \in Keys PROVE NewestComes(q)'
  <2>1. NewestComes(q)
    BY DEF CacheInv
  <2>2. CASE q = k
    <3>1. Version(q)' = Version(q) + 1 /\ Version(q) \in Int
      BY <1>2, <2>2 DEF Version
    <3>2. Carries(t, q)' /\ th'[t].ver = Version(q)'
      BY <1>3, <1>4, <2>2, <3>1
    <3>3. cachedMost[q] \in Int /\ cachedMost[q] <= Version(q)
      BY <2>1, Types DEF NewestComes, NoVersion
    <3>4. cachedMost'[q] <= Version(q)'
      BY <1>1, <3>1, <3>3
    <3>5. QED
      BY <3>2, <3>4 DEF NewestComes
  <2>3. CASE q # k
    <3>1. Version(q)' = Version(q)
      BY <1>2, <2>3 DEF Version
    <3>2. ASSUME NEW u \in Threads, Carries(u, q), th[u].ver = Version(q)
          PROVE  Carries(u, q)' /\ th'[u].ver = Version(q)
      <4>1. u # t
        BY <1>0, <3>2 DEF Carries, At
      <4>2. QED
        BY <1>3, <3>2, <4>1, Lasting
    <3>3. QED
      BY <1>1, <2>1, <3>1, <3>2 DEF NewestComes
  <2>4. QED
    BY <2>2, <2>3
<1>9. \A q \in Keys : OneUsable(q)' /\ UsableIsNewest(q)'
  BY <1>1 DEF CacheInv, OneUsable, UsableIsNewest, Usable
<1>10. QED
  BY <1>6, <1>7, <1>8, <1>9 DEF CacheInv

\* A thread hands what it carries or has read to the cache.
LEMMA CachingKeeps ==
    ASSUME IInv, IInv', Next, CacheInv, NEW t \in Threads, NEW k \in Keys,
           Moving(t, k), CacheSet(k, th[t].ver, th[t].val), NoteCached(k, th[t].ver),
           ssd' = ssd, th'[t].pc \notin {"cache", "fill"},
           \A u \in Threads \ {t} : th'[u] = th[u]
    PROVE  CacheInv'
<1> DEFINE ver == th[t].ver
           val == th[t].val
<1>0. /\ ver \in Nat /\ val \in Nat /\ Recorded(k, ver, val)
      /\ OneUsable(k) /\ NewestComes(k) /\ UsableIsNewest(k)
      /\ cache \in [Keys -> Seq(Cached)]
      /\ cachedMost \in [Keys -> Nat \cup {NoVersion}]
      /\ Version(k) \in Int
  <2>1. th[t].pc \in {"cache", "fill"}
    BY DEF Moving, At
  <2>2. ver \in Nat /\ val \in Nat
    BY <2>1, Types DEF Thread, IInv, FieldsFit
  <2>3. Version(k) \in Int
    BY Types DEF Version
  <2>4. QED
    BY <2>2, <2>3, Types DEF CacheInv, InMotion
<1>1. /\ \A q \in Keys \ {k} : cache'[q] = cache[q]
      /\ \A i \in 1 .. Len(cache'[k]) :
            \/ cache'[k][i].ver = ver /\ cache'[k][i].val = val
            \/ \E j \in 1 .. Len(cache[k]) : /\ cache'[k][i].ver = cache[k][j].ver
                                             /\ cache'[k][i].val = cache[k][j].val
      /\ OneUsable(k)'
      /\ \A i \in Usable(k)' : cache'[k][i].ver = ver
      /\ \A i \in Usable(k) : ver >= cache[k][i].ver \/ Usable(k)' = {}
  BY <1>0, CacheSetFacts
<1>2. /\ cachedMost'[k] = IF ver > cachedMost[k] THEN ver ELSE cachedMost[k]
      /\ \A q \in Keys \ {k} : cachedMost'[q] = cachedMost[q]
      /\ "stale" \notin harm' =>
            "stale" \notin harm /\ (Usable(k) # {} \/ ~(ver < cachedMost[k]))
  <2>1. cachedMost' = [cachedMost EXCEPT ![k] =
                          IF ver > cachedMost[k] THEN ver ELSE cachedMost[k]]
    BY DEF NoteCached
  <2>2. harm' = IF Usable(k) = {} /\ ver < cachedMost[k]
                THEN harm \cup {"stale"} ELSE harm
    BY DEF NoteCached
  <2>3. QED
    BY <1>0, <2>1, <2>2
<1>3. Contents'
  <2>1. ASSUME NEW q \in Keys, NEW i \in 1 .. Len(cache'[q])
        PROVE  Recorded(q, cache'[q][i].ver, cache'[q][i].val)
    <3>1. CASE q = k
      BY <1>0, <1>1, <3>1 DEF CacheInv, Contents
    <3>2. CASE q # k
      BY <1>1, <3>2 DEF CacheInv, Contents
    <3>3. QED
      BY <3>1, <3>2
  <2>2. QED
    BY <2>1 DEF Contents, Recorded
<1>4. InMotion'
  <2>1. ASSUME NEW u \in Threads, NEW q \in Keys, Moving(u, q)'
        PROVE  Recorded(q, th[u].ver, th[u].val) /\ th'[u] = th[u]
    <3>1. u # t /\ th'[u] = th[u]
      BY <2>1 DEF Moving, At
    <3>2. QED
      BY <2>1, <3>1, Lasting DEF CacheInv, InMotion
  <2>2. QED
    BY <2>1 DEF InMotion, Recorded
<1>5. ASSUME NEW q \in Keys PROVE NewestComes(q)'
  <2>1. NewestComes(q) /\ Version(q)' = Version(q)
    BY DEF CacheInv, Version
  <2>2. ASSUME NEW u \in Threads, u # t, Carries(u, q), th[u].ver = Version(q)
        PROVE  Carries(u, q)' /\ th'[u].ver = Version(q)
    BY <2>2, Lasting
  <2>3. CASE q = k
    <3>1. ver <= Version(k)
      <4>1. ver + 1 \in 1 .. Len(ssd[k]) /\ Len(ssd[k]) \in Nat
        BY <1>0, Types DEF Recorded
      <4>2. QED
        BY <1>0, <4>1 DEF Version
    <3>2. cachedMost[k] \in Int /\ cachedMost[k] <= Version(k)
      BY <1>0, <2>1, <2>3 DEF NewestComes, NoVersion
    <3>3. cachedMost'[k] <= Version(k)
      BY <1>2, <3>1, <3>2
    <3>4. CASE cachedMost[k] = Version(k) \/ ver = Version(k)
      BY <1>0, <1>2, <2>1, <2>3, <3>1, <3>2, <3>4 DEF NewestComes
    <3>5. CASE cachedMost[k] # Version(k) /\ ver # Version(k)
      <4>1. PICK u \in Threads : Carries(u, k) /\ th[u].ver = Version(k)
        BY <1>0, <3>5 DEF NewestComes
      <4>2. u # t
        BY <3>5, <4>1
      <4>3. QED
        BY <2>1, <2>2, <2>3, <3>3, <4>1, <4>2 DEF NewestComes
    <3>6. QED
      BY <3>4, <3>5
  <2>4. CASE q # k
    <3>1. ~Carries(t, q)
      BY <2>4 DEF Carries, Moving, At
    <3>2. cachedMost'[q] = cachedMost[q]
      BY <1>2, <2>4
    <3>3. QED
      BY <2>1, <2>2, <3>1, <3>2 DEF NewestComes
  <2>5. QED
    BY <2>3, <2>4
<1>6. ASSUME NEW q \in Keys PROVE OneUsable(q)' /\ UsableIsNewest(q)'
  <2>1. CASE q = k
    <3>1. ASSUME "stale" \notin harm', NEW i \in Usable(k)'
          PROVE  cache'[k][i].ver = cachedMost'[k]
      <4>1. cache'[k][i].ver = ver /\ cachedMost[k] \in Int
        BY <1>0, <1>1, <3>1 DEF NoVersion
      <4>2. ver >= cachedMost[k]
        <5>1. CASE Usable(k) = {}
          BY <1>0, <1>2, <3>1, <4>1, <5>1
        <5>2. CASE Usable(k) # {}
          <6>1. PICK j \in Usable(k) : TRUE
            BY <5>2
          <6>2. ver >= cache[k][j].ver
            BY <1>1, <3>1, <6>1
          <6>3. cache[k][j].ver = cachedMost[k]
            BY <1>0, <1>2, <3>1, <6>1 DEF UsableIsNewest
          <6>4. QED
            BY <6>2, <6>3
        <5>3. QED
          BY <5>1, <5>2
      <4>3. QED
        BY <1>0, <1>2, <4>1, <4>2
    <3>2. QED
      BY <1>1, <2>1, <3>1 DEF UsableIsNewest
  <2>2. CASE q # k
    <3>1. cache'[q] = cache[q] /\ cachedMost'[q] = cachedMost[q]
      BY <1>1, <1>2, <2>2
    <3>2. Usable(q)' = Usable(q) /\ OneUsable(q) /\ UsableIsNewest(q)
      BY <3>1 DEF Usable, CacheInv
    <3>3. QED
      BY <1>2, <3>1, <3>2 DEF OneUsable, UsableIsNewest
  <2>3. QED
    BY <2>1, <2>2
<1>7. QED
  BY <1>3, <1>4, <1>5, <1>6 DEF CacheInv

\* A GET reads the SSD and will put what it found into the cache.
LEMMA ReadKeeps ==
    ASSUME IInv, IInv', Next, CacheInv, NEW w \in Workers, GetStored(w)
    PROVE  CacheInv'
<1> DEFINE k == th[w].key
<1>0. /\ w \in Threads /\ th \in [Threads -> Thread] /\ th[w].pc = "read"
      /\ UNCHANGED <<ssd, cache, cachedMost, harm>>
      /\ \A u \in Threads \ {w} : th'[u] = th[u]
  <2>1. w \in Threads /\ th \in [Threads -> Thread]
    BY Types, WorkersAreThreads
  <2>2. QED
    BY <2>1 DEF GetStored, At, history
<1>1. CASE ssd[k] = << >>
  <2>1. th'[w].pc = "reply"
    BY <1>0, <1>1 DEF GetStored
  <2>2. QED
    BY <1>0, <2>1, QuietKeeps
<1>2. CASE ssd[k] # << >>
  <2>1. k \in Keys
    BY <1>0 DEF IInv, FieldsFit
  <2>2. /\ th'[w].pc = "fill" /\ th'[w].key = k
        /\ th'[w].val = ssd[k][Len(ssd[k])] /\ th'[w].ver = Len(ssd[k]) - 1
    BY <1>0, <1>2 DEF GetStored, Version, Thread
  <2>3. Len(ssd[k]) \in Nat /\ Len(ssd[k]) # 0
    <3>1. ssd[k] \in Seq(Nat)
      BY <2>1, Types
    <3>2. QED
      BY <1>2, <3>1, EmptySeq, LenProperties
  <2>4. Contents'
    BY <1>0 DEF CacheInv, Contents, Recorded
  <2>5. InMotion'
    <3>1. ASSUME NEW u \in Threads, NEW q \in Keys, Moving(u, q)', u # w
          PROVE  Recorded(q, th[u].ver, th[u].val)'
      <4>1. th'[u] = th[u] /\ Recorded(q, th[u].ver, th[u].val)
        BY <1>0, <3>1, Lasting DEF CacheInv, InMotion
      <4>2. QED
        BY <1>0, <4>1 DEF Recorded
    <3>2. ASSUME NEW q \in Keys, Moving(w, q)'
          PROVE  Recorded(q, th[w].ver, th[w].val)'
      <4>1. q = k
        BY <2>2, <3>2 DEF Moving, At
      <4>2. QED
        BY <1>0, <2>2, <2>3, <4>1 DEF Recorded
    <3>3. QED
      BY <3>1, <3>2 DEF InMotion
  <2>6. ASSUME NEW q \in Keys PROVE NewestComes(q)'
    <3>1. NewestComes(q) /\ Version(q)' = Version(q)
      BY <1>0 DEF CacheInv, Version
    <3>2. ASSUME NEW u \in Threads, Carries(u, q), th[u].ver = Version(q)
          PROVE  Carries(u, q)' /\ th'[u].ver = Version(q)
      <4>1. u # w
        BY <1>0, <3>2 DEF Carries, At
      <4>2. QED
        BY <1>0, <3>2, <4>1, Lasting
    <3>3. QED
      BY <1>0, <3>1, <3>2 DEF NewestComes
  <2>7. \A q \in Keys : OneUsable(q)' /\ UsableIsNewest(q)'
    BY <1>0 DEF CacheInv, OneUsable, UsableIsNewest, Usable
  <2>8. QED
    BY <2>4, <2>5, <2>6, <2>7 DEF CacheInv
<1>3. QED
  BY <1>1, <1>2

\* An eviction takes the only item that a get would come to.
LEMMA EvictKeeps ==
    ASSUME IInv, IInv', Next, CacheInv, NEW k \in Keys, Evict(k)
    PROVE  CacheInv'
<1>0. /\ UNCHANGED <<log, next, ssd, th, cachedMost, harm>>
      /\ cache \in [Keys -> Seq(Cached)]
  BY Types DEF Evict, history
<1>1. PICK i \in Usable(k) :
         cache' = [cache EXCEPT ![k] = SubSeq(cache[k], 1, i - 1)
                                       \o SubSeq(cache[k], i + 1, Len(cache[k]))]
  BY DEF Evict
<1>2. \A q \in Keys \ {k} : cache'[q] = cache[q]
  BY <1>0, <1>1
<1>3. \A j \in 1 .. Len(cache'[k]) :
         \E l \in 1 .. Len(cache[k]) : l # i /\ cache'[k][j] = cache[k][l]
  <2> DEFINE c == cache[k]
             n == Len(cache[k])
             before == SubSeq(c, 1, i - 1)
             after == SubSeq(c, i + 1, n)
  <2>1. c \in Seq(Cached) /\ n \in Nat /\ i \in 1 .. n
        /\ \A l \in 1 .. n : c[l] \in Cached
    BY <1>0, LenProperties, ElementOfSeq DEF Usable
  <2>2. /\ before \in Seq(Cached) /\ Len(before) = i - 1
        /\ \A j \in 1 .. i - 1 : before[j] = c[j]
    <3>1. \A l \in 1 .. i - 1 : c[l] \in Cached
      BY <2>1
    <3>2. before \in Seq(Cached)
          /\ Len(before) = (IF 1 <= i - 1 THEN i - 1 - 1 + 1 ELSE 0)
          /\ \A j \in 1 .. i - 1 - 1 + 1 : before[j] = c[1 + j - 1]
      BY <2>1, <3>1, SubSeqProperties
    <3>3. QED
      BY <2>1, <3>2
  <2>3. /\ after \in Seq(Cached) /\ Len(after) = n - i
        /\ \A j \in 1 .. n - i : after[j] = c[i + j]
    <3>1. \A l \in i + 1 .. n : c[l] \in Cached
      BY <2>1
    <3>2. after \in Seq(Cached)
          /\ Len(after) = (IF i + 1 <= n THEN n - (i + 1) + 1 ELSE 0)
          /\ \A j \in 1 .. n - (i + 1) + 1 : after[j] = c[i + 1 + j - 1]
      BY <2>1, <3>1, SubSeqProperties
    <3>3. QED
      BY <2>1, <3>2
  <2>4. cache'[k] = before \o after
    BY <1>0, <1>1
  <2>5. /\ Len(cache'[k]) = i - 1 + (n - i)
        /\ \A j \in 1 .. i - 1 + (n - i) :
              cache'[k][j] = IF j <= i - 1 THEN before[j] ELSE after[j - (i - 1)]
    <3>1. /\ Len(before \o after) = Len(before) + Len(after)
          /\ \A j \in 1 .. Len(before) + Len(after) : (before \o after)[j] =
                IF j <= Len(before) THEN before[j] ELSE after[j - Len(before)]
      BY <2>2, <2>3, ConcatProperties
    <3>2. Len(before) = i - 1 /\ Len(after) = n - i
      BY <2>2, <2>3
    <3>3. QED
      BY <2>4, <3>1, <3>2
  <2>6. ASSUME NEW j \in 1 .. Len(cache'[k])
        PROVE  \E l \in 1 .. n : l # i /\ cache'[k][j] = c[l]
    <3>1. CASE j <= i - 1
      BY <2>1, <2>2, <2>5, <3>1
    <3>2. CASE j > i - 1
      <4>1. j + 1 \in 1 .. n /\ j + 1 # i /\ cache'[k][j] = c[j + 1]
        BY <2>1, <2>3, <2>5, <3>2
      <4>2. QED
        BY <4>1
    <3>3. QED
      BY <2>1, <2>5, <3>1, <3>2
  <2>7. QED
    BY <2>6
<1>4. Usable(k)' = {}
  <2>1. ASSUME NEW l \in 1 .. Len(cache[k]), l # i PROVE cache[k][l].stuck
    BY <1>1, <2>1 DEF CacheInv, OneUsable, Usable
  <2>2. QED
    BY <1>3, <2>1 DEF Usable
<1>5. Contents'
  <2>1. ASSUME NEW q \in Keys, NEW j \in 1 .. Len(cache'[q])
        PROVE  Recorded(q, cache'[q][j].ver, cache'[q][j].val)
    <3>1. CASE q = k
      BY <1>3, <3>1 DEF CacheInv, Contents
    <3>2. CASE q # k
      BY <1>2, <3>2 DEF CacheInv, Contents
    <3>3. QED
      BY <3>1, <3>2
  <2>2. QED
    BY <1>0, <2>1 DEF Contents, Recorded
<1>6. InMotion' /\ \A q \in Keys : NewestComes(q)'
  <2>1. \A u \in Threads : Mine(u)' = Mine(u)
    BY <1>0 DEF Mine, Positions
  <2>2. \A u \in Threads, q \in Keys :
           Moving(u, q)' = Moving(u, q) /\ Carries(u, q)' = Carries(u, q)
    BY <1>0, <2>1 DEF Moving, Carries, At
  <2>3. InMotion'
    BY <1>0, <2>2 DEF CacheInv, InMotion, Recorded
  <2>4. \A q \in Keys : Version(q)' = Version(q) /\ NewestComes(q)
    BY <1>0 DEF CacheInv, Version
  <2>5. \A q \in Keys : NewestComes(q)'
    BY <1>0, <2>2, <2>4 DEF NewestComes
  <2>6. QED
    BY <2>3, <2>5
<1>7. ASSUME NEW q \in Keys PROVE OneUsable(q)' /\ UsableIsNewest(q)'
  <2>1. CASE q = k
    BY <1>4, <2>1 DEF OneUsable, UsableIsNewest
  <2>2. CASE q # k
    <3>1. cache'[q] = cache[q]
      BY <1>2, <2>2
    <3>2. Usable(q)' = Usable(q) /\ OneUsable(q) /\ UsableIsNewest(q)
      BY <3>1 DEF Usable, CacheInv
    <3>3. QED
      BY <1>0, <3>1, <3>2 DEF OneUsable, UsableIsNewest
  <2>3. QED
    BY <2>1, <2>2
<1>8. QED
  BY <1>5, <1>6, <1>7 DEF CacheInv

-----------------------------------------------------------------------------
(* The theorem. *)

LEMMA CacheInvInit ==
    ASSUME Init
    PROVE  CacheInv
<1>1. \A k \in Keys : Len(cache[k]) = 0 /\ Len(ssd[k]) = 0 /\ cachedMost[k] = NoVersion
  BY EmptySeq DEF Init
<1>2. \A t \in Threads, k \in Keys : ~Moving(t, k)
  BY DEF Init, Moving, At, Start
<1>3. \A k \in Keys : Usable(k) = {} /\ Version(k) = NoVersion
  BY <1>1 DEF Usable, Version, NoVersion
<1>4. Contents /\ InMotion
  BY <1>1, <1>2 DEF Contents, InMotion
<1>5. \A k \in Keys : OneUsable(k) /\ NewestComes(k) /\ UsableIsNewest(k)
  BY <1>1, <1>3 DEF OneUsable, NewestComes, UsableIsNewest, NoVersion
<1>6. QED
  BY <1>4, <1>5 DEF CacheInv

LEMMA CacheInvStep ==
    ASSUME IInv, IInv', [Next]_vars, CacheInv
    PROVE  CacheInv'
<1>0. /\ th \in [Threads -> Thread] /\ Workers \subseteq Threads
      /\ \A t \in Threads : th[t].then \in {"idle", "claim", "append", "reply"}
  BY Types, WorkersAreThreads DEF Thread
<1>1. ASSUME NEW w \in Workers, NEW m \in Messages, Drop(w, m), Next PROVE CacheInv'
  BY <1>0, <1>1, QuietKeeps DEF Drop, At
<1>2. ASSUME NEW w \in Workers, NEW m \in Messages, Request(w, m), Next PROVE CacheInv'
  <2>1. th'[w].pc \in {"find", "supersede"} /\ th[w].pc = "idle"
    BY <1>0, <1>2 DEF Request, At, Start
  <2>2. \A u \in Threads \ {w} : th'[u] = th[u]
    BY <1>0, <1>2 DEF Request
  <2>3. QED
    BY <1>0, <1>2, <2>1, <2>2, QuietKeeps DEF Request
<1>3. ASSUME NEW w \in Workers, ServeSet(w), Next PROVE CacheInv'
  <2>1. /\ th[w].pc \in {"supersede", "append"}
        /\ th'[w].pc \in {"append", "invalidate", "claim", "idle"}
        /\ \A u \in Threads \ {w} : th'[u] = th[u]
    <3>1. CASE Supersede(w)
      BY <1>0, <3>1 DEF Supersede, At
    <3>2. CASE AppendItem(w)
      BY <1>0, <3>2 DEF AppendItem, At, Start
    <3>3. CASE NoRoom(w)
      BY <1>0, <3>3 DEF NoRoom, At
    <3>4. QED
      BY <1>3, <3>1, <3>2, <3>3 DEF ServeSet
  <2>2. UNCHANGED <<ssd, cache, cachedMost>> /\ ("stale" \notin harm' => "stale" \notin harm)
    BY <1>3 DEF ServeSet, Supersede, AppendItem, NoRoom, history
  <2>3. QED
    BY <1>0, <1>3, <2>1, <2>2, QuietKeeps
<1>4. ASSUME NEW w \in Workers, GetLog(w) \/ GetCached(w) \/ Reply(w), Next PROVE CacheInv'
  <2>1. /\ th[w].pc \in {"find", "cached", "reply"}
        /\ th'[w].pc \in {"cached", "invalidate", "read", "reply", "idle", "claim"}
        /\ \A u \in Threads \ {w} : th'[u] = th[u]
    <3>1. CASE GetLog(w)
      BY <1>0, <3>1 DEF GetLog, At
    <3>2. CASE GetCached(w)
      BY <1>0, <3>2 DEF GetCached, At
    <3>3. CASE Reply(w)
      BY <1>0, <3>3 DEF Reply, At, Start
    <3>4. QED
      BY <1>4, <3>1, <3>2, <3>3
  <2>2. UNCHANGED <<ssd, cache, cachedMost>> /\ ("stale" \notin harm' => "stale" \notin harm)
    BY <1>4 DEF GetLog, GetCached, Reply, history
  <2>3. QED
    BY <1>0, <1>4, <2>1, <2>2, QuietKeeps
<1>5. ASSUME NEW w \in Workers, Fill(w), Next PROVE CacheInv'
  <2>1. /\ th[w].pc = "fill" /\ th'[w].pc = "reply" /\ th[w].key \in Keys
        /\ \A u \in Threads \ {w} : th'[u] = th[u]
    BY <1>0, <1>5 DEF Fill, At, Goto, IInv, FieldsFit
  <2>2. Moving(w, th[w].key)
    BY <2>1 DEF Moving, At
  <2>3. QED
    BY <1>0, <1>5, <2>1, <2>2, CachingKeeps DEF Fill
<1>6. ASSUME NEW t \in Threads, CacheStored(t), Next PROVE CacheInv'
  <2>1. /\ th[t].pc = "cache" /\ th'[t].pc = "consume"
        /\ \A u \in Threads \ {t} : th'[u] = th[u]
    BY <1>0, <1>6 DEF CacheStored, At
  <2>2. log[Mine(t)].key \in Keys /\ Moving(t, log[Mine(t)].key)
    BY <2>1, MineIsMine DEF Writing, Item, Moving, At
  <2>3. QED
    BY <1>6, <2>1, <2>2, CachingKeeps DEF CacheStored
<1>7. ASSUME NEW t \in Threads,
             Claim(t) \/ ClaimNothing(t) \/ Consume(t) \/ Invalidate(t), Next
      PROVE  CacheInv'
  <2>1. /\ th[t].pc \in {"claim", "consume", "invalidate"}
        /\ th'[t].pc \in {"store", "invalidate", "idle", "claim", "append", "reply"}
        /\ \A u \in Threads \ {t} : th'[u] = th[u]
    <3>1. CASE Claim(t)
      BY <1>0, <3>1 DEF Claim, At
    <3>2. CASE ClaimNothing(t)
      BY <1>0, <3>2 DEF ClaimNothing, At, Goto
    <3>3. CASE Consume(t)
      BY <1>0, <3>3 DEF Consume, At
    <3>4. CASE Invalidate(t)
      BY <1>0, <3>4 DEF Invalidate, At, Goto
    <3>5. QED
      BY <1>7, <3>1, <3>2, <3>3, <3>4
  <2>2. UNCHANGED <<ssd, cache, cachedMost>> /\ ("stale" \notin harm' => "stale" \notin harm)
    BY <1>7 DEF Claim, ClaimNothing, Consume, Invalidate, history
  <2>3. QED
    BY <1>7, <2>1, <2>2, QuietKeeps
<1>8. CASE UNCHANGED vars
  <2>1. UNCHANGED <<log, ssd, cache, th, cachedMost, harm>>
    BY <1>8 DEF vars
  <2>2. \A u \in Threads : Mine(u)' = Mine(u)
    BY <2>1 DEF Mine, Positions
  <2>3. \A u \in Threads, q \in Keys :
           Moving(u, q)' = Moving(u, q) /\ Carries(u, q)' = Carries(u, q)
    BY <2>1, <2>2 DEF Moving, Carries, At
  <2>4. Contents'
    BY <2>1 DEF CacheInv, Contents, Recorded
  <2>5. InMotion'
    BY <2>1, <2>3 DEF CacheInv, InMotion, Recorded
  <2>6. \A q \in Keys : Version(q)' = Version(q) /\ NewestComes(q)
    BY <2>1 DEF CacheInv, Version
  <2>7. \A q \in Keys : NewestComes(q)'
    BY <2>1, <2>3, <2>6 DEF NewestComes
  <2>8. \A q \in Keys : OneUsable(q)' /\ UsableIsNewest(q)'
    BY <2>1 DEF CacheInv, OneUsable, UsableIsNewest, Usable
  <2>9. QED
    BY <2>4, <2>5, <2>7, <2>8 DEF CacheInv
<1>9. CASE Next
  BY <1>1, <1>2, <1>3, <1>4, <1>5, <1>6, <1>7, <1>9, StoreKeeps, ReadKeeps, EvictKeeps
  DEF Next, ServeGet, WriteOut
<1>10. QED
  BY <1>8, <1>9

\* With no write-out and no fill of a key under way, an item of the cache that
\* answers for the key has the version and the value of the SSD, unless a version
\* was cached after a newer one had been evicted (database.c:25, ram_ht.c:474).
THEOREM CacheAgreement == Spec => []CacheAgrees
<1>1. IInv /\ CacheInv => CacheAgrees
  <2>1. SUFFICES ASSUME IInv, CacheInv, "stale" \notin harm, NEW k \in Keys,
                        \A t \in Threads : ~Moving(t, k), NEW i \in Usable(k)
                 PROVE  /\ cache[k][i].ver = Version(k)
                        /\ cache[k][i].val = ssd[k][Len(ssd[k])]
    BY DEF CacheAgrees
  <2>2. cachedMost[k] = Version(k)
    BY <2>1 DEF CacheInv, NewestComes, Carries, Moving
  <2>3. cache[k][i].ver = Version(k)
    BY <2>1, <2>2 DEF CacheInv, UsableIsNewest
  <2>4. Recorded(k, cache[k][i].ver, cache[k][i].val) /\ Len(ssd[k]) \in Nat
    BY <2>1, Types DEF CacheInv, Contents, Usable
  <2>5. QED
    BY <2>3, <2>4 DEF Recorded, Version
<1>2. QED
  BY <1>1, InvInit, InvStep, CacheInvInit, CacheInvStep, PTL DEF Spec

-----------------------------------------------------------------------------
(* What the parts of the server know of a key. *)

\* A version with this value or a later one is stored, and has been cached.
Settled(k, v) ==
    \/ v = NoValue
    \/ \E i \in 1 .. Len(ssd[k]) : ssd[k][i] >= v /\ i <= cachedMost[k] + 1

LiveIsNewest == \A i \in Positions : log[i].live => log[i].val = newest[log[i].key]

StoredInOrder ==
    \A k \in Keys : \A i, j \in 1 .. Len(ssd[k]) : i <= j => ssd[k][i] <= ssd[k][j]

InLog(k) == \E i \in Positions : log[i].live /\ log[i].key = k

Somewhere(k) == InLog(k) \/ SetUnderWay(k) \/ Settled(k, newest[k])

Brings(t) ==
    /\ At(t, "cache") => th[t].val = log[Mine(t)].val
    /\ At(t, "consume") => Settled(log[Mine(t)].key, log[Mine(t)].val)

\* What a GET can rely on after each layer it has asked.
GetOnTheWay(w) ==
    /\ At(w, "find") => th[w].promised <= newest[th[w].key]
    /\ th[w].pc \in {"cached", "read"} => Settled(th[w].key, th[w].promised)
    /\ \/ th[w].pc \in {"fill", "reply"}
       \/ At(w, "invalidate") /\ th[w].then = "reply"
       => th[w].val >= th[w].promised

\* A SET does not end before its item is in the log, and a worker comes to
\* write out items only from there.
OnTheWay(w) ==
    /\ th[w].then # "claim"
    /\ th[w].pc \in {"claim", "store", "cache", "consume"} => th[w].then = "append"
    /\ At(w, "supersede") => th[w].op = "set"
    /\ th[w].op = "set" =>
          \/ At(w, "supersede")
          \/ /\ th[w].pc \in {"append", "claim", "store", "cache", "consume", "invalidate"}
             /\ th[w].then = "append"

FreshCore ==
    /\ LiveIsNewest /\ StoredInOrder
    /\ \A k \in Keys : Somewhere(k)
    /\ \A t \in Threads : Brings(t)
    /\ \A w \in Workers : GetOnTheWay(w)

FreshInv ==
    /\ \A w \in Workers : OnTheWay(w)
    /\ harm = {} => FreshCore

-----------------------------------------------------------------------------
(* Who moves, and how. *)

Serves(w) == \/ \E m \in Messages : Request(w, m)
             \/ ServeSet(w) \/ ServeGet(w)

\* A thread changes its place by its own steps only.
LEMMA OwnStep ==
    ASSUME IInv, Next, NEW t \in Threads, th'[t] # th[t]
    PROVE  (t \in Workers /\ Serves(t)) \/ WriteOut(t)
<1>0. th \in [Threads -> Thread] /\ Workers \subseteq Threads
  BY Types, WorkersAreThreads
<1>1. ASSUME NEW w \in Workers, w # t, NEW m \in Messages, Drop(w, m) \/ Request(w, m)
      PROVE  FALSE
  BY <1>0, <1>1 DEF Drop, Request
<1>2. ASSUME NEW w \in Workers, w # t, ServeSet(w) PROVE FALSE
  BY <1>0, <1>2 DEF ServeSet, Supersede, AppendItem, NoRoom
<1>3. ASSUME NEW w \in Workers, w # t, ServeGet(w) PROVE FALSE
  <2>1. th' = [th EXCEPT ![w] = th'[w]]
    BY <1>0, <1>3 DEF ServeGet, GetLog, GetCached, GetStored, Fill, Goto, Reply
  <2>2. QED
    BY <1>0, <1>3, <2>1
<1>4. ASSUME NEW u \in Threads, u # t, WriteOut(u) PROVE FALSE
  <2>1. th' = [th EXCEPT ![u] = th'[u]]
    BY <1>0, <1>4 DEF WriteOut, Claim, ClaimNothing, Goto, Store, CacheStored, Consume,
                      Invalidate
  <2>2. QED
    BY <1>0, <1>4, <2>1
<1>5. ASSUME NEW k \in Keys, Evict(k) PROVE FALSE
  BY <1>5 DEF Evict
<1>6. ASSUME NEW m \in Messages, Drop(t, m) PROVE FALSE
  BY <1>6 DEF Drop
<1>7. QED
  BY <1>1, <1>2, <1>3, <1>4, <1>5, <1>6 DEF Next, Serves

LEMMA OnTheWayKept ==
    ASSUME IInv, Next, NEW w \in Workers, OnTheWay(w)
    PROVE  OnTheWay(w)'
<1>0. /\ w \in Threads /\ th \in [Threads -> Thread] /\ w # Maint
      /\ th[w].then \in {"idle", "claim", "append", "reply"}
  BY Types, WorkersAreThreads, ThreadsAssumption DEF Thread
<1>start. Start(w).then = "idle" /\ Start(w).pc = "idle" /\ Start(w).op = "get"
  BY <1>0 DEF Start
<1>1. CASE th'[w] = th[w]
  BY <1>1 DEF OnTheWay, At
<1>2. ASSUME NEW m \in Messages, Request(w, m) PROVE OnTheWay(w)'
  <2>1. /\ th'[w].then = "idle" /\ th'[w].op = m.op
        /\ th'[w].pc = IF m.op = "get" THEN "find" ELSE "supersede"
        /\ m.op \in {"get", "set"}
    BY <1>0, <1>2 DEF Request, Dropped, Start
  <2>2. QED
    BY <2>1 DEF OnTheWay, At
<1>3. CASE ServeSet(w)
  <2>1. CASE Supersede(w)
    BY <1>0, <2>1 DEF Supersede, OnTheWay, At
  <2>2. CASE AppendItem(w)
    <3>1. th'[w] = Start(w)
      BY <1>0, <2>2 DEF AppendItem
    <3>2. QED
      BY <1>start, <3>1 DEF OnTheWay, At
  <2>3. CASE NoRoom(w)
    BY <1>0, <2>3 DEF NoRoom, OnTheWay, At
  <2>4. QED
    BY <1>3, <2>1, <2>2, <2>3 DEF ServeSet
<1>4. CASE ServeGet(w)
  <2>1. CASE Reply(w)
    <3>1. th'[w] = Start(w)
      BY <1>0, <2>1 DEF Reply
    <3>2. QED
      BY <1>start, <3>1 DEF OnTheWay, At
  <2>2. CASE GetLog(w) \/ GetCached(w) \/ GetStored(w) \/ Fill(w)
    <3>1. th[w].pc \in {"find", "cached", "read", "fill"} /\ th[w].op # "set"
      BY <2>2 DEF GetLog, GetCached, GetStored, Fill, OnTheWay, At
    <3>2. /\ th'[w].op = th[w].op
          /\ th'[w].pc \in {"cached", "invalidate", "read", "reply", "fill"}
          /\ th'[w].then = th[w].then \/ th'[w].then = "reply"
      <4>1. CASE GetLog(w)
        BY <1>0, <4>1 DEF GetLog
      <4>2. CASE GetCached(w)
        BY <1>0, <4>2 DEF GetCached
      <4>3. CASE GetStored(w)
        BY <1>0, <4>3 DEF GetStored
      <4>4. CASE Fill(w)
        BY <1>0, <4>4 DEF Fill, Goto
      <4>5. QED
        BY <2>2, <4>1, <4>2, <4>3, <4>4
    <3>3. QED
      BY <3>1, <3>2 DEF OnTheWay, At
  <2>3. QED
    BY <1>4, <2>1, <2>2 DEF ServeGet
<1>5. CASE WriteOut(w)
  <2>1. CASE Invalidate(w)
    <3>1. th[w].pc = "invalidate" /\ th'[w] = [th[w] EXCEPT !.pc = th[w].then]
      BY <1>0, <2>1 DEF Invalidate, Goto, At
    <3>2. th'[w].pc = th[w].then /\ th'[w].then = th[w].then /\ th'[w].op = th[w].op
      BY <1>0, <3>1 DEF Thread
    <3>3. QED
      BY <1>0, <3>1, <3>2 DEF OnTheWay, At
  <2>2. CASE ~Invalidate(w)
    <3>1. th[w].pc \in {"claim", "store", "cache", "consume"}
      BY <1>5, <2>2 DEF WriteOut, Claim, ClaimNothing, Store, CacheStored, Consume, At
    <3>2. /\ th'[w].op = th[w].op /\ th'[w].then = th[w].then
          /\ th'[w].pc \in {"store", "cache", "consume", "invalidate"}
      <4>1. CASE Claim(w)
        BY <1>0, <4>1 DEF Claim
      <4>2. CASE ClaimNothing(w)
        BY <1>0, <4>2 DEF ClaimNothing, Goto
      <4>3. CASE Store(w)
        BY <1>0, <4>3 DEF Store
      <4>4. CASE CacheStored(w)
        BY <1>0, <4>4 DEF CacheStored
      <4>5. CASE Consume(w)
        BY <1>0, <4>5 DEF Consume
      <4>6. QED
        BY <1>5, <2>2, <4>1, <4>2, <4>3, <4>4, <4>5 DEF WriteOut
    <3>3. QED
      BY <3>1, <3>2 DEF OnTheWay, At
  <2>3. QED
    BY <2>1, <2>2
<1>6. QED
  BY <1>0, <1>1, <1>2, <1>3, <1>4, <1>5, OwnStep DEF Serves

\* A window once met is recorded for good.
LEMMA HarmStays ==
    ASSUME Next
    PROVE  harm \subseteq harm'
BY DEF Next, Drop, Request, ServeSet, Supersede, AppendItem, NoRoom, ServeGet, GetLog,
       GetCached, GetStored, Fill, Reply, WriteOut, Claim, ClaimNothing, Store,
       CacheStored, Consume, Invalidate, Evict, NoteCached, history

-----------------------------------------------------------------------------
(* SSD and cache only get newer. *)

\* What ssd_ht_set does to the SSD, and any other step.
LEMMA SsdStep ==
    ASSUME IInv, Next, NEW k \in Keys
    PROVE  \/ ssd'[k] = ssd[k]
           \/ \E t \in Threads : /\ Store(t) /\ log[Mine(t)].key = k
                                 /\ ssd'[k] = Append(ssd[k], log[Mine(t)].val)
                                 /\ log[Mine(t)].val \in Nat
<1>1. ASSUME NEW t \in Threads, Store(t)
      PROVE  \/ ssd'[k] = ssd[k]
             \/ /\ Store(t) /\ log[Mine(t)].key = k
                /\ ssd'[k] = Append(ssd[k], log[Mine(t)].val)
                /\ log[Mine(t)].val \in Nat
  <2>1. log[Mine(t)].key \in Keys /\ log[Mine(t)].val \in Nat
    BY <1>1, MineIsMine DEF Store, At, Writing, Item
  <2>2. QED
    BY <1>1, <2>1, Types DEF Store
<1>2. QED
  BY <1>1 DEF Next, Drop, Request, ServeSet, Supersede, AppendItem, NoRoom, ServeGet, GetLog,
       GetCached, GetStored, Fill, Reply, WriteOut, Claim, ClaimNothing,
       CacheStored, Consume, Invalidate, Evict

LEMMA SsdGrows ==
    ASSUME IInv, Next, NEW k \in Keys
    PROVE  /\ Len(ssd[k]) \in Nat /\ Len(ssd'[k]) \in Nat /\ Len(ssd[k]) <= Len(ssd'[k])
           /\ \A i \in 1 .. Len(ssd[k]) : ssd'[k][i] = ssd[k][i]
<1>1. ssd[k] \in Seq(Nat) /\ Len(ssd[k]) \in Nat
  BY Types
<1>2. CASE ssd'[k] = ssd[k]
  BY <1>1, <1>2
<1>3. ASSUME NEW v \in Nat, ssd'[k] = Append(ssd[k], v)
      PROVE  /\ Len(ssd'[k]) = Len(ssd[k]) + 1
             /\ \A i \in 1 .. Len(ssd[k]) : ssd'[k][i] = ssd[k][i]
  BY <1>1, <1>3, AppendProperties
<1>4. QED
  BY <1>1, <1>2, <1>3, SsdStep

LEMMA CachedMostGrows ==
    ASSUME IInv, Next, NEW k \in Keys
    PROVE  /\ cachedMost[k] \in Int /\ cachedMost'[k] \in Int
           /\ cachedMost[k] <= cachedMost'[k]
<1>0. cachedMost \in [Keys -> Nat \cup {NoVersion}] /\ cachedMost[k] \in Int
  BY Types DEF NoVersion
<1>1. ASSUME NEW q, NEW ver \in Nat, NoteCached(q, ver)
      PROVE  cachedMost'[k] \in Int /\ cachedMost[k] <= cachedMost'[k]
  <2>1. cachedMost' = [cachedMost EXCEPT ![q] = IF ver > cachedMost[q] THEN ver
                                                ELSE cachedMost[q]]
    BY <1>1 DEF NoteCached
  <2>2. QED
    BY <1>0, <2>1
<1>2. ASSUME NEW w \in Workers, Fill(w)
      PROVE  cachedMost'[k] \in Int /\ cachedMost[k] <= cachedMost'[k]
  <2>1. th[w].ver \in Nat
    BY <1>2, WorkersAreThreads DEF Fill, At, IInv, FieldsFit
  <2>2. QED
    BY <1>1, <1>2, <2>1 DEF Fill
<1>3. ASSUME NEW t \in Threads, CacheStored(t)
      PROVE  cachedMost'[k] \in Int /\ cachedMost[k] <= cachedMost'[k]
  <2>1. th[t].ver \in Nat
    BY <1>3 DEF CacheStored, At, IInv, FieldsFit
  <2>2. QED
    BY <1>1, <1>3, <2>1 DEF CacheStored
<1>4. \/ cachedMost' = cachedMost
      \/ \E w \in Workers : Fill(w)
      \/ \E t \in Threads : CacheStored(t)
  BY DEF Next, Drop, Request, ServeSet, Supersede, AppendItem, NoRoom, ServeGet, GetLog,
       GetCached, GetStored, Reply, WriteOut, Claim, ClaimNothing, Store,
       Consume, Invalidate, Evict, history
<1>5. QED
  BY <1>0, <1>2, <1>3, <1>4

LEMMA SettledStays ==
    ASSUME IInv, Next, NEW k \in Keys, NEW v, Settled(k, v)
    PROVE  Settled(k, v)'
<1>1. ASSUME NEW i \in 1 .. Len(ssd[k]), ssd[k][i] >= v, i <= cachedMost[k] + 1
      PROVE  /\ i \in 1 .. Len(ssd'[k]) /\ ssd'[k][i] >= v
             /\ i <= cachedMost'[k] + 1
  BY <1>1, SsdGrows, CachedMostGrows
<1>2. QED
  BY <1>1 DEF Settled

\* Two values of a key reach the SSD in their order, or the window is recorded.
LEMMA StoredInOrderKept ==
    ASSUME IInv, Next, StoredInOrder, harm' = {}
    PROVE  StoredInOrder'
<1> SUFFICES ASSUME NEW k \in Keys, NEW i \in 1 .. Len(ssd'[k]),
                    NEW j \in 1 .. Len(ssd'[k]), i <= j
             PROVE  ssd'[k][i] <= ssd'[k][j]
  BY DEF StoredInOrder
<1>0. ssd[k] \in Seq(Nat) /\ Len(ssd[k]) \in Nat
      /\ \A l \in 1 .. Len(ssd[k]) : ssd[k][l] \in Nat
  BY Types, ElementOfSeq
<1>1. CASE ssd'[k] = ssd[k]
  BY <1>1 DEF StoredInOrder
<1>2. ASSUME NEW t \in Threads, Store(t), log[Mine(t)].key = k,
             ssd'[k] = Append(ssd[k], log[Mine(t)].val), log[Mine(t)].val \in Nat
      PROVE  ssd'[k][i] <= ssd'[k][j]
  <2> DEFINE v == log[Mine(t)].val
  <2>1. /\ Len(ssd'[k]) = Len(ssd[k]) + 1 /\ ssd'[k][Len(ssd[k]) + 1] = v
        /\ \A l \in 1 .. Len(ssd[k]) : ssd'[k][l] = ssd[k][l]
    BY <1>0, <1>2, AppendProperties
  <2>2. \A l \in 1 .. Len(ssd[k]) : ~(ssd[k][l] > v)
    BY <1>2 DEF Store
  <2>3. CASE j \in 1 .. Len(ssd[k])
    <3>1. i \in 1 .. Len(ssd[k])
      BY <1>0, <2>1, <2>3
    <3>2. ssd[k][i] <= ssd[k][j]
      BY <2>3, <3>1 DEF StoredInOrder
    <3>3. QED
      BY <2>1, <2>3, <3>1, <3>2
  <2>4. CASE j = Len(ssd[k]) + 1 /\ i \in 1 .. Len(ssd[k])
    BY <1>0, <1>2, <2>1, <2>2, <2>4
  <2>5. CASE j = Len(ssd[k]) + 1 /\ i = Len(ssd[k]) + 1
    BY <1>0, <1>2, <2>1, <2>5
  <2>6. QED
    BY <1>0, <2>1, <2>3, <2>4, <2>5
<1>3. QED
  BY <1>1, <1>2, SsdStep

-----------------------------------------------------------------------------
(* The items of the log. *)

LEMMA FoundNothing ==
    ASSUME IInv, NEW k \in Keys, Found(k) = {}
    PROVE  \A i \in Positions : ~(log[i].live /\ log[i].key = k)
<1> DEFINE S == {i \in Positions : log[i].live /\ log[i].key = k}
<1>1. S \in SUBSET Nat
  BY Types DEF Positions
<1>2. ASSUME S # {} PROVE FALSE
  <2>1. PICK m \in S : \A j \in S : m <= j
    BY <1>1, <1>2, LeastNumber
  <2>2. ASSUME NEW j \in 1 .. m - 1, log[j].live, log[j].key = k PROVE FALSE
    <3>1. j \in Positions /\ j < m
      BY <2>1, <2>2, Types DEF Positions
    <3>2. j \in S
      BY <2>2, <3>1
    <3>3. m <= j /\ m \in Nat /\ j \in Nat
      BY <1>1, <2>1, <3>2
    <3>4. QED
      BY <3>1, <3>3
  <2>3. m \in Found(k)
    BY <2>1, <2>2 DEF Found
  <2>4. QED
    BY <2>3
<1>3. QED
  BY <1>2

LEMMA FoundFirst ==
    ASSUME IInv, NEW k \in Keys, Found(k) # {}
    PROVE  /\ First(Found(k)) \in Positions
           /\ log[First(Found(k))].live /\ log[First(Found(k))].key = k
<1>1. Found(k) \in SUBSET Nat
  BY Types DEF Found, Positions
<1>2. First(Found(k)) \in Found(k)
  BY <1>1, LeastNumber DEF First
<1>3. QED
  BY <1>2 DEF Found

\* Only a SET that ends gives a key a new value.
LEMMA NewestStep ==
    ASSUME Next
    PROVE  newest' = newest \/ \E w \in Workers : AppendItem(w)
BY DEF Next, Drop, Request, ServeSet, Supersede, NoRoom, ServeGet, GetLog,
       GetCached, GetStored, Fill, Reply, WriteOut, Claim, ClaimNothing, Store,
       CacheStored, Consume, Invalidate, Evict, history

\* What the steps do to the log.
LEMMA LogStep ==
    ASSUME Next
    PROVE  \/ log' = log
           \/ \E w \in Workers : Supersede(w) \/ AppendItem(w)
           \/ \E t \in Threads : Claim(t) \/ Consume(t) \/ Invalidate(t)
BY DEF Next, Drop, Request, ServeSet, NoRoom, ServeGet, GetLog,
       GetCached, GetStored, Fill, Reply, WriteOut, ClaimNothing, Store,
       CacheStored, Evict

LEMMA AppendStep ==
    ASSUME IInv, NEW w \in Workers, AppendItem(w)
    PROVE  /\ th[w].key \in Keys /\ newest[th[w].key] \in Nat
           /\ Len(log) \in Nat /\ Len(log') = Len(log) + 1
           /\ \A i \in Positions : log'[i] = log[i]
           /\ log'[Len(log) + 1].key = th[w].key /\ log'[Len(log) + 1].live
           /\ log'[Len(log) + 1].val = newest[th[w].key] + 1
           /\ newest'[th[w].key] = newest[th[w].key] + 1
           /\ \A k \in Keys \ {th[w].key} : newest'[k] = newest[k]
<1> DEFINE k == th[w].key
           new == [id |-> FreshId, key |-> k, val |-> newest[k] + 1,
                   live |-> TRUE, busy |-> FALSE]
<1>1. /\ k \in Keys /\ newest \in [Keys -> Nat] /\ log \in Seq(Item)
      /\ Len(log) \in Nat
  BY Types, WorkersAreThreads DEF AppendItem, At, IInv, FieldsFit, TypeOK
<1>2. new \in Item
  BY <1>1, Types, FreshIdIsFresh DEF Item
<1>3. log' = Append(log, new) /\ newest' = [newest EXCEPT ![k] = newest[k] + 1]
  BY DEF AppendItem
<1>4. /\ Len(log') = Len(log) + 1 /\ log'[Len(log) + 1] = new
      /\ \A i \in 1 .. Len(log) : log'[i] = log[i]
  BY <1>1, <1>2, <1>3, AppendProperties
<1>5. QED
  BY <1>1, <1>3, <1>4 DEF Positions

LEMMA InvalidateStep ==
    ASSUME IInv, NEW t \in Threads, Invalidate(t)
    PROVE  \E n \in 0 .. Len(log) :
              /\ \A i \in 1 .. n : Released(log[i])
              /\ Len(log') = Len(log) - n
              /\ \A i \in 1 .. Len(log) - n : i + n \in Positions /\ log'[i] = log[i + n]
BY Types, LogAfterLeave DEF Invalidate

\* Without a new one, every item was there before, and no item comes to life.
LEMMA OldItems ==
    ASSUME IInv, Next, ~\E w \in Workers : AppendItem(w), NEW j \in Positions'
    PROVE  \E i \in Positions : /\ log'[j].key = log[i].key /\ log'[j].val = log[i].val
                                /\ log'[j].live => log[i].live
<1>0. /\ Len(log) \in Nat /\ log \in Seq(Item) /\ log \in [Positions -> Item]
      /\ \A i \in Positions : log[i] \in Item
  BY Types, LogItems DEF TypeOK
<1> DEFINE Goal == \E i \in Positions :
              /\ log'[j].key = log[i].key /\ log'[j].val = log[i].val
              /\ log'[j].live => log[i].live
<1>1. CASE log' = log
  BY <1>1 DEF Positions
<1>2. ASSUME NEW w \in Workers, Supersede(w) PROVE Goal
  <2>1. log' = [i \in Positions |-> IF i \in Found(th[w].key)
                                    THEN [log[i] EXCEPT !.live = FALSE] ELSE log[i]]
    BY <1>2 DEF Supersede
  <2>2. Len(log') = Len(log) /\ j \in Positions
    BY <1>0, <2>1 DEF Positions
  <2>3. log'[j] = [log[j] EXCEPT !.live = FALSE] \/ log'[j] = log[j]
    BY <2>1, <2>2
  <2>4. QED
    BY <1>0, <2>2, <2>3 DEF Item
<1>3. ASSUME NEW t \in Threads, Claim(t) PROVE Goal
  <2>1. log' = [log EXCEPT ![next + 1] = [log[next + 1] EXCEPT !.busy = TRUE]]
    BY <1>3 DEF Claim
  <2>2. Len(log') = Len(log) /\ j \in Positions
    BY <1>0, <2>1 DEF Positions
  <2>3. log'[j] = [log[j] EXCEPT !.busy = TRUE] \/ log'[j] = log[j]
    BY <1>0, <2>1, <2>2
  <2>4. QED
    BY <1>0, <2>2, <2>3 DEF Item
<1>4. ASSUME NEW t \in Threads, Consume(t) PROVE Goal
  <2>1. log' = [log EXCEPT ![Mine(t)] =
                   [log[Mine(t)] EXCEPT !.live = FALSE, !.busy = FALSE]]
    BY <1>4 DEF Consume
  <2>2. Len(log') = Len(log) /\ j \in Positions
    BY <1>0, <2>1 DEF Positions
  <2>3. log'[j] = [log[j] EXCEPT !.live = FALSE, !.busy = FALSE] \/ log'[j] = log[j]
    BY <1>0, <2>1, <2>2
  <2>4. QED
    BY <1>0, <2>2, <2>3 DEF Item
<1>5. ASSUME NEW t \in Threads, Invalidate(t) PROVE Goal
  BY <1>0, <1>5, InvalidateStep DEF Positions
<1>6. QED
  BY <1>1, <1>2, <1>3, <1>4, <1>5, LogStep

\* A live item stays so, unless a SET of its key supersedes it or the thread that
\* has brought it to SSD and cache consumes it.
LEMMA LiveStays ==
    ASSUME IInv, Next, NEW k, NEW i \in Positions, log[i].live, log[i].key = k
    PROVE  \/ InLog(k)'
           \/ \E w \in Workers : Supersede(w) /\ th[w].key = k
           \/ \E t \in Threads : Consume(t) /\ Mine(t) = i
<1>0. /\ Len(log) \in Nat /\ log \in Seq(Item) /\ log \in [Positions -> Item]
      /\ \A l \in Positions : log[l] \in Item
  BY Types, LogItems DEF TypeOK
<1>stays. ASSUME NEW j \in Positions', log'[j].live, log'[j].key = k
          PROVE  InLog(k)'
  BY <1>stays DEF InLog
<1>1. CASE log' = log
  BY <1>1, <1>stays DEF Positions
<1>2. ASSUME NEW w \in Workers, Supersede(w), th[w].key # k
      PROVE  InLog(k)'
  <2>1. log' = [l \in Positions |-> IF l \in Found(th[w].key)
                                    THEN [log[l] EXCEPT !.live = FALSE] ELSE log[l]]
    BY <1>2 DEF Supersede
  <2>2. Len(log') = Len(log)
    BY <1>0, <2>1 DEF Positions
  <2>3. i \notin Found(th[w].key)
    BY <1>2 DEF Found
  <2>4. QED
    BY <2>1, <2>2, <2>3, <1>stays DEF Positions
<1>3. ASSUME NEW w \in Workers, AppendItem(w) PROVE InLog(k)'
  <2>1. Len(log') = Len(log) + 1 /\ log'[i] = log[i]
    BY <1>3, AppendStep
  <2>2. i \in Positions'
    BY <1>0, <2>1 DEF Positions
  <2>3. QED
    BY <2>1, <2>2, <1>stays
<1>4. ASSUME NEW t \in Threads, Claim(t) PROVE InLog(k)'
  <2>1. log' = [log EXCEPT ![next + 1] = [log[next + 1] EXCEPT !.busy = TRUE]]
    BY <1>4 DEF Claim
  <2>2. Len(log') = Len(log)
    BY <1>0, <2>1 DEF Positions
  <2>3. log'[i] = [log[i] EXCEPT !.busy = TRUE] \/ log'[i] = log[i]
    BY <1>0, <2>1
  <2>4. log'[i].live /\ log'[i].key = log[i].key
    BY <1>0, <2>3 DEF Item
  <2>5. QED
    BY <2>2, <2>4, <1>stays DEF Positions
<1>5. ASSUME NEW t \in Threads, Consume(t), Mine(t) # i PROVE InLog(k)'
  <2>1. log' = [log EXCEPT ![Mine(t)] =
                   [log[Mine(t)] EXCEPT !.live = FALSE, !.busy = FALSE]]
    BY <1>5 DEF Consume
  <2>2. Len(log') = Len(log) /\ log'[i] = log[i]
    BY <1>0, <1>5, <2>1 DEF Positions
  <2>3. QED
    BY <2>2, <1>stays DEF Positions
<1>6. ASSUME NEW t \in Threads, Invalidate(t) PROVE InLog(k)'
  <2>1. PICK n \in 0 .. Len(log) :
           /\ \A l \in 1 .. n : Released(log[l])
           /\ Len(log') = Len(log) - n
           /\ \A l \in 1 .. Len(log) - n : l + n \in Positions /\ log'[l] = log[l + n]
    BY <1>6, InvalidateStep
  <2>2. i > n /\ n \in Nat
    BY <1>0, <2>1 DEF Released, Positions
  <2>3. i - n \in Positions' /\ log'[i - n] = log[i]
    BY <1>0, <2>1, <2>2 DEF Positions
  <2>4. QED
    BY <2>3, <1>stays
<1>7. QED
  BY <1>1, <1>2, <1>3, <1>4, <1>5, <1>6, LogStep

\* A live item has its key's newest value: when the next one is appended, no
\* other is live, or the window is recorded.
LEMMA LiveIsNewestKept ==
    ASSUME IInv, Next, LiveIsNewest, harm' = {}
    PROVE  LiveIsNewest'
<1>1. ASSUME NEW w \in Workers, AppendItem(w) PROVE LiveIsNewest'
  <2> SUFFICES ASSUME NEW j \in Positions', log'[j].live
               PROVE  log'[j].val = newest'[log'[j].key]
    BY DEF LiveIsNewest
  <2>1. Found(th[w].key) = {}
    BY <1>1 DEF AppendItem
  <2>2. CASE j \in Positions
    <3>1. log'[j] = log[j] /\ log[j].key \in Keys
      BY <1>1, <2>2, AppendStep, Types DEF Item
    <3>2. log[j].key # th[w].key
      BY <1>1, <2>1, <2>2, <3>1, FoundNothing, AppendStep
    <3>3. newest'[log[j].key] = newest[log[j].key]
      BY <1>1, <3>1, <3>2, AppendStep
    <3>4. QED
      BY <2>2, <3>1, <3>3 DEF LiveIsNewest
  <2>3. CASE j = Len(log) + 1
    BY <1>1, <2>3, AppendStep
  <2>4. j \in Positions \/ j = Len(log) + 1
    BY <1>1, AppendStep DEF Positions
  <2>5. QED
    BY <2>2, <2>3, <2>4
<1>2. CASE ~\E w \in Workers : AppendItem(w)
  <2>1. newest' = newest
    BY <1>2, NewestStep
  <2>2. QED
    BY <1>2, <2>1, OldItems DEF LiveIsNewest
<1>3. QED
  BY <1>1, <1>2

-----------------------------------------------------------------------------
(* The threads that write out. *)

\* A thread brings the value of its item to SSD and cache before it consumes it.
LEMMA BringsKept ==
    ASSUME IInv, IInv', Next, CacheInv, NEW t \in Threads, Brings(t)
    PROVE  Brings(t)'
<1>0. /\ th \in [Threads -> Thread] /\ th[t] \in Thread
      /\ th[t].then \in {"idle", "claim", "append", "reply"}
  BY Types DEF Thread
<1>1. CASE th'[t] = th[t]
  <2>1. ASSUME th[t].pc = "cache" PROVE th'[t].val = log'[Mine(t)'].val
    <3>1. log'[Mine(t)'].val = log[Mine(t)].val
      BY <1>1, <2>1, ItemKept DEF Writing
    <3>2. QED
      BY <1>1, <2>1, <3>1 DEF Brings, At
  <2>2. ASSUME th[t].pc = "consume"
        PROVE  Settled(log[Mine(t)].key, log[Mine(t)].val)'
    <3>1. PICK k \in Keys, v \in Nat : k = log[Mine(t)].key /\ v = log[Mine(t)].val
      BY <2>2, MineIsMine DEF Writing, Item
    <3>2. Settled(k, v)
      BY <2>2, <3>1 DEF Brings, At
    <3>3. Settled(k, v)'
      BY <3>2, SettledStays
    <3>4. log'[Mine(t)'].key = k /\ log'[Mine(t)'].val = v
      BY <1>1, <2>2, <3>1, ItemKept DEF Writing
    <3>5. QED
      BY <3>3, <3>4
  <2>3. QED
    BY <1>1, <2>1, <2>2 DEF Brings, At
<1>2. CASE Store(t)
  <2>1. /\ th'[t].pc = "cache" /\ th'[t].val = log[Mine(t)].val
        /\ th'[t].id = th[t].id /\ log' = log
    BY <1>0, <1>2 DEF Store, Thread
  <2>2. Mine(t)' = Mine(t)
    BY <2>1 DEF Mine, Positions
  <2>3. QED
    BY <2>1, <2>2 DEF Brings, At
<1>3. CASE CacheStored(t)
  <2>0. th[t].pc = "cache"
    BY <1>3 DEF CacheStored, At
  <2>1. PICK k \in Keys, v \in Nat : k = log[Mine(t)].key /\ v = log[Mine(t)].val
    BY <2>0, MineIsMine DEF Writing, Item
  <2>2. th[t].val = v /\ Recorded(k, th[t].ver, th[t].val) /\ th[t].ver \in Nat
    BY <2>0, <2>1 DEF Brings, At, CacheInv, InMotion, Moving, IInv, FieldsFit
  <2>3. /\ th'[t].pc = "consume" /\ th'[t].id = th[t].id /\ log' = log /\ ssd' = ssd
        /\ NoteCached(k, th[t].ver)
    BY <1>0, <1>3, <2>1 DEF CacheStored, Thread
  <2>4. th[t].ver + 1 <= cachedMost'[k] + 1
    <3>1. cachedMost' = [cachedMost EXCEPT ![k] =
                            IF th[t].ver > cachedMost[k] THEN th[t].ver ELSE cachedMost[k]]
      BY <2>3 DEF NoteCached
    <3>2. /\ cachedMost'[k] = IF th[t].ver > cachedMost[k] THEN th[t].ver ELSE cachedMost[k]
          /\ cachedMost[k] \in Int
      BY <3>1, Types DEF NoVersion
    <3>3. QED
      BY <2>2, <3>2
  <2>5. Settled(k, v)'
    BY <2>2, <2>3, <2>4 DEF Settled, Recorded
  <2>6. Mine(t)' = Mine(t)
    BY <2>3 DEF Mine, Positions
  <2>7. QED
    BY <2>1, <2>3, <2>5, <2>6 DEF Brings, At
<1>4. ASSUME th'[t].pc \notin {"cache", "consume"} PROVE Brings(t)'
  BY <1>4 DEF Brings, At
<1>5. ASSUME t \in Workers, Serves(t) PROVE th'[t].pc \notin {"cache", "consume"}
  <2>1. ASSUME NEW m \in Messages, Request(t, m) PROVE th'[t].pc \in {"find", "supersede"}
    BY <1>0, <2>1 DEF Request, Start
  <2>2. CASE Supersede(t)
    BY <1>0, <2>2 DEF Supersede
  <2>3. CASE AppendItem(t)
    BY <1>0, <2>3 DEF AppendItem, Start
  <2>4. CASE NoRoom(t)
    BY <1>0, <2>4 DEF NoRoom
  <2>5. CASE GetLog(t)
    BY <1>0, <2>5 DEF GetLog
  <2>6. CASE GetCached(t)
    BY <1>0, <2>6 DEF GetCached
  <2>7. CASE GetStored(t)
    BY <1>0, <2>7 DEF GetStored
  <2>8. CASE Fill(t)
    BY <1>0, <2>8 DEF Fill, Goto
  <2>9. CASE Reply(t)
    BY <1>0, <2>9 DEF Reply, Start
  <2>10. QED
    BY <1>5, <2>1, <2>2, <2>3, <2>4, <2>5, <2>6, <2>7, <2>8, <2>9
    DEF Serves, ServeSet, ServeGet
<1>6. ASSUME Claim(t) \/ ClaimNothing(t) \/ Consume(t) \/ Invalidate(t)
      PROVE  th'[t].pc \notin {"cache", "consume"}
  <2>1. CASE Claim(t)
    BY <1>0, <2>1 DEF Claim
  <2>2. CASE ClaimNothing(t)
    BY <1>0, <2>2 DEF ClaimNothing, Goto
  <2>3. CASE Consume(t)
    BY <1>0, <2>3 DEF Consume
  <2>4. CASE Invalidate(t)
    <3>1. th'[t].pc = th[t].then
      BY <1>0, <2>4 DEF Invalidate, Goto
    <3>2. QED
      BY <1>0, <3>1
  <2>5. QED
    BY <1>6, <2>1, <2>2, <2>3, <2>4
<1>7. QED
  BY <1>1, <1>2, <1>3, <1>4, <1>5, <1>6, OwnStep DEF WriteOut

-----------------------------------------------------------------------------
(* The newest value of a key. *)

LEMMA SettledBelow ==
    ASSUME IInv, NEW k \in Keys, NEW v \in Nat, NEW u \in Nat, u <= v, Settled(k, v)
    PROVE  Settled(k, u)
<1>1. \A i \in 1 .. Len(ssd[k]) : ssd[k][i] \in Nat
  BY Types, ElementOfSeq
<1>2. QED
  BY <1>1 DEF Settled, NoValue

\* A SET stays under way until it appends its item.
LEMMA SetStays ==
    ASSUME IInv, Next, NEW w \in Workers, OnTheWay(w), th[w].op = "set",
           ~At(w, "supersede"), ~AppendItem(w)
    PROVE  th'[w].op = "set" /\ th'[w].key = th[w].key /\ th'[w].pc # "supersede"
<1>0. /\ w \in Threads /\ th \in [Threads -> Thread] /\ th[w] \in Thread
      /\ th[w].pc \in {"append", "claim", "store", "cache", "consume", "invalidate"}
      /\ th[w].then = "append"
  BY Types, WorkersAreThreads DEF OnTheWay
<1>1. CASE th'[w] = th[w]
  BY <1>0, <1>1
<1>2. CASE Serves(w)
  <2>1. NoRoom(w)
    BY <1>0, <1>2 DEF Serves, Request, ServeSet, Supersede, ServeGet, GetLog, GetCached,
                      GetStored, Fill, Reply, At
  <2>2. QED
    BY <1>0, <2>1 DEF NoRoom
<1>3. CASE WriteOut(w)
  <2>1. CASE Claim(w)
    BY <1>0, <2>1 DEF Claim
  <2>2. CASE ClaimNothing(w)
    BY <1>0, <2>2 DEF ClaimNothing, Goto
  <2>3. CASE Store(w)
    BY <1>0, <2>3 DEF Store
  <2>4. CASE CacheStored(w)
    BY <1>0, <2>4 DEF CacheStored
  <2>5. CASE Consume(w)
    BY <1>0, <2>5 DEF Consume
  <2>6. CASE Invalidate(w)
    BY <1>0, <2>6 DEF Invalidate, Goto
  <2>7. QED
    BY <1>3, <2>1, <2>2, <2>3, <2>4, <2>5, <2>6 DEF WriteOut
<1>4. QED
  BY <1>0, <1>1, <1>2, <1>3, OwnStep

\* The newest value of a key is in the log, or a SET of the key is under way, or
\* the value is on the SSD and has been in the cache.
LEMMA SomewhereKept ==
    ASSUME IInv, Next, NEW k \in Keys, Somewhere(k), LiveIsNewest,
           \A w \in Workers : OnTheWay(w), \A t \in Threads : Brings(t)
    PROVE  Somewhere(k)'
<1>1. ASSUME NEW w \in Workers, AppendItem(w), th[w].key = k PROVE Somewhere(k)'
  <2>1. Len(log) + 1 \in Positions' /\ log'[Len(log) + 1].live /\ log'[Len(log) + 1].key = k
    BY <1>1, AppendStep DEF Positions
  <2>2. QED
    BY <2>1 DEF Somewhere, InLog
<1>2. ASSUME \A w \in Workers : ~(AppendItem(w) /\ th[w].key = k) PROVE Somewhere(k)'
  <2>1. newest'[k] = newest[k]
    BY <1>2, NewestStep, AppendStep
  <2>2. CASE Settled(k, newest[k])
    <3>1. PICK v : v = newest[k]
      OBVIOUS
    <3>2. Settled(k, v)'
      BY <2>2, <3>1, SettledStays
    <3>3. QED
      BY <2>1, <3>1, <3>2 DEF Somewhere
  <2>3. CASE InLog(k)
    <3>1. PICK i \in Positions : log[i].live /\ log[i].key = k
      BY <2>3 DEF InLog
    <3>2. ASSUME NEW w \in Workers, Supersede(w), th[w].key = k PROVE Somewhere(k)'
      <4>1. w \in Threads /\ th \in [Threads -> Thread] /\ th[w].op = "set"
        BY <3>2, Types, WorkersAreThreads DEF Supersede, OnTheWay
      <4>2. th'[w].op = "set" /\ th'[w].key = k /\ th'[w].pc # "supersede"
        BY <3>2, <4>1 DEF Supersede
      <4>3. QED
        BY <4>2 DEF Somewhere, SetUnderWay, At
    <3>3. ASSUME NEW t \in Threads, Consume(t), Mine(t) = i PROVE Settled(k, newest[k])
      BY <3>1, <3>3 DEF Consume, Brings, LiveIsNewest
    <3>4. CASE InLog(k)'
      BY <3>4 DEF Somewhere
    <3>5. QED
      BY <2>2, <3>1, <3>2, <3>3, <3>4, LiveStays
  <2>4. CASE SetUnderWay(k)
    <3>1. PICK w \in Workers : th[w].op = "set" /\ th[w].key = k /\ ~At(w, "supersede")
      BY <2>4 DEF SetUnderWay
    <3>2. th'[w].op = "set" /\ th'[w].key = k /\ th'[w].pc # "supersede"
      BY <1>2, <3>1, SetStays
    <3>3. QED
      BY <3>2 DEF Somewhere, SetUnderWay, At
  <2>5. QED
    BY <2>2, <2>3, <2>4 DEF Somewhere
<1>3. QED
  BY <1>1, <1>2

-----------------------------------------------------------------------------
(* The steps of a GET. *)

LEMMA NewestGrows ==
    ASSUME IInv, Next, NEW k \in Keys
    PROVE  newest[k] \in Nat /\ newest'[k] \in Nat /\ newest[k] <= newest'[k]
<1>1. newest[k] \in Nat
  BY DEF IInv, TypeOK
<1>2. QED
  BY <1>1, NewestStep, AppendStep

\* The log has the newest value, or what was promised is settled by now.
LEMMA LogAnswers ==
    ASSUME IInv, NEW w \in Workers, GetLog(w), GetOnTheWay(w), LiveIsNewest, harm' = {},
           \A k \in Keys : Somewhere(k)
    PROVE  GetOnTheWay(w)'
<1>0. /\ w \in Threads /\ th \in [Threads -> Thread] /\ th[w].key \in Keys
      /\ th[w].pc = "find" /\ th[w].promised \in Nat /\ newest[th[w].key] \in Nat
  BY Types, WorkersAreThreads DEF GetLog, At, IInv, FieldsFit, TypeOK, Thread
<1>1. PICK k \in Keys, p \in Nat : k = th[w].key /\ p = th[w].promised
  BY <1>0
<1>2. p <= newest[k] /\ UNCHANGED <<ssd, cachedMost>>
  BY <1>0, <1>1 DEF GetOnTheWay, At, GetLog
<1>3. CASE Found(k) = {}
  <2>1. ~SetUnderWay(k)
    BY <1>1, <1>3 DEF GetLog
  <2>2. Settled(k, newest[k])
    BY <1>3, <2>1, FoundNothing DEF Somewhere, InLog
  <2>3. Settled(k, p)
    BY <1>0, <1>1, <1>2, <2>2, SettledBelow
  <2>4. Settled(k, p)'
    BY <1>2, <2>3 DEF Settled
  <2>5. th'[w].pc = "cached" /\ th'[w].key = k /\ th'[w].promised = p
    BY <1>0, <1>1, <1>3 DEF GetLog
  <2>6. QED
    BY <2>4, <2>5 DEF GetOnTheWay, At
<1>4. CASE Found(k) # {}
  <2>1. log[First(Found(k))].val = newest[k]
    BY <1>4, FoundFirst DEF LiveIsNewest
  <2>2. /\ th'[w].pc = "invalidate" /\ th'[w].val = log[First(Found(k))].val
        /\ th'[w].promised = p
    BY <1>0, <1>1, <1>4 DEF GetLog
  <2>3. QED
    BY <1>0, <1>1, <1>2, <2>1, <2>2 DEF GetOnTheWay, At
<1>5. QED
  BY <1>3, <1>4

\* What is settled is the least a GET reads from the SSD.
LEMMA SettledValue ==
    ASSUME IInv, StoredInOrder, NEW k \in Keys, NEW p \in Nat, Settled(k, p),
           NEW j \in 1 .. Len(ssd[k]),
           j >= cachedMost[k] + 1 \/ j = Len(ssd[k])
    PROVE  ssd[k][j] >= p
<1>0. /\ Len(ssd[k]) \in Nat /\ cachedMost[k] \in Int
      /\ \A i \in 1 .. Len(ssd[k]) : ssd[k][i] \in Nat
  BY Types, ElementOfSeq DEF NoVersion
<1>1. CASE p = NoValue
  BY <1>0, <1>1 DEF NoValue
<1>2. ASSUME NEW i \in 1 .. Len(ssd[k]), ssd[k][i] >= p, i <= cachedMost[k] + 1
      PROVE  ssd[k][j] >= p
  <2>1. i <= j
    BY <1>0, <1>2
  <2>2. ssd[k][i] <= ssd[k][j]
    BY <2>1 DEF StoredInOrder
  <2>3. QED
    BY <1>0, <1>2, <2>2
<1>3. QED
  BY <1>1, <1>2 DEF Settled

\* The usable item of the cache is the newest that ever was.
LEMMA CacheAnswers ==
    ASSUME IInv, CacheInv, NEW w \in Workers, GetCached(w), GetOnTheWay(w),
           StoredInOrder, harm' = {}
    PROVE  GetOnTheWay(w)'
<1>0. /\ w \in Threads /\ th \in [Threads -> Thread] /\ th[w].key \in Keys
      /\ th[w].pc = "cached" /\ th[w].promised \in Nat
  BY Types, WorkersAreThreads DEF GetCached, At, IInv, FieldsFit, Thread
<1>1. PICK k \in Keys, p \in Nat : k = th[w].key /\ p = th[w].promised
  BY <1>0
<1>2. Settled(k, p) /\ UNCHANGED <<ssd, cachedMost, harm>>
  BY <1>0, <1>1 DEF GetOnTheWay, GetCached, history
<1>3. CASE Usable(k) = {}
  <2>1. Settled(k, p)'
    BY <1>2 DEF Settled
  <2>2. th'[w].pc = "read" /\ th'[w].key = k /\ th'[w].promised = p
    BY <1>0, <1>1, <1>3 DEF GetCached
  <2>3. QED
    BY <2>1, <2>2 DEF GetOnTheWay, At
<1>4. CASE Usable(k) # {}
  <2> DEFINE i == First(Usable(k))
  <2>1. i \in Usable(k)
    BY <1>4, Types, FirstUsable
  <2>2. cache[k][i].ver = cachedMost[k]
    BY <1>2, <2>1 DEF CacheInv, UsableIsNewest
  <2>3. Recorded(k, cache[k][i].ver, cache[k][i].val)
    BY <2>1 DEF CacheInv, Contents, Usable
  <2>4. cache[k][i].val >= p
    <3>1. /\ cachedMost[k] + 1 \in 1 .. Len(ssd[k])
          /\ cache[k][i].val = ssd[k][cachedMost[k] + 1]
      BY <2>2, <2>3 DEF Recorded
    <3>2. cachedMost[k] + 1 >= cachedMost[k] + 1
      BY <3>1, Types DEF NoVersion
    <3>3. QED
      BY <1>2, <3>1, <3>2, SettledValue
  <2>5. /\ th'[w].pc = "reply" /\ th'[w].val = cache[k][i].val
        /\ th'[w].promised = p
    BY <1>0, <1>1, <1>4 DEF GetCached
  <2>6. QED
    BY <2>4, <2>5 DEF GetOnTheWay, At
<1>5. QED
  BY <1>3, <1>4

LEMMA SsdAnswers ==
    ASSUME IInv, NEW w \in Workers, GetStored(w), GetOnTheWay(w), StoredInOrder
    PROVE  GetOnTheWay(w)'
<1>0. /\ w \in Threads /\ th \in [Threads -> Thread] /\ th[w].key \in Keys
      /\ th[w].pc = "read" /\ th[w].promised \in Nat /\ th[w].val \in Nat
  BY Types, WorkersAreThreads DEF GetStored, At, IInv, FieldsFit, Thread
<1>1. PICK k \in Keys, p \in Nat : k = th[w].key /\ p = th[w].promised
  BY <1>0
<1>2. Settled(k, p) /\ ssd[k] \in Seq(Nat) /\ Len(ssd[k]) \in Nat
  BY <1>0, <1>1, Types DEF GetOnTheWay
<1>3. CASE ssd[k] = << >>
  <2>1. Len(ssd[k]) = 0
    BY <1>3, EmptySeq
  <2>2. p = 0
    BY <1>2, <2>1 DEF Settled, NoValue
  <2>3. th'[w].pc = "reply" /\ th'[w].val = th[w].val /\ th'[w].promised = p
    BY <1>0, <1>1, <1>3 DEF GetStored
  <2>4. QED
    BY <1>0, <2>2, <2>3 DEF GetOnTheWay, At
<1>4. CASE ssd[k] # << >>
  <2>1. Len(ssd[k]) \in 1 .. Len(ssd[k])
    BY <1>2, <1>4, EmptySeq
  <2>2. ssd[k][Len(ssd[k])] >= p
    BY <1>2, <2>1, SettledValue
  <2>3. /\ th'[w].pc = "fill" /\ th'[w].val = ssd[k][Len(ssd[k])]
        /\ th'[w].promised = p
    BY <1>0, <1>1, <1>4 DEF GetStored
  <2>4. QED
    BY <2>2, <2>3 DEF GetOnTheWay, At
<1>5. QED
  BY <1>3, <1>4

LEMMA GetOnTheWayKept ==
    ASSUME IInv, CacheInv, Next, NEW w \in Workers, OnTheWay(w), GetOnTheWay(w),
           LiveIsNewest, StoredInOrder, harm' = {}, \A k \in Keys : Somewhere(k)
    PROVE  GetOnTheWay(w)'
<1>0. /\ w \in Threads /\ th \in [Threads -> Thread] /\ th[w] \in Thread /\ w # Maint
      /\ th[w].then \in {"idle", "append", "reply"}
  BY Types, WorkersAreThreads, ThreadsAssumption DEF Thread, OnTheWay
<1>1. CASE th'[w] = th[w]
  <2>1. ASSUME th[w].pc = "find" PROVE th[w].promised <= newest'[th[w].key]
    <3>1. th[w].key \in Keys /\ th[w].promised \in Nat
      BY <1>0, <2>1 DEF IInv, FieldsFit, Thread
    <3>2. th[w].promised <= newest[th[w].key]
      BY <2>1 DEF GetOnTheWay, At
    <3>3. QED
      BY <3>1, <3>2, NewestGrows
  <2>2. ASSUME th[w].pc \in {"cached", "read"} PROVE Settled(th[w].key, th[w].promised)'
    <3>1. PICK k \in Keys, p \in Nat : k = th[w].key /\ p = th[w].promised
      BY <1>0, <2>2 DEF IInv, FieldsFit, Thread
    <3>2. Settled(k, p)'
      BY <2>2, <3>1, SettledStays DEF GetOnTheWay
    <3>3. QED
      BY <1>1, <3>1, <3>2
  <2>3. QED
    BY <1>1, <2>1, <2>2 DEF GetOnTheWay, At
<1>away. ASSUME \/ th'[w].pc \in {"idle", "supersede", "append", "claim", "store", "cache",
                                  "consume"}
                \/ th'[w].pc = "invalidate" /\ th'[w].then = "append"
         PROVE  GetOnTheWay(w)'
  BY <1>away DEF GetOnTheWay, At
<1>2. ASSUME NEW m \in Messages, Request(w, m) PROVE GetOnTheWay(w)'
  <2>1. /\ th'[w].pc \in {"find", "supersede"} /\ th'[w].key = m.key
        /\ th'[w].promised = newest[m.key] /\ newest' = newest
    BY <1>0, <1>2 DEF Request, Start, history
  <2>2. newest[m.key] \in Nat
    BY MessagesAssumption DEF IInv, TypeOK
  <2>3. QED
    BY <2>1, <2>2 DEF GetOnTheWay, At
<1>3. CASE ServeSet(w)
  <2>1. CASE Supersede(w)
    <3>1. th'[w].pc \in {"append", "invalidate"} /\ th'[w].then = "append"
      BY <1>0, <2>1 DEF Supersede
    <3>2. QED
      BY <1>away, <3>1
  <2>2. CASE AppendItem(w)
    <3>1. th'[w].pc = "idle"
      BY <1>0, <2>2 DEF AppendItem, Start
    <3>2. QED
      BY <1>away, <3>1
  <2>3. CASE NoRoom(w)
    <3>1. th'[w].pc = "claim"
      BY <1>0, <2>3 DEF NoRoom
    <3>2. QED
      BY <1>away, <3>1
  <2>4. QED
    BY <1>3, <2>1, <2>2, <2>3 DEF ServeSet
<1>4. CASE ServeGet(w)
  <2>1. CASE Fill(w)
    <3>1. /\ th[w].pc = "fill" /\ th'[w].pc = "reply" /\ th'[w].val = th[w].val
          /\ th'[w].promised = th[w].promised
      BY <1>0, <2>1 DEF Fill, Goto, At
    <3>2. QED
      BY <3>1 DEF GetOnTheWay, At
  <2>2. CASE Reply(w)
    <3>1. th'[w].pc = "idle"
      BY <1>0, <2>2 DEF Reply, Start
    <3>2. QED
      BY <1>away, <3>1
  <2>3. QED
    BY <1>4, <2>1, <2>2, LogAnswers, CacheAnswers, SsdAnswers DEF ServeGet
<1>5. CASE WriteOut(w)
  <2>1. CASE Claim(w)
    <3>1. th'[w].pc = "store"
      BY <1>0, <2>1 DEF Claim
    <3>2. QED
      BY <1>away, <3>1
  <2>2. CASE ClaimNothing(w)
    <3>1. th'[w].pc = "invalidate" /\ th'[w].then = "append"
      BY <1>0, <2>2 DEF ClaimNothing, Goto, OnTheWay, At
    <3>2. QED
      BY <1>away, <3>1
  <2>3. CASE Store(w)
    <3>1. th'[w].pc = "cache"
      BY <1>0, <2>3 DEF Store
    <3>2. QED
      BY <1>away, <3>1
  <2>4. CASE CacheStored(w)
    <3>1. th'[w].pc = "consume"
      BY <1>0, <2>4 DEF CacheStored
    <3>2. QED
      BY <1>away, <3>1
  <2>5. CASE Consume(w)
    <3>1. th'[w].pc = "invalidate" /\ th'[w].then = "append"
      BY <1>0, <2>5 DEF Consume, OnTheWay, At
    <3>2. QED
      BY <1>away, <3>1
  <2>6. CASE Invalidate(w)
    <3>1. /\ th[w].pc = "invalidate" /\ th'[w].pc = th[w].then /\ th'[w].val = th[w].val
          /\ th'[w].promised = th[w].promised
      BY <1>0, <2>6 DEF Invalidate, Goto, At
    <3>2. CASE th[w].then = "reply"
      BY <3>1, <3>2 DEF GetOnTheWay, At
    <3>3. CASE th[w].then # "reply"
      BY <1>0, <1>away, <3>1, <3>3
    <3>4. QED
      BY <3>2, <3>3
  <2>7. QED
    BY <1>5, <2>1, <2>2, <2>3, <2>4, <2>5, <2>6 DEF WriteOut
<1>6. QED
  BY <1>0, <1>1, <1>2, <1>3, <1>4, <1>5, OwnStep DEF Serves

-----------------------------------------------------------------------------
(* The theorem. *)

LEMMA FreshInit ==
    ASSUME Init
    PROVE  FreshInv
<1>1. ASSUME NEW w \in Workers PROVE OnTheWay(w) /\ GetOnTheWay(w)
  <2>1. th[w].pc = "idle" /\ th[w].then = "idle" /\ th[w].op = "get"
    BY WorkersAreThreads, ThreadsAssumption DEF Init, Start
  <2>2. QED
    BY <2>1 DEF OnTheWay, GetOnTheWay, At
<1>2. ASSUME NEW t \in Threads PROVE Brings(t)
  BY DEF Init, Start, Brings, At
<1>3. ASSUME NEW k \in Keys PROVE Somewhere(k)
  BY DEF Init, Somewhere, Settled
<1>4. LiveIsNewest /\ StoredInOrder
  <2>1. Len(log) = 0 /\ \A k \in Keys : Len(ssd[k]) = 0
    BY EmptySeq DEF Init
  <2>2. QED
    BY <2>1 DEF LiveIsNewest, StoredInOrder, Positions
<1>5. QED
  BY <1>1, <1>2, <1>3, <1>4 DEF FreshInv, FreshCore

LEMMA FreshStep ==
    ASSUME IInv, IInv', CacheInv, FreshInv, [Next]_vars
    PROVE  FreshInv'
<1>1. ASSUME Next PROVE FreshInv'
  <2>1. \A w \in Workers : OnTheWay(w)'
    BY <1>1, OnTheWayKept DEF FreshInv
  <2>2. ASSUME harm' = {} PROVE FreshCore'
    <3>1. FreshCore /\ \A w \in Workers : OnTheWay(w)
      BY <1>1, <2>2, HarmStays DEF FreshInv
    <3>2. LiveIsNewest' /\ StoredInOrder'
      BY <1>1, <2>2, <3>1, LiveIsNewestKept, StoredInOrderKept DEF FreshCore
    <3>3. \A k \in Keys : Somewhere(k)'
      BY <1>1, <3>1, SomewhereKept DEF FreshCore
    <3>4. \A t \in Threads : Brings(t)'
      BY <1>1, <3>1, BringsKept DEF FreshCore
    <3>5. \A w \in Workers : GetOnTheWay(w)'
      BY <1>1, <2>2, <3>1, GetOnTheWayKept DEF FreshCore
    <3>6. QED
      BY <3>2, <3>3, <3>4, <3>5 DEF FreshCore
  <2>3. QED
    BY <2>1, <2>2 DEF FreshInv
<1>2. CASE UNCHANGED vars
  <2>1. UNCHANGED <<log, ssd, th, newest, cachedMost, harm>>
    BY <1>2 DEF vars
  <2>2. \A t \in Threads : Mine(t)' = Mine(t)
    BY <2>1 DEF Mine, Positions
  <2>3. LiveIsNewest' = LiveIsNewest /\ StoredInOrder' = StoredInOrder
    BY <2>1 DEF LiveIsNewest, StoredInOrder, Positions
  <2>4. \A k \in Keys : Somewhere(k)' = Somewhere(k)
    BY <2>1 DEF Somewhere, InLog, SetUnderWay, Settled, Positions, At
  <2>5. \A t \in Threads : Brings(t)' = Brings(t)
    BY <2>1, <2>2 DEF Brings, Settled, At
  <2>6. \A w \in Workers : OnTheWay(w)' = OnTheWay(w) /\ GetOnTheWay(w)' = GetOnTheWay(w)
    BY <2>1 DEF OnTheWay, GetOnTheWay, Settled, At
  <2>7. QED
    BY <2>1, <2>3, <2>4, <2>5, <2>6 DEF FreshInv, FreshCore
<1>3. QED
  BY <1>1, <1>2

\* A GET is told the value of the last SET of its key that was answered before it
\* was sent, or a later one (database.c:16-30 asks log, cache and SSD one after the
\* other, with nothing held between), unless one of the four windows was met.
THEOREM GetsAreFresh == Spec => []GetIsFresh
<1>1. FreshInv => GetIsFresh
  BY DEF FreshInv, FreshCore, GetOnTheWay, GetIsFresh, At
<1>2. QED
  BY <1>1, InvInit, InvStep, CacheInvInit, CacheInvStep, FreshInit, FreshStep, PTL
  DEF Spec
===============================================================================
