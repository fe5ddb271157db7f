------------------------------- MODULE Database -------------------------------
(***************************************************************************)
(* The server as its clients see it: the requests of packet_loop (main.c)  *)
(* over the three layers of database.c.  A SET goes into the log and is    *)
(* answered; the maintenance thread, or a worker that finds the log full,  *)
(* carries items from the log to the SSD table and then into the cache; a  *)
(* GET asks log, cache and SSD in this order and fills the cache with what *)
(* it found on the SSD.  No lock spans two layers.                         *)
(*                                                                         *)
(* Each layer is here as the module about it has it: the log is the queue  *)
(* of LogQueue, which NvLog implements, with complete items; the SSD table *)
(* is the store of versions that SsdTable implements; a key's chain in the *)
(* cache is a sequence of items, newest first, of which a set with an      *)
(* older version leaves one locked for good, as in RamCache.  A key stands *)
(* for its bytes and its hash; a value is the number of the SET of its key *)
(* it belongs to, counted as they are answered.                            *)
(***************************************************************************)
EXTENDS Integers, FiniteSets, Sequences

CONSTANTS Workers, Maint,  \* lcores in processing_thread and in maintenance
          Keys,
          Messages,        \* datagrams that clients send
          LogSize,         \* items the log has room for
          MaxRequests,     \* bound: datagrams received
          NoKey

ASSUME ThreadsAssumption == IsFiniteSet(Workers) /\ Maint \notin Workers
ASSUME BoundsAssumption ==
    LogSize \in Nat \ {0} /\ MaxRequests \in Nat /\ NoKey \notin Keys
ASSUME MessagesAssumption ==
    Messages \subseteq [size : {"short", "cut", "whole"}, n_data : Nat,
                        magic : {"request", "other"}, op : STRING, key : Keys]

Threads == Workers \cup {Maint}

VARIABLES
    log,        \* the items of the log, head first
    next,       \* how many of them have been claimed
    ssd,        \* the values stored under each key, one per version
    cache,      \* the items of each key in the cache
    th,         \* the request or write-out each thread is at
    newest,     \* the SET of each key answered last
    received,   \* datagrams received
    cachedMost, \* history: highest version that was ever in the cache
    harm        \* history: windows in which a GET may be told something old

vars == <<log, next, ssd, cache, th, newest, received, cachedMost, harm>>
history == <<newest, received, cachedMost, harm>>

NoValue == 0
NoVersion == -1
Harms == {"gap", "twice", "order", "stale"}

\* live: not consumed; busy: being written out.
Item == [id : Nat, key : Keys, val : Nat, live : BOOLEAN, busy : BOOLEAN]
Cached == [ver : Nat, val : Nat, stuck : BOOLEAN]
Labels == {"idle", "supersede", "append", "find", "cached", "read", "fill",
           "reply", "claim", "store", "cache", "consume", "invalidate"}
Thread == [pc : Labels, op : {"get", "set"}, key : Keys \cup {NoKey}, id : Nat,
           val : Nat, ver : Nat \cup {NoVersion},
           then : {"idle", "claim", "append", "reply"}, promised : Nat]

Start(t) == [pc |-> IF t = Maint THEN "claim" ELSE "idle", op |-> "get",
             key |-> NoKey, id |-> 0, val |-> NoValue, ver |-> NoVersion,
             then |-> IF t = Maint THEN "claim" ELSE "idle",
             promised |-> NoValue]

At(t, label) == th[t].pc = label
Goto(t, label) == th' = [th EXCEPT ![t].pc = label]
Positions == 1 .. Len(log)
Version(k) == Len(ssd[k]) - 1

\* The item NVDIMM_find returns: the first live one of the key from head on.
Found(k) == {i \in Positions :
                /\ log[i].live /\ log[i].key = k
                /\ \A j \in 1 .. i - 1 : ~(log[j].live /\ log[j].key = k)}
-----------------------------------------------------------------------------
(* packet_loop: a datagram is dropped or becomes a request. *)

Dropped(m) ==
    \/ m.size # "whole" \/ m.n_data # 1 \/ m.magic # "request"
    \/ m.op \notin {"get", "set"}

Drop(w, m) ==
    /\ At(w, "idle") /\ received < MaxRequests /\ Dropped(m)
    /\ received' = received + 1
    /\ UNCHANGED <<log, next, ssd, cache, th, newest, cachedMost, harm>>

Request(w, m) ==
    /\ At(w, "idle") /\ received < MaxRequests /\ ~Dropped(m)
    /\ received' = received + 1
    /\ th' = [th EXCEPT ![w] = [Start(w) EXCEPT
                  !.pc = IF m.op = "get" THEN "find" ELSE "supersede",
                  !.op = m.op, !.key = m.key, !.promised = newest[m.key]]]
    /\ UNCHANGED <<log, next, ssd, cache, newest, cachedMost, harm>>

\* The response is sent; it says KEY_ENOENT when there is no line.
Reply(w) ==
    /\ At(w, "reply")
    /\ th' = [th EXCEPT ![w] = Start(w)]
    /\ UNCHANGED <<log, next, ssd, cache, history>>
-----------------------------------------------------------------------------
(* NVDIMM_write_entry: the previous item of the key is consumed, then the  *)
(* new one is appended; between the two the key may be nowhere.            *)

Supersede(w) ==
    LET found == Found(th[w].key)
    IN  /\ At(w, "supersede")
        /\ log' = [i \in Positions |->
                      IF i \in found THEN [log[i] EXCEPT !.live = FALSE] ELSE log[i]]
        /\ th' = [th EXCEPT ![w] =
              [@ EXCEPT !.pc = IF found = {} THEN "append" ELSE "invalidate",
                        !.then = "append"]]
        /\ UNCHANGED <<next, ssd, cache, history>>

\* Ids tell the items in the log apart.
FreshId == CHOOSE n \in 1 .. Len(log) + 1 : \A i \in Positions : log[i].id # n

\* The item is complete and the client is told.  Another SET of the key may
\* have appended its own since.
AppendItem(w) ==
    LET k == th[w].key
    IN  /\ At(w, "append") /\ Len(log) < LogSize
        /\ log' = Append(log, [id |-> FreshId, key |-> k, val |-> newest[k] + 1,
                               live |-> TRUE, busy |-> FALSE])
        /\ newest' = [newest EXCEPT ![k] = @ + 1]
        /\ harm' = IF Found(k) = {} THEN harm ELSE harm \cup {"twice"}
        /\ th' = [th EXCEPT ![w] = Start(w)]
        /\ UNCHANGED <<next, ssd, cache, received, cachedMost>>

\* A worker that finds no room writes out an item itself.
NoRoom(w) ==
    /\ At(w, "append") /\ Len(log) >= LogSize
    /\ th' = [th EXCEPT ![w] = [@ EXCEPT !.pc = "claim", !.then = "append"]]
    /\ UNCHANGED <<log, next, ssd, cache, history>>
-----------------------------------------------------------------------------
(* NVDIMM_write_out_next and database_set. *)

\* Slip: an item is consumed as soon as it is claimed.
ClaimConsumes(t) ==
    /\ At(t, "claim") /\ next < Len(log) /\ log[next + 1].live
    /\ log' = [log EXCEPT ![next + 1].busy = TRUE, ![next + 1].live = FALSE]
    /\ next' = next + 1
    /\ th' = [th EXCEPT ![t] = [@ EXCEPT !.pc = "store", !.id = log[next + 1].id]]
    /\ UNCHANGED <<ssd, cache, history>>

Claim(t) ==
    /\ At(t, "claim") /\ next < Len(log) /\ log[next + 1].live
    /\ log' = [log EXCEPT ![next + 1].busy = TRUE]
    /\ next' = next + 1
    /\ th' = [th EXCEPT ![t] = [@ EXCEPT !.pc = "store", !.id = log[next + 1].id]]
    /\ UNCHANGED <<ssd, cache, history>>

ClaimNothing(t) ==
    /\ At(t, "claim") /\ (next < Len(log) => ~log[next + 1].live)
    /\ Goto(t, "invalidate")
    /\ UNCHANGED <<log, next, ssd, cache, history>>

Mine(t) == CHOOSE i \in Positions : log[i].id = th[t].id

\* ssd_ht_set returns the version it stored.
Store(t) ==
    LET k == log[Mine(t)].key
        v == log[Mine(t)].val
    IN  /\ At(t, "store")
        /\ ssd' = [ssd EXCEPT ![k] = Append(@, v)]
        /\ harm' = IF \E i \in 1 .. Len(ssd[k]) : ssd[k][i] > v
                   THEN harm \cup {"order"} ELSE harm
        /\ th' = [th EXCEPT ![t] = [@ EXCEPT !.pc = "cache", !.val = v,
                                             !.ver = Version(k) + 1]]
        /\ UNCHANGED <<log, next, cache, newest, received, cachedMost>>

\* The item of a key that cache_ht_get and cache_ht_set come to.
Usable(k) == {i \in 1 .. Len(cache[k]) : ~cache[k][i].stuck}
First(I) == CHOOSE i \in I : \A j \in I : i <= j

\* Slip: the version is not compared.
CacheSetAlways(k, ver, val) ==
    LET i == First(Usable(k))
        new == [ver |-> ver, val |-> val, stuck |-> FALSE]
    IN  cache' = [cache EXCEPT ![k] = IF Usable(k) = {} THEN <<new>> \o @
                                      ELSE [@ EXCEPT ![i] = new]]

\* cache_ht_set: insert, overwrite, or leave a newer item locked for good.
CacheSet(k, ver, val) ==
    LET i == First(Usable(k))
        new == [ver |-> ver, val |-> val, stuck |-> FALSE]
    IN  cache' = [cache EXCEPT ![k] =
            IF Usable(k) = {}       THEN <<new>> \o @
            ELSE IF @[i].ver > ver  THEN [@ EXCEPT ![i].stuck = TRUE]
                                    ELSE [@ EXCEPT ![i] = new]]

\* An item that was evicted cannot refuse an older version any more.
NoteCached(k, ver) ==
    /\ harm' = IF Usable(k) = {} /\ ver < cachedMost[k]
               THEN harm \cup {"stale"} ELSE harm
    /\ cachedMost' = [cachedMost EXCEPT ![k] = IF ver > @ THEN ver ELSE @]

CacheStored(t) ==
    LET k == log[Mine(t)].key
    IN  /\ At(t, "cache")
        /\ CacheSet(k, th[t].ver, th[t].val)
        /\ NoteCached(k, th[t].ver)
        /\ th' = [th EXCEPT ![t] = [@ EXCEPT !.pc = "consume", !.val = NoValue,
                                             !.ver = NoVersion]]
        /\ UNCHANGED <<log, next, ssd, newest, received>>

Consume(t) ==
    /\ At(t, "consume")
    /\ log' = [log EXCEPT ![Mine(t)].live = FALSE, ![Mine(t)].busy = FALSE]
    /\ th' = [th EXCEPT ![t] = [@ EXCEPT !.pc = "invalidate", !.id = 0]]
    /\ UNCHANGED <<next, ssd, cache, history>>

\* Slip: a consumed item leaves although it is still being written out.
ReleasedOnceConsumed(x) == ~x.live

Released(x) == ~x.live /\ ~x.busy

\* Slip: next stays behind.
NextLeftBehind(n) == next

\* When n items leave, next is moved along.
NextAfter(n) == IF next < n THEN 0 ELSE next - n

\* NVDIMM_invalidate: the released prefix leaves the log.
Invalidate(t) ==
    /\ At(t, "invalidate")
    /\ \E n \in 0 .. Len(log) :
          /\ \A i \in 1 .. n : Released(log[i])
          /\ n < Len(log) => ~Released(log[n + 1])
          /\ log' = SubSeq(log, n + 1, Len(log))
          /\ next' = NextAfter(n)
    /\ Goto(t, th[t].then)
    /\ UNCHANGED <<ssd, cache, history>>
-----------------------------------------------------------------------------
(* database_get. *)

SetUnderWay(k) ==
    \E w \in Workers : th[w].op = "set" /\ th[w].key = k /\ ~At(w, "supersede")

GetLog(w) ==
    LET k == th[w].key
        found == Found(k)
    IN  /\ At(w, "find")
        /\ th' = [th EXCEPT ![w] =
              IF found = {} THEN [@ EXCEPT !.pc = "cached"]
              ELSE [@ EXCEPT !.pc = "invalidate", !.then = "reply",
                             !.val = log[First(found)].val]]
        /\ harm' = IF found = {} /\ SetUnderWay(k)
                   THEN harm \cup {"gap"} ELSE harm
        /\ UNCHANGED <<log, next, ssd, cache, newest, received, cachedMost>>

GetCached(w) ==
    LET k == th[w].key
    IN  /\ At(w, "cached")
        /\ th' = [th EXCEPT ![w] =
              IF Usable(k) = {} THEN [@ EXCEPT !.pc = "read"]
              ELSE [@ EXCEPT !.pc = "reply",
                             !.val = cache[k][First(Usable(k))].val]]
        /\ UNCHANGED <<log, next, ssd, cache, history>>

GetStored(w) ==
    LET k == th[w].key
    IN  /\ At(w, "read")
        /\ th' = [th EXCEPT ![w] =
              IF ssd[k] = << >> THEN [@ EXCEPT !.pc = "reply"]
              ELSE [@ EXCEPT !.pc = "fill", !.val = ssd[k][Len(ssd[k])],
                             !.ver = Version(k)]]
        /\ UNCHANGED <<log, next, ssd, cache, history>>

\* What was read may be an old version by now.
Fill(w) ==
    /\ At(w, "fill")
    /\ CacheSet(th[w].key, th[w].ver, th[w].val)
    /\ NoteCached(th[w].key, th[w].ver)
    /\ Goto(w, "reply")
    /\ UNCHANGED <<log, next, ssd, newest, received>>

\* A thread short of blocks evicts any item that is not locked.
Evict(k) ==
    \E i \in Usable(k) :
        /\ cache' = [cache EXCEPT ![k] = SubSeq(@, 1, i - 1)
                                         \o SubSeq(@, i + 1, Len(@))]
        /\ UNCHANGED <<log, next, ssd, th, history>>
-----------------------------------------------------------------------------
Init ==
    /\ log = << >> /\ next = 0
    /\ ssd = [k \in Keys |-> << >>]
    /\ cache = [k \in Keys |-> << >>]
    /\ th = [t \in Threads |-> Start(t)]
    /\ newest = [k \in Keys |-> NoValue]
    /\ received = 0
    /\ cachedMost = [k \in Keys |-> NoVersion]
    /\ harm = {}

ServeSet(w) == Supersede(w) \/ AppendItem(w) \/ NoRoom(w)
ServeGet(w) == GetLog(w) \/ GetCached(w) \/ GetStored(w) \/ Fill(w) \/ Reply(w)
WriteOut(t) ==
    \/ Claim(t) \/ ClaimNothing(t) \/ Store(t) \/ CacheStored(t) \/ Consume(t)
    \/ Invalidate(t)

Next ==
    \/ \E w \in Workers : \/ \E m \in Messages : Drop(w, m) \/ Request(w, m)
                          \/ ServeSet(w) \/ ServeGet(w)
    \/ \E t \in Threads : WriteOut(t)
    \/ \E k \in Keys : Evict(k)

Spec == Init /\ [][Next]_vars
-----------------------------------------------------------------------------
(* Types. *)
TypeOK ==
    /\ log \in Seq(Item) /\ next \in 0 .. Len(log)
    /\ ssd \in [Keys -> Seq(Nat)]
    /\ cache \in [Keys -> Seq(Cached)]
    /\ th \in [Threads -> Thread]
    /\ newest \in [Keys -> Nat] /\ received \in Nat
    /\ cachedMost \in [Keys -> Nat \cup {NoVersion}]
    /\ harm \subseteq Harms

(* A GET is told the value of the last SET of its key that was answered    *)
(* before it was sent, or a later one, although its answer is put together *)
(* from three layers while items move between them.  Only four things can  *)
(* break this: a SET that has consumed the previous item and not appended  *)
(* its own (NVDIMM.c:193), two SETs of the key at a time, two write-outs   *)
(* that reach the SSD in the other order (NVDIMM.c:765), and a version     *)
(* that is cached after a newer one was evicted (database.c:25).           *)
GetIsFresh ==
    harm = {} => \A w \in Workers :
        At(w, "reply") => th[w].val >= th[w].promised

(* With no write-out and no fill of a key under way, the item of the cache *)
(* that answers for the key has the version and the value of the SSD.      *)
Moving(t, k) ==
    \/ At(t, "fill") /\ th[t].key = k
    \/ At(t, "cache") /\ log[Mine(t)].key = k

CacheAgrees ==
    "stale" \notin harm => \A k \in Keys :
        (\A t \in Threads : ~Moving(t, k)) =>
            \A i \in Usable(k) : /\ cache[k][i].ver = Version(k)
                                 /\ cache[k][i].val = ssd[k][Len(ssd[k])]

(* The log is used as the queue that NvLog implements. *)
Queue == INSTANCE LogQueue WITH
    queue <- [i \in Positions |-> ~log[i].live /\ ~log[i].busy],
    claimed <- next
ImplementsQueue == Queue!Spec
=============================================================================
