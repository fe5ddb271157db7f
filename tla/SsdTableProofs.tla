---------------------------- MODULE SsdTableProofs ----------------------------
(***************************************************************************)
(* For any number of threads, keys and page buffers: a page counts exactly *)
(* its writers and is written out only when none is left, and no page of   *)
(* the ring is lost.  Both rest on the two locks of a place on the current *)
(* page: ssd_free_pages.lock, which is held while cur_page is read or      *)
(* changed, and the lock of the page itself, which keeps new writers away  *)
(* while a thread judges and writes it out.                                *)
(***************************************************************************)
EXTENDS SsdTable, FiniteSetTheorems, TLAPS

Labels == {"idle", "page", "join", "swap", "dress", "again", "place", "link",
           "write", "leave", "purge", "drain", "current", "try_free", "judge",
           "pass", "flush"}
ChunkPlace == [page : Pages \cup {NoPage}, num : Nat, at : Nat, room : Nat]
Thread == [pc : Labels, key : Keys \cup {NoKey}, totsize : Nat,
           old : ChunkPlace, cur : ChunkPlace, mine : SUBSET Pages,
           owed : Nat, round : SUBSET Pages, try : Pages \cup {NoPage},
           headLock : BOOLEAN, gotFree : BOOLEAN,
           back : {"idle", "purge", "drain"}, new : Pages \cup {NoPage},
           then : {"idle", "again", "link", "flush"}]

ThreadsTyped == th \in [Threads -> Thread]

-----------------------------------------------------------------------------
(* Where a thread is in ssd_write. *)

Swapping(t, label) == th[t].pc \in {"swap", "dress"} /\ th[t].then = label

\* It has no place on a page yet.
Seeking(t) == th[t].pc \in {"page", "join", "again", "place"} \/ Swapping(t, "again")
\* It has a place, and the chunk before does not know of it.
Linking(t) == th[t].pc = "link" \/ Swapping(t, "link")
\* It tries to write out a page.
Trying(t) == th[t].pc \in {"current", "try_free", "judge", "pass", "flush"}
             \/ Swapping(t, "flush")
\* It has a place it has not written to.
Writing(t) == th[t].pc \in {"write", "purge"} \/ (Trying(t) /\ th[t].back = "purge")
\* It is done with its chunks.
Draining(t) == th[t].pc = "drain" \/ (Trying(t) /\ th[t].back = "drain")
\* It has found that nobody writes to the page it tries.
Flushing(t) == th[t].pc = "flush" \/ Swapping(t, "flush")

\* What a thread has where it needs it.
FieldsOf(t) ==
    /\ th[t].pc # "idle" => th[t].key \in Keys
    /\ th[t].pc = "idle" => th[t].mine = {}
    /\ Seeking(t) => th[t].cur.page = NoPage
    /\ Linking(t) => th[t].cur.page \in Pages
    /\ Writing(t) => th[t].cur.page \in Pages /\ th[t].old.page = NoPage
    /\ th[t].pc = "leave" => th[t].cur.page = NoPage /\ th[t].old.page \in Pages
    /\ Draining(t) \/ th[t].pc = "idle" =>
          th[t].cur.page = NoPage /\ th[t].old.page = NoPage
    /\ th[t].round \subseteq th[t].mine
    /\ Trying(t) => /\ th[t].try \in Pages \cap th[t].mine
                    /\ th[t].try \notin th[t].round
                    /\ th[t].back \in {"purge", "drain"}
    /\ th[t].pc = "dress" => th[t].new \in Pages
    /\ th[t].pc # "dress" => th[t].new = NoPage
    /\ th[t].pc \in {"swap", "dress"} => th[t].then \in {"again", "link", "flush"}
    /\ th[t].headLock => Trying(t)
    /\ th[t].pc = "judge" \/ Flushing(t) => th[t].headLock
    /\ th[t].gotFree => th[t].pc \in {"judge", "pass"} \/ Flushing(t)

\* It holds ssd_free_pages.lock, and the lock of the page it tries if it got
\* it; nobody else can write the page out then.
NeedsFreeLock(t) ==
    th[t].pc \in {"join", "swap", "dress", "again", "place", "link"} \/ th[t].gotFree

LocksOf(t) ==
    /\ NeedsFreeLock(t) => freeLock = t
    /\ th[t].headLock => pageLock[th[t].try] = t
    /\ Flushing(t) => ~page[th[t].try].written_out

\* A locked page that was current still is, or has a writer that waits for
\* its lock, or it has been written out already and may be taken again.
Watched(p) ==
    \/ p = cur_page \/ WritersOf(p) # {} \/ page[p].written_out
    \/ \E u \in Threads : th[u].new = p

\* Where it stands to the current page.
CurrentOf(t) ==
    /\ Seeking(t) => th[t].old.page # cur_page
    /\ Linking(t) => th[t].cur.page # th[t].old.page
    /\ Swapping(t, "link") => th[t].cur.page = cur_page
    /\ (th[t].pc = "link" \/ Writing(t)) /\ th[t].totsize > th[t].cur.room
       => th[t].cur.page # cur_page
    /\ Swapping(t, "again") => page[cur_page].written_out \/ th[t].new = cur_page
    /\ Swapping(t, "flush") => th[t].try = cur_page
    /\ /\ th[t].headLock
       /\ th[t].pc = "try_free" \/ (th[t].pc = "judge" /\ th[t].gotFree)
       => Watched(th[t].try)

\* Nobody writes to the page it is about to use or to write out.
EmptyOf(t) ==
    /\ th[t].pc = "dress" => WritersOf(th[t].new) = {}
    /\ Flushing(t) => WritersOf(th[t].try) = {}

PageCounted(p) ==
    /\ page[p].writers = Cardinality(WritersOf(p))
    /\ page[p].written_out => WritersOf(p) = {}

Protocol ==
    /\ \A t \in Threads : FieldsOf(t) /\ LocksOf(t) /\ CurrentOf(t) /\ EmptyOf(t)
    /\ \A p \in Pages : PageCounted(p)
    /\ PagesKept

IInv == TypeOK /\ ThreadsTyped /\ Protocol

-----------------------------------------------------------------------------
(* The writers of a page. *)

IsWriter(t, p) ==
    \/ p \in {th[t].cur.page, th[t].old.page}
    \/ At(t, "place") /\ p = cur_page

\* Pages on a thread's hands.
HandsOf(t) == th[t].mine \cup {th[t].new, th[t].cur.page}

LEMMA NoPageIsNone == NoPage \notin Pages
BY BoundsAssumption DEF Pages, NoPage

LEMMA WritersFinite ==
    ASSUME NEW p
    PROVE  /\ IsFiniteSet(WritersOf(p)) /\ Cardinality(WritersOf(p)) \in Nat
           /\ Cardinality(WritersOf(p)) = 0 <=> WritersOf(p) = {}
           /\ \A t \in Threads : t \in WritersOf(p) <=> IsWriter(t, p)
<1>1. WritersOf(p) \subseteq Threads
  BY DEF WritersOf
<1>2. IsFiniteSet(WritersOf(p))
  BY <1>1, NamesAssumption, FS_Subset
<1>3. QED
  BY <1>2, FS_CardinalityType, FS_EmptySet DEF WritersOf, IsWriter

\* A step of t changes the writers of a page by t at most.
LEMMA WritersSame ==
    ASSUME NEW t \in Threads, NEW p, IsWriter(t, p)' = IsWriter(t, p),
           \A u \in Threads \ {t} : th'[u] = th[u],
           cur_page' = cur_page \/ \A u \in Threads \ {t} : ~At(u, "place")
    PROVE  WritersOf(p)' = WritersOf(p)
BY DEF WritersOf, IsWriter, At

LEMMA WriterJoins ==
    ASSUME NEW t \in Threads, NEW p, ~IsWriter(t, p), IsWriter(t, p)',
           \A u \in Threads \ {t} : th'[u] = th[u], cur_page' = cur_page
    PROVE  Cardinality(WritersOf(p)') = Cardinality(WritersOf(p)) + 1
<1>1. WritersOf(p)' = WritersOf(p) \cup {t} /\ t \notin WritersOf(p)
  BY DEF WritersOf, IsWriter, At
<1>2. QED
  BY <1>1, WritersFinite, FS_AddElement

LEMMA WriterLeaves ==
    ASSUME NEW t \in Threads, NEW p, IsWriter(t, p), ~IsWriter(t, p)',
           \A u \in Threads \ {t} : th'[u] = th[u], cur_page' = cur_page
    PROVE  /\ Cardinality(WritersOf(p)') = Cardinality(WritersOf(p)) - 1
           /\ WritersOf(p)' \subseteq WritersOf(p) /\ WritersOf(p) # {}
<1>1. WritersOf(p)' = WritersOf(p) \ {t} /\ t \in WritersOf(p)
  BY DEF WritersOf, IsWriter, At
<1>2. QED
  BY <1>1, WritersFinite, FS_RemoveElement

-----------------------------------------------------------------------------
(* What a step of t leaves to the other threads. *)

Others(t) == Threads \ {t}

\* Only t moves, and what other threads have locked is left alone.
Alone(t) ==
    /\ \A u \in Others(t) : th'[u] = th[u]
    /\ \A u \in Others(t) : freeLock = u => freeLock' = u
    /\ \A u \in Others(t), p \in Pages : pageLock[p] = u =>
          /\ pageLock'[p] = u
          /\ page'[p].written_out => page[p].written_out

LEMMA OthersFields ==
    ASSUME IInv, NEW t \in Threads, Alone(t)
    PROVE  \A u \in Others(t) : FieldsOf(u)' /\ LocksOf(u)'
<1> SUFFICES ASSUME NEW u \in Others(t) PROVE FieldsOf(u)' /\ LocksOf(u)'
  OBVIOUS
<1>1. u \in Threads /\ th'[u] = th[u] /\ FieldsOf(u) /\ LocksOf(u)
  BY DEF Alone, Others, IInv, Protocol
<1>2. FieldsOf(u)'
  BY <1>1 DEF FieldsOf, Seeking, Linking, Writing, Draining, Trying, Flushing, Swapping
<1>3. NeedsFreeLock(u)' => freeLock' = u
  BY <1>1 DEF LocksOf, NeedsFreeLock, Alone
<1>4. /\ th'[u].headLock => pageLock'[th'[u].try] = u
      /\ Flushing(u)' => ~page'[th'[u].try].written_out
  <2>1. ASSUME th[u].headLock
        PROVE  /\ pageLock'[th[u].try] = u
               /\ Flushing(u) => ~page'[th[u].try].written_out
    <3>1. th[u].try \in Pages /\ pageLock[th[u].try] = u
      BY <1>1, <2>1 DEF FieldsOf, LocksOf
    <3>2. QED
      BY <1>1, <3>1 DEF LocksOf, Alone
  <2>2. Flushing(u)' => Flushing(u) /\ th[u].headLock
    BY <1>1 DEF Flushing, Swapping, FieldsOf
  <2>3. QED
    BY <1>1, <2>1, <2>2
<1>5. QED
  BY <1>2, <1>3, <1>4 DEF LocksOf

\* What another thread found of a page it has locked stays so.
LEMMA WatchedStays ==
    ASSUME NEW t \in Threads, NEW p \in Pages, \A u \in Others(t) : th'[u] = th[u],
           cur_page' = cur_page, Watched(p),
           WritersOf(p) # {} => WritersOf(p)' # {},
           page[p].written_out => page'[p].written_out \/ th'[t].new = p,
           th[t].new = p => th'[t].new = p
    PROVE  Watched(p)'
<1>1. CASE \E u \in Threads : th[u].new = p
  BY <1>1 DEF Watched, Others
<1>2. CASE ~ \E u \in Threads : th[u].new = p
  BY <1>2 DEF Watched
<1>3. QED
  BY <1>1, <1>2

\* The pages keep their writers and stay written out or not; so does what the
\* others know of the current page.
LEMMA QuietStep ==
    ASSUME IInv, NEW t \in Threads, Alone(t), cur_page' = cur_page,
           th'[t].new = th[t].new,
           \A p \in Pages : /\ page'[p].writers = page[p].writers
                            /\ page'[p].written_out = page[p].written_out,
           \A p \in Pages : IsWriter(t, p)' = IsWriter(t, p),
           FieldsOf(t)', LocksOf(t)', CurrentOf(t)', EmptyOf(t)',
           \A p \in HandsOf(t) \cap Pages : p \in HandsOf(t)' \/ page[p].written_out
    PROVE  Protocol'
<1>0. \A p \in Pages : WritersOf(p)' = WritersOf(p)
  BY WritersSame DEF Alone, Others
<1>1. ASSUME NEW u \in Threads PROVE FieldsOf(u)' /\ LocksOf(u)'
  BY OthersFields DEF Others
<1>2. ASSUME NEW u \in Others(t) PROVE CurrentOf(u)' /\ EmptyOf(u)'
  <2>1. u \in Threads /\ th'[u] = th[u] /\ CurrentOf(u) /\ EmptyOf(u) /\ FieldsOf(u)
    BY DEF Alone, Others, IInv, Protocol
  <2>2. Trying(u) => WritersOf(th[u].try)' = WritersOf(th[u].try)
    BY <1>0, <2>1 DEF FieldsOf, IInv, ThreadsTyped, Thread
  <2>3. th[u].pc = "dress" => WritersOf(th[u].new)' = WritersOf(th[u].new)
    BY <1>0, <2>1 DEF FieldsOf
  <2>4. page'[cur_page].written_out = page[cur_page].written_out
    BY DEF IInv, TypeOK
  <2>5. th[u].headLock /\ Watched(th[u].try) => Watched(th[u].try)'
    <3>1. th[u].headLock => th[u].try \in Pages
      BY <2>1 DEF FieldsOf
    <3>2. \A p \in Pages : Watched(p) => Watched(p)'
      BY <1>0, WatchedStays DEF Alone
    <3>3. QED
      BY <2>1, <3>1, <3>2
  <2>6. CurrentOf(u)'
    BY <2>1, <2>4, <2>5
    DEF CurrentOf, Seeking, Linking, Writing, Trying, Swapping, Flushing
  <2>7. EmptyOf(u)'
    BY <2>1, <2>2, <2>3 DEF EmptyOf, Flushing, Trying, Swapping
  <2>8. QED
    BY <2>6, <2>7
<1>3. ASSUME NEW p \in Pages PROVE PageCounted(p)'
  BY <1>0 DEF PageCounted, IInv, Protocol
<1>4. PagesKept'
  <2>1. ASSUME NEW p \in Pages, ~page'[p].written_out, p # cur_page
        PROVE  \E u \in Threads : p \in HandsOf(u)'
    <3>1. PICK u \in Threads : p \in HandsOf(u)
      BY <2>1 DEF IInv, Protocol, PagesKept, HandsOf
    <3>2. CASE u = t
      BY <2>1, <3>1, <3>2
    <3>3. CASE u # t
      BY <3>1, <3>3 DEF HandsOf, Alone, Others
    <3>4. QED
      BY <3>2, <3>3
  <2>2. QED
    BY <2>1 DEF PagesKept, HandsOf
<1>5. QED
  BY <1>1, <1>2, <1>3, <1>4 DEF Protocol, Others

-----------------------------------------------------------------------------
(* The steps that leave the writers of each page alone. *)

\* th is a function on Threads, and a thread is one of its own.
LEMMA InvFacts ==
    ASSUME IInv, NEW t \in Threads
    PROVE  /\ th \in [Threads -> Thread] /\ th[t] \in Thread
           /\ FieldsOf(t) /\ LocksOf(t) /\ CurrentOf(t) /\ EmptyOf(t)
           /\ cur_page \in Pages
           /\ t # Nobody
           /\ freeLock \in Threads \cup {Nobody}
           /\ pageLock \in [Pages -> Threads \cup {Nobody}]
           /\ page \in [Pages -> PageHeader]
BY NamesAssumption DEF IInv, ThreadsTyped, Protocol, TypeOK

LEMMA BeginSetKeeps ==
    ASSUME IInv, NEW t \in Threads, NEW k \in Keys, NEW s \in Sizes, BeginSet(t, k, s)
    PROVE  Protocol'
<1>1. /\ th[t].pc = "idle" /\ th'[t].pc = "page" /\ th'[t].key = k
      /\ th'[t].old = NoChunk /\ th'[t].cur = NoChunk /\ th'[t].mine = {}
      /\ th'[t].new = NoPage /\ ~th'[t].gotFree /\ ~th'[t].headLock
      /\ th'[t].round = {} /\ NoChunk.page = NoPage
      /\ Alone(t)
  BY InvFacts DEF BeginSet, At, Idle, NoChunk, Alone, Others, place
<1>2. th[t].mine = {} /\ th[t].new = NoPage
      /\ th[t].cur.page = NoPage /\ th[t].old.page = NoPage
  BY <1>1, InvFacts DEF FieldsOf
<1>3. UNCHANGED <<page, cur_page>>
  BY DEF BeginSet, place
<1>4. FieldsOf(t)' /\ LocksOf(t)' /\ CurrentOf(t)' /\ EmptyOf(t)'
  BY <1>1, <1>3, NoPageIsNone, InvFacts
  DEF FieldsOf, LocksOf, CurrentOf, EmptyOf, NeedsFreeLock, Seeking, Linking,
      Writing, Draining, Trying, Flushing, Swapping
<1>5. \A p \in Pages : IsWriter(t, p)' = IsWriter(t, p)
  BY <1>1, <1>2, <1>3, NoPageIsNone DEF IsWriter, At
<1>6. \A p \in HandsOf(t) \cap Pages : FALSE
  BY <1>2, NoPageIsNone DEF HandsOf
<1>7. QED
  BY <1>1, <1>2, <1>3, <1>4, <1>5, <1>6, QuietStep

LEMMA EndSetKeeps ==
    ASSUME IInv, NEW t \in Threads, EndSet(t)
    PROVE  Protocol'
<1>1. /\ th[t].pc = "drain" /\ th[t].mine = {} /\ th'[t].pc = "idle"
      /\ th'[t].old = NoChunk /\ th'[t].cur = NoChunk /\ th'[t].mine = {}
      /\ th'[t].new = NoPage /\ ~th'[t].gotFree /\ ~th'[t].headLock
      /\ th'[t].round = {} /\ NoChunk.page = NoPage
      /\ Alone(t)
  BY InvFacts DEF EndSet, At, Idle, NoChunk, Alone, Others, place
<1>2. th[t].new = NoPage /\ th[t].cur.page = NoPage /\ th[t].old.page = NoPage
  BY <1>1, InvFacts DEF FieldsOf, Draining
<1>3. UNCHANGED <<page, cur_page>>
  BY DEF EndSet, place
<1>4. FieldsOf(t)' /\ LocksOf(t)' /\ CurrentOf(t)' /\ EmptyOf(t)'
  BY <1>1, <1>3
  DEF FieldsOf, LocksOf, CurrentOf, EmptyOf, NeedsFreeLock, Seeking, Linking,
      Writing, Draining, Trying, Flushing, Swapping
<1>5. \A p \in Pages : IsWriter(t, p)' = IsWriter(t, p)
  BY <1>1, <1>2, <1>3, NoPageIsNone DEF IsWriter, At
<1>6. \A p \in HandsOf(t) \cap Pages : FALSE
  BY <1>1, <1>2, NoPageIsNone DEF HandsOf
<1>7. QED
  BY <1>1, <1>2, <1>3, <1>4, <1>5, <1>6, QuietStep

\* A thread that keeps its chunks and its pages keeps its place as a writer.
LEMMA SameHands ==
    ASSUME NEW t \in Threads, cur_page' = cur_page,
           th'[t].old = th[t].old, th'[t].cur = th[t].cur,
           th'[t].mine = th[t].mine, th'[t].new = th[t].new,
           th[t].pc # "place", th'[t].pc # "place"
    PROVE  /\ \A p \in Pages : IsWriter(t, p)' = IsWriter(t, p)
           /\ \A p \in HandsOf(t) \cap Pages : p \in HandsOf(t)' \/ page[p].written_out
BY DEF IsWriter, At, HandsOf

LEMMA LockFreePagesKeeps ==
    ASSUME IInv, NEW t \in Threads, LockFreePages(t)
    PROVE  Protocol'
<1>1. /\ th[t].pc = "page" /\ th' = [th EXCEPT ![t].pc = "join"]
      /\ freeLock = Nobody /\ freeLock' = t
      /\ UNCHANGED <<page, cur_page, pageLock>>
  BY DEF LockFreePages, Goto, At
<1>2. /\ th'[t] = [th[t] EXCEPT !.pc = "join"] /\ Alone(t)
  BY <1>1, InvFacts, NamesAssumption DEF Alone, Others
<1>3. /\ th'[t].pc = "join" /\ th'[t].key = th[t].key /\ th'[t].mine = th[t].mine
      /\ th'[t].old = th[t].old /\ th'[t].cur = th[t].cur /\ th'[t].new = th[t].new
      /\ th'[t].gotFree = th[t].gotFree
      /\ th'[t].headLock = th[t].headLock /\ th'[t].round = th[t].round
  BY <1>2, InvFacts DEF Thread
<1>4. FieldsOf(t)' /\ LocksOf(t)' /\ CurrentOf(t)' /\ EmptyOf(t)'
  BY <1>1, <1>3, InvFacts
  DEF FieldsOf, LocksOf, CurrentOf, EmptyOf, NeedsFreeLock, Seeking, Linking,
      Writing, Draining, Trying, Flushing, Swapping
<1>5. QED
  BY <1>1, <1>2, <1>3, <1>4, SameHands, QuietStep

LEMMA AgainKeeps ==
    ASSUME IInv, NEW t \in Threads, Again(t)
    PROVE  Protocol'
<1>1. /\ th[t].pc = "again" /\ th' = [th EXCEPT ![t].pc = "page"]
      /\ freeLock' = Nobody /\ UNCHANGED <<page, cur_page, pageLock>>
  BY DEF Again, Goto, At
<1>2. freeLock = t
  BY <1>1, InvFacts DEF LocksOf, NeedsFreeLock
<1>3. /\ th'[t] = [th[t] EXCEPT !.pc = "page"] /\ Alone(t)
  BY <1>1, <1>2, InvFacts DEF Alone, Others
<1>4. /\ th'[t].pc = "page" /\ th'[t].key = th[t].key /\ th'[t].mine = th[t].mine
      /\ th'[t].old = th[t].old /\ th'[t].cur = th[t].cur /\ th'[t].new = th[t].new
      /\ th'[t].gotFree = th[t].gotFree
      /\ th'[t].headLock = th[t].headLock /\ th'[t].round = th[t].round
  BY <1>3, InvFacts DEF Thread
<1>5. FieldsOf(t)' /\ LocksOf(t)' /\ CurrentOf(t)' /\ EmptyOf(t)'
  BY <1>1, <1>4, InvFacts
  DEF FieldsOf, LocksOf, CurrentOf, EmptyOf, NeedsFreeLock, Seeking, Linking,
      Writing, Draining, Trying, Flushing, Swapping
<1>6. QED
  BY <1>1, <1>3, <1>4, <1>5, SameHands, QuietStep

\* A writer that finds the current page written out goes on to replace it.
LEMMA JoinWrittenOutKeeps ==
    ASSUME IInv, NEW t \in Threads, JoinPage(t), page[cur_page].written_out
    PROVE  Protocol'
<1>1. /\ th[t].pc = "join" /\ UNCHANGED <<page, cur_page, pageLock, freeLock>>
      /\ th' = [th EXCEPT ![t] = [th[t] EXCEPT !.pc = "swap", !.then = "again"]]
  BY DEF JoinPage, At, place
<1>2. /\ th'[t] = [th[t] EXCEPT !.pc = "swap", !.then = "again"] /\ Alone(t)
  BY <1>1, InvFacts DEF Alone, Others
<1>3. /\ th'[t].pc = "swap" /\ th'[t].then = "again"
      /\ th'[t].key = th[t].key /\ th'[t].mine = th[t].mine
      /\ th'[t].old = th[t].old /\ th'[t].cur = th[t].cur /\ th'[t].new = th[t].new
      /\ th'[t].gotFree = th[t].gotFree
      /\ th'[t].headLock = th[t].headLock /\ th'[t].round = th[t].round
  BY <1>2, InvFacts DEF Thread
<1>4. FieldsOf(t)' /\ LocksOf(t)' /\ CurrentOf(t)' /\ EmptyOf(t)'
  BY <1>1, <1>3, InvFacts
  DEF FieldsOf, LocksOf, CurrentOf, EmptyOf, NeedsFreeLock, Seeking, Linking,
      Writing, Draining, Trying, Flushing, Swapping
<1>5. QED
  BY <1>1, <1>2, <1>3, <1>4, SameHands, QuietStep

\* The chunk is placed while no other thread can place one.
LEMMA PlaceChunkKeeps ==
    ASSUME IInv, NEW t \in Threads, PlaceChunk(t)
    PROVE  Protocol'
<1> DEFINE s == th[t].totsize
           c == [page |-> cur_page, num |-> page_num, at |-> offset, room |-> Rest]
           label == IF UsesUpPage(s) THEN "swap" ELSE "link"
           r == [th[t] EXCEPT !.pc = label, !.then = "link", !.cur = c]
<1>1. /\ th[t].pc = "place" /\ th' = [th EXCEPT ![t] = r]
      /\ UNCHANGED <<cur_page, pageLock, freeLock>>
      /\ page' = [page EXCEPT ![cur_page].consumed = @ \/ UsesUpPage(s)]
  BY DEF PlaceChunk, At
<1>2. \A p \in Pages : /\ page'[p].writers = page[p].writers
                       /\ page'[p].written_out = page[p].written_out
  BY <1>1, InvFacts DEF PageHeader
<1>3. th'[t] = r /\ Alone(t)
  BY <1>1, <1>2, InvFacts DEF Alone, Others
<1>4. /\ th'[t].pc = label /\ th'[t].then = "link" /\ th'[t].cur = c
      /\ th'[t].key = th[t].key /\ th'[t].mine = th[t].mine
      /\ th'[t].old = th[t].old /\ th'[t].new = th[t].new
      /\ th'[t].gotFree = th[t].gotFree /\ th'[t].totsize = th[t].totsize
      /\ th'[t].headLock = th[t].headLock /\ th'[t].round = th[t].round
  BY <1>3, InvFacts DEF Thread
<1>5. c.page = cur_page /\ c.room = Rest /\ cur_page \in Pages
  BY InvFacts
<1>6. label = "link" => ~(s > Rest)
  BY DEF UsesUpPage
<1>7. FieldsOf(t)' /\ LocksOf(t)' /\ CurrentOf(t)' /\ EmptyOf(t)'
  <2>1. CASE label = "link"
    BY <1>1, <1>4, <1>5, <1>6, <2>1, InvFacts
    DEF FieldsOf, LocksOf, CurrentOf, EmptyOf, NeedsFreeLock, Seeking, Linking,
      Writing, Draining, Trying, Flushing, Swapping
  <2>2. CASE label = "swap"
    BY <1>1, <1>4, <1>5, <2>2, InvFacts
    DEF FieldsOf, LocksOf, CurrentOf, EmptyOf, NeedsFreeLock, Seeking, Linking,
      Writing, Draining, Trying, Flushing, Swapping
  <2>3. QED
    BY <2>1, <2>2
<1>8. th[t].cur.page = NoPage
  BY <1>1, InvFacts DEF FieldsOf, Seeking
<1>9. \A p \in Pages : IsWriter(t, p)' = IsWriter(t, p)
  BY <1>1, <1>4, <1>5, <1>8, NoPageIsNone DEF IsWriter, At
<1>10. \A p \in HandsOf(t) \cap Pages : p \in HandsOf(t)'
  BY <1>4, <1>8, NoPageIsNone DEF HandsOf
<1>11. QED
  BY <1>1, <1>3, <1>7, <1>2, <1>9, <1>10, QuietStep

\* The chunk written becomes the one before; its page goes on the array.
LEMMA WriteChunkKeeps ==
    ASSUME IInv, NEW t \in Threads, WriteChunk(t)
    PROVE  Protocol'
<1> DEFINE c == th[t].cur
           n == IF th[t].totsize > c.room THEN c.room ELSE th[t].totsize
           label == IF th[t].totsize > n THEN "page" ELSE "leave"
           r == [th[t] EXCEPT !.mine = th[t].mine \cup {c.page}, !.old = c,
                              !.cur = NoChunk, !.totsize = th[t].totsize - n,
                              !.pc = label]
<1>1. /\ th[t].pc = "write" /\ th' = [th EXCEPT ![t] = r]
      /\ UNCHANGED <<cur_page, pageLock, freeLock>>
      /\ page' = [page EXCEPT ![c.page].recent = TRUE]
  BY DEF WriteChunk, At, place
<1>2. \A p \in Pages : /\ page'[p].writers = page[p].writers
                       /\ page'[p].written_out = page[p].written_out
  BY <1>1, InvFacts DEF PageHeader
<1>3. th'[t] = r /\ Alone(t)
  BY <1>1, <1>2, InvFacts DEF Alone, Others
<1>4. /\ th'[t].pc = label /\ th'[t].cur = NoChunk /\ th'[t].old = c
      /\ th'[t].key = th[t].key /\ th'[t].mine = th[t].mine \cup {c.page}
      /\ th'[t].new = th[t].new /\ th'[t].gotFree = th[t].gotFree
      /\ th'[t].headLock = th[t].headLock /\ th'[t].round = th[t].round
  BY <1>3, InvFacts DEF Thread
<1>5. /\ c.page \in Pages /\ th[t].old.page = NoPage
      /\ th[t].totsize > c.room => c.page # cur_page
  BY <1>1, InvFacts DEF FieldsOf, CurrentOf, Writing
<1>6. label = "page" => th[t].totsize > c.room
  <2>1. th[t].totsize \in Nat /\ c.room \in Nat
    BY InvFacts DEF Thread, ChunkPlace
  <2>2. QED
    BY <2>1
<1>7. NoChunk.page = NoPage
  BY DEF NoChunk
<1>8. FieldsOf(t)' /\ LocksOf(t)' /\ CurrentOf(t)' /\ EmptyOf(t)'
  <2>1. CASE label = "page"
    BY <1>1, <1>4, <1>5, <1>6, <1>7, <2>1, InvFacts
    DEF FieldsOf, LocksOf, CurrentOf, EmptyOf, NeedsFreeLock, Seeking, Linking,
      Writing, Draining, Trying, Flushing, Swapping
  <2>2. CASE label = "leave"
    BY <1>1, <1>4, <1>5, <1>7, <2>2, InvFacts
    DEF FieldsOf, LocksOf, CurrentOf, EmptyOf, NeedsFreeLock, Seeking, Linking,
      Writing, Draining, Trying, Flushing, Swapping
  <2>3. QED
    BY <2>1, <2>2
<1>9. \A p \in Pages : IsWriter(t, p)' = IsWriter(t, p)
  BY <1>1, <1>4, <1>5, <1>7, NoPageIsNone DEF IsWriter, At
<1>10. \A p \in HandsOf(t) \cap Pages : p \in HandsOf(t)'
  BY <1>4 DEF HandsOf
<1>11. QED
  BY <1>1, <1>3, <1>8, <1>2, <1>9, <1>10, QuietStep

LEMMA EndPurgeKeeps ==
    ASSUME IInv, NEW t \in Threads, EndPurge(t)
    PROVE  Protocol'
<1>1. /\ th[t].pc = "purge" /\ th' = [th EXCEPT ![t].pc = "write"]
      /\ UNCHANGED <<page, cur_page, pageLock, freeLock>>
  BY DEF EndPurge, Goto, At, place
<1>2. /\ th'[t] = [th[t] EXCEPT !.pc = "write"] /\ Alone(t)
  BY <1>1, InvFacts DEF Alone, Others
<1>3. /\ th'[t].pc = "write" /\ th'[t].key = th[t].key /\ th'[t].mine = th[t].mine
      /\ th'[t].old = th[t].old /\ th'[t].cur = th[t].cur /\ th'[t].new = th[t].new
      /\ th'[t].gotFree = th[t].gotFree /\ th'[t].totsize = th[t].totsize
      /\ th'[t].headLock = th[t].headLock /\ th'[t].round = th[t].round
  BY <1>2, InvFacts DEF Thread
<1>4. FieldsOf(t)' /\ LocksOf(t)' /\ CurrentOf(t)' /\ EmptyOf(t)'
  BY <1>1, <1>3, InvFacts
  DEF FieldsOf, LocksOf, CurrentOf, EmptyOf, NeedsFreeLock, Seeking, Linking,
      Writing, Draining, Trying, Flushing, Swapping
<1>5. QED
  BY <1>1, <1>2, <1>3, <1>4, SameHands, QuietStep

LEMMA NextRoundKeeps ==
    ASSUME IInv, NEW t \in Threads, NextRound(t)
    PROVE  Protocol'
<1>1. /\ th[t].pc \in {"purge", "drain"} /\ th' = [th EXCEPT ![t].round = th[t].mine]
      /\ UNCHANGED <<page, cur_page, pageLock, freeLock>>
  BY DEF NextRound, Scanning, place
<1>2. /\ th'[t] = [th[t] EXCEPT !.round = th[t].mine] /\ Alone(t)
  BY <1>1, InvFacts DEF Alone, Others
<1>3. /\ th'[t].pc = th[t].pc /\ th'[t].key = th[t].key /\ th'[t].mine = th[t].mine
      /\ th'[t].old = th[t].old /\ th'[t].cur = th[t].cur /\ th'[t].new = th[t].new
      /\ th'[t].gotFree = th[t].gotFree /\ th'[t].totsize = th[t].totsize
      /\ th'[t].headLock = th[t].headLock /\ th'[t].round = th[t].mine
  BY <1>2, InvFacts DEF Thread
<1>4. FieldsOf(t)' /\ LocksOf(t)' /\ CurrentOf(t)' /\ EmptyOf(t)'
  BY <1>1, <1>3, InvFacts
  DEF FieldsOf, LocksOf, CurrentOf, EmptyOf, NeedsFreeLock, Seeking, Linking,
      Writing, Draining, Trying, Flushing, Swapping
<1>5. QED
  BY <1>1, <1>2, <1>3, <1>4, SameHands, QuietStep

LEMMA TryPageKeeps ==
    ASSUME IInv, NEW t \in Threads, TryPage(t)
    PROVE  Protocol'
<1> DEFINE Tried(q, got) == [th[t] EXCEPT !.pc = "current",
                                          !.round = th[t].round \ {q}, !.try = q,
                                          !.headLock = got, !.back = th[t].pc]
<1>1. PICK q \in th[t].round :
         /\ pageLock' = [pageLock EXCEPT ![q] = IF @ = Nobody THEN t ELSE @]
         /\ th' = [th EXCEPT ![t] =
               [@ EXCEPT !.pc = "current", !.round = th[t].round \ {q}, !.try = q,
                         !.headLock = pageLock[q] = Nobody, !.back = th[t].pc]]
  BY DEF TryPage
<1>2. /\ th[t].pc \in {"purge", "drain"} /\ UNCHANGED <<page, cur_page, freeLock>>
  BY DEF TryPage, Scanning, place
<1>3. q \in Pages
  BY InvFacts DEF Thread
<1> DEFINE got == pageLock[q] = Nobody
           r == Tried(q, got)
<1>4. /\ th'[t] = r /\ Alone(t) /\ (got => pageLock'[q] = t)
  <2>1. th' = [th EXCEPT ![t] = r]
    BY <1>1, Zenon
  <2> HIDE DEF r
  <2>2. th'[t] = r /\ \A u \in Others(t) : th'[u] = th[u]
    BY <2>1, InvFacts DEF Others
  <2>3. \A p \in Pages : pageLock'[p] = IF p = q /\ got THEN t ELSE pageLock[p]
    BY <1>1, InvFacts
  <2>4. \A u \in Others(t), p \in Pages : pageLock[p] = u => pageLock'[p] = u
    BY <2>3, NamesAssumption DEF Others
  <2>5. QED
    BY <1>2, <1>3, <2>2, <2>3, <2>4 DEF Alone
<1>5. /\ th'[t].pc = "current" /\ th'[t].try = q /\ th'[t].back = th[t].pc
      /\ th'[t].key = th[t].key /\ th'[t].mine = th[t].mine
      /\ th'[t].old = th[t].old /\ th'[t].cur = th[t].cur /\ th'[t].new = th[t].new
      /\ th'[t].gotFree = th[t].gotFree /\ th'[t].totsize = th[t].totsize
      /\ th'[t].headLock = got /\ th'[t].round = th[t].round \ {q}
  BY <1>4, InvFacts, Zenon DEF Thread
<1>6. q \in th[t].mine /\ (th'[t].headLock => pageLock'[th'[t].try] = t)
  BY <1>4, <1>5, InvFacts DEF FieldsOf
<1>7. FieldsOf(t)' /\ LocksOf(t)' /\ CurrentOf(t)' /\ EmptyOf(t)'
  <2> HIDE DEF got, r
  <2>1. QED
    BY <1>2, <1>3, <1>5, <1>6, InvFacts
    DEF FieldsOf, LocksOf, CurrentOf, EmptyOf, NeedsFreeLock, Seeking, Linking,
        Writing, Draining, Trying, Flushing, Swapping
<1>8. QED
  BY <1>2, <1>4, <1>5, <1>7, SameHands, QuietStep

LEMMA CheckCurrentKeeps ==
    ASSUME IInv, NEW t \in Threads, CheckCurrent(t)
    PROVE  Protocol'
<1> DEFINE label == IF cur_page = th[t].try THEN "try_free"
                    ELSE IF th[t].headLock THEN "judge" ELSE "pass"
<1>1. /\ th[t].pc = "current" /\ th' = [th EXCEPT ![t].pc = label]
      /\ UNCHANGED <<page, cur_page, pageLock, freeLock>>
  BY DEF CheckCurrent, Goto, At, place
<1>2. th'[t] = [th[t] EXCEPT !.pc = label] /\ Alone(t)
  BY <1>1, InvFacts DEF Alone, Others
<1>3. /\ th'[t].pc = label /\ th'[t].key = th[t].key /\ th'[t].mine = th[t].mine
      /\ th'[t].old = th[t].old /\ th'[t].cur = th[t].cur /\ th'[t].new = th[t].new
      /\ th'[t].gotFree = th[t].gotFree /\ th'[t].totsize = th[t].totsize
      /\ th'[t].headLock = th[t].headLock /\ th'[t].round = th[t].round
      /\ th'[t].try = th[t].try /\ th'[t].back = th[t].back
  BY <1>2, InvFacts DEF Thread
<1>4. cur_page = th[t].try => Watched(th[t].try)'
  BY <1>1, <1>3 DEF Watched
<1>5. FieldsOf(t)' /\ LocksOf(t)' /\ CurrentOf(t)' /\ EmptyOf(t)'
  <2>1. CASE label = "try_free"
    BY <1>1, <1>3, <1>4, <2>1, InvFacts
    DEF FieldsOf, LocksOf, CurrentOf, EmptyOf, NeedsFreeLock, Seeking, Linking,
        Writing, Draining, Trying, Flushing, Swapping
  <2>2. CASE label # "try_free"
    BY <1>1, <1>3, <2>2, InvFacts
    DEF FieldsOf, LocksOf, CurrentOf, EmptyOf, NeedsFreeLock, Seeking, Linking,
        Writing, Draining, Trying, Flushing, Swapping
  <2>3. QED
    BY <2>1, <2>2
<1>6. QED
  BY <1>1, <1>2, <1>3, <1>5, SameHands, QuietStep

LEMMA TryFreePagesKeeps ==
    ASSUME IInv, NEW t \in Threads, TryFreePages(t)
    PROVE  Protocol'
<1> DEFINE got == freeLock = Nobody
           label == IF got /\ th[t].headLock THEN "judge" ELSE "pass"
<1>1. /\ th[t].pc = "try_free" /\ UNCHANGED <<page, cur_page, pageLock>>
      /\ freeLock' = IF got THEN t ELSE freeLock
      /\ th' = [th EXCEPT ![t] = [th[t] EXCEPT !.gotFree = got, !.pc = label]]
  BY DEF TryFreePages, At
<1>2. th'[t] = [th[t] EXCEPT !.gotFree = got, !.pc = label] /\ Alone(t)
  BY <1>1, InvFacts, NamesAssumption DEF Alone, Others
<1>3. /\ th'[t].pc = label /\ th'[t].key = th[t].key /\ th'[t].mine = th[t].mine
      /\ th'[t].old = th[t].old /\ th'[t].cur = th[t].cur /\ th'[t].new = th[t].new
      /\ th'[t].gotFree = got /\ th'[t].totsize = th[t].totsize
      /\ th'[t].headLock = th[t].headLock /\ th'[t].round = th[t].round
      /\ th'[t].try = th[t].try /\ th'[t].back = th[t].back
  BY <1>2, InvFacts DEF Thread
<1>4. /\ \A p \in Pages : IsWriter(t, p)' = IsWriter(t, p)
      /\ \A p \in HandsOf(t) \cap Pages : p \in HandsOf(t)' \/ page[p].written_out
  BY <1>1, <1>3, SameHands
<1>5. th[t].headLock => Watched(th[t].try)'
  <2>1. th[t].try \in Pages /\ (th[t].headLock => Watched(th[t].try))
    BY <1>1, InvFacts DEF FieldsOf, CurrentOf, Trying
  <2>2. WritersOf(th[t].try)' = WritersOf(th[t].try)
    BY <1>1, <1>2, <1>3, <1>4, <2>1, WritersSame DEF Alone, Others
  <2>3. \A p \in Pages : WritersOf(p)' = WritersOf(p) /\ Watched(p) => Watched(p)'
    BY <1>1, <1>2, <1>3, WatchedStays DEF Alone
  <2>4. QED
    BY <1>3, <2>1, <2>2, <2>3
<1>6. FieldsOf(t)' /\ LocksOf(t)' /\ CurrentOf(t)' /\ EmptyOf(t)'
  <2>1. CASE got /\ th[t].headLock
    BY <1>1, <1>3, <1>5, <2>1, InvFacts
    DEF FieldsOf, LocksOf, CurrentOf, EmptyOf, NeedsFreeLock, Seeking, Linking,
        Writing, Draining, Trying, Flushing, Swapping
  <2>2. CASE ~th[t].headLock
    <3>1. /\ th'[t].pc = "pass" /\ ~th'[t].headLock
          /\ th'[t].gotFree => freeLock' = t
      BY <1>1, <1>3, <2>2
    <3>2. QED
      BY <1>1, <1>3, <3>1, InvFacts
      DEF FieldsOf, LocksOf, CurrentOf, EmptyOf, NeedsFreeLock, Seeking, Linking,
          Writing, Draining, Trying, Flushing, Swapping
  <2>3. CASE ~got
    <3>1. th'[t].pc = "pass" /\ ~th'[t].gotFree
      BY <1>1, <1>3, <2>3
    <3>2. QED
      BY <1>1, <1>3, <3>1, InvFacts
      DEF FieldsOf, LocksOf, CurrentOf, EmptyOf, NeedsFreeLock, Seeking, Linking,
          Writing, Draining, Trying, Flushing, Swapping
  <2>4. QED
    BY <2>1, <2>2, <2>3
<1>7. QED
  BY <1>1, <1>2, <1>3, <1>4, <1>6, QuietStep

\* The locks got for a page are let go; a page that was written out is forgotten.
LEMMA LetGoKeeps ==
    ASSUME IInv, NEW t \in Threads, th[t].pc \in {"judge", "pass"}, Release(t),
           th' = [th EXCEPT ![t] = IF page[th[t].try].written_out
                                   THEN Forgotten(t) ELSE Kept(t)],
           UNCHANGED <<page, cur_page>>
    PROVE  Protocol'
<1> DEFINE q == th[t].try
           r == IF page[q].written_out THEN Forgotten(t) ELSE Kept(t)
<1>1. /\ q \in Pages /\ th[t].back \in {"purge", "drain"}
      /\ th[t].headLock => pageLock[q] = t
      /\ th[t].gotFree => freeLock = t
  BY InvFacts DEF FieldsOf, LocksOf, Trying, NeedsFreeLock
<1>2. th'[t] = r /\ Alone(t)
  BY <1>1, InvFacts DEF Alone, Others, Release
<1>3. /\ th'[t].pc = th[t].back /\ th'[t].key = th[t].key
      /\ th'[t].old = th[t].old /\ th'[t].cur = th[t].cur /\ th'[t].new = th[t].new
      /\ ~th'[t].gotFree /\ ~th'[t].headLock /\ th'[t].totsize = th[t].totsize
      /\ th'[t].round = th[t].round /\ th[t].mine \ {q} \subseteq th'[t].mine
      /\ \A p \in th[t].mine : p \in th'[t].mine \/ page[p].written_out
  BY <1>2, InvFacts DEF Thread, Kept, Forgotten
<1>4. FieldsOf(t)' /\ LocksOf(t)' /\ CurrentOf(t)' /\ EmptyOf(t)'
  BY <1>1, <1>3, InvFacts
  DEF FieldsOf, LocksOf, CurrentOf, EmptyOf, NeedsFreeLock, Seeking, Linking,
      Writing, Draining, Trying, Flushing, Swapping
<1>5. \A p \in Pages : IsWriter(t, p)' = IsWriter(t, p)
  BY <1>1, <1>3 DEF IsWriter, At
<1>6. \A p \in HandsOf(t) \cap Pages : p \in HandsOf(t)' \/ page[p].written_out
  BY <1>3 DEF HandsOf
<1>7. QED
  BY <1>2, <1>3, <1>4, <1>5, <1>6, QuietStep

\* A page judged to be free of writers is, and stays so, as its lock is held.
LEMMA JudgeKeeps ==
    ASSUME IInv, NEW t \in Threads, Judge(t)
    PROVE  Protocol'
<1> DEFINE q == th[t].try
           go == At(t, "judge") /\ ~page[q].written_out /\ CanWriteOut(q)
           label == IF th[t].gotFree THEN "swap" ELSE "flush"
<1>1. th[t].pc \in {"judge", "pass"} /\ UNCHANGED <<page, cur_page>>
  BY DEF Judge
<1>2. CASE ~go
  BY <1>1, <1>2, LetGoKeeps DEF Judge
<1>3. CASE go
  <2>1. /\ UNCHANGED <<pageLock, freeLock>>
        /\ th' = [th EXCEPT ![t] = [th[t] EXCEPT !.pc = label, !.then = "flush"]]
        /\ th[t].pc = "judge" /\ th[t].headLock /\ ~page[q].written_out
    BY <1>3, InvFacts DEF Judge, At, FieldsOf
  <2>2. th'[t] = [th[t] EXCEPT !.pc = label, !.then = "flush"] /\ Alone(t)
    BY <1>1, <2>1, InvFacts DEF Alone, Others
  <2>3. /\ th'[t].pc = label /\ th'[t].then = "flush"
        /\ th'[t].key = th[t].key /\ th'[t].mine = th[t].mine
        /\ th'[t].old = th[t].old /\ th'[t].cur = th[t].cur /\ th'[t].new = th[t].new
        /\ th'[t].gotFree = th[t].gotFree /\ th'[t].totsize = th[t].totsize
        /\ th'[t].headLock = th[t].headLock /\ th'[t].round = th[t].round
        /\ th'[t].try = th[t].try /\ th'[t].back = th[t].back
    BY <2>2, InvFacts DEF Thread
  <2>4. /\ \A p \in Pages : IsWriter(t, p)' = IsWriter(t, p)
        /\ \A p \in HandsOf(t) \cap Pages : p \in HandsOf(t)' \/ page[p].written_out
    BY <1>1, <2>1, <2>3, SameHands
  <2>5. q \in Pages /\ pageLock[q] = t
    BY <2>1, InvFacts DEF FieldsOf, LocksOf
  <2>6. WritersOf(q) = {}
    <3>1. page[q].writers <= 0 /\ page[q].writers = Cardinality(WritersOf(q))
      BY <1>3, <2>5 DEF CanWriteOut, IInv, Protocol, PageCounted
    <3>2. QED
      BY <3>1, WritersFinite
  <2>7. WritersOf(q)' = {}
    BY <1>1, <2>2, <2>4, <2>5, <2>6, WritersSame DEF Alone, Others
  <2>8. th[t].gotFree => q = cur_page
    <3>1. ASSUME th[t].gotFree PROVE q = cur_page
      <4>1. freeLock = t /\ Watched(q)
        BY <2>1, <3>1, InvFacts DEF LocksOf, NeedsFreeLock, CurrentOf
      <4>2. \A u \in Threads : th[u].new # q
        <5>1. ASSUME NEW u \in Threads, th[u].pc = "dress" PROVE FALSE
          BY <2>1, <4>1, <5>1, InvFacts DEF LocksOf, NeedsFreeLock
        <5>2. QED
          BY <2>5, <5>1, NoPageIsNone, InvFacts DEF FieldsOf
      <4>3. QED
        BY <2>1, <2>6, <4>1, <4>2 DEF Watched
    <3>2. QED
      BY <3>1
  <2>9. FieldsOf(t)' /\ LocksOf(t)' /\ CurrentOf(t)' /\ EmptyOf(t)'
    <3>1. CASE th[t].gotFree
      BY <1>1, <2>1, <2>3, <2>7, <2>8, <3>1, InvFacts
      DEF FieldsOf, LocksOf, CurrentOf, EmptyOf, NeedsFreeLock, Seeking, Linking,
          Writing, Draining, Trying, Flushing, Swapping
    <3>2. CASE ~th[t].gotFree
      BY <1>1, <2>1, <2>3, <2>7, <3>2, InvFacts
      DEF FieldsOf, LocksOf, CurrentOf, EmptyOf, NeedsFreeLock, Seeking, Linking,
          Writing, Draining, Trying, Flushing, Swapping
    <3>3. QED
      BY <3>1, <3>2
  <2>10. QED
    BY <1>1, <2>2, <2>3, <2>4, <2>9, QuietStep
<1>4. QED
  BY <1>2, <1>3

-----------------------------------------------------------------------------
(* The steps that change pages, their writers or the current page. *)

\* With the current page kept, the others know what they knew, if no page they
\* swap for, try or are to use gains a writer.
LEMMA OthersStay ==
    ASSUME IInv, NEW t \in Threads, Alone(t), cur_page' = cur_page,
           \A u \in Others(t) : Swapping(u, "again") /\ page[cur_page].written_out =>
               page'[cur_page].written_out,
           \A u \in Others(t), p \in Pages :
               pageLock[p] = u /\ WritersOf(p) # {} => WritersOf(p)' # {},
           \A p \in Pages :
               /\ page[p].written_out => page'[p].written_out \/ th'[t].new = p
               /\ th[t].new = p => th'[t].new = p,
           \A u \in Others(t) : /\ th[u].pc = "dress" => WritersOf(th[u].new)' = {}
                                /\ Flushing(u) => WritersOf(th[u].try)' = {},
           FieldsOf(t)', LocksOf(t)', CurrentOf(t)', EmptyOf(t)'
    PROVE  \A u \in Threads : FieldsOf(u)' /\ LocksOf(u)' /\ CurrentOf(u)' /\ EmptyOf(u)'
<1>1. ASSUME NEW u \in Others(t) PROVE CurrentOf(u)' /\ EmptyOf(u)'
  <2>1. u \in Threads /\ th'[u] = th[u] /\ CurrentOf(u) /\ FieldsOf(u) /\ LocksOf(u)
    BY DEF Alone, Others, IInv, Protocol
  <2>2. th[u].headLock => th[u].try \in Pages /\ pageLock[th[u].try] = u
    BY <2>1 DEF FieldsOf, LocksOf
  <2>3. th[u].headLock /\ Watched(th[u].try) => Watched(th[u].try)'
    <3>1. \A p \in Pages : pageLock[p] = u /\ Watched(p) => Watched(p)'
      BY WatchedStays DEF Alone
    <3>2. QED
      BY <2>1, <2>2, <3>1
  <2>4. CurrentOf(u)'
    BY <2>1, <2>3
    DEF CurrentOf, Seeking, Linking, Writing, Trying, Swapping, Flushing
  <2>5. EmptyOf(u)'
    BY <2>1 DEF EmptyOf, Flushing, Trying, Swapping
  <2>6. QED
    BY <2>4, <2>5
<1>2. QED
  BY <1>1, OthersFields DEF Others

\* Pages stay in the hands of some thread or leave them written out.
LEMMA PagesStay ==
    ASSUME IInv, NEW t \in Threads, Alone(t),
           \A p \in Pages : ~page'[p].written_out =>
               ~page[p].written_out \/ p \in HandsOf(t)',
           \A p \in HandsOf(t) \cap Pages :
               p \in HandsOf(t)' \/ page'[p].written_out \/ p = cur_page',
           ~page'[cur_page].written_out => cur_page' = cur_page \/ cur_page \in HandsOf(t)'
    PROVE  PagesKept'
<1>1. ASSUME NEW p \in Pages, ~page'[p].written_out, p # cur_page'
      PROVE  \E u \in Threads : p \in HandsOf(u)'
  <2>1. CASE p \in HandsOf(t)'
    BY <2>1
  <2>2. CASE p \notin HandsOf(t)'
    <3>1. PICK u \in Threads : p \in HandsOf(u)
      BY <1>1, <2>2 DEF IInv, Protocol, PagesKept, HandsOf
    <3>2. u # t
      BY <1>1, <2>2, <3>1
    <3>3. QED
      BY <3>1, <3>2 DEF HandsOf, Alone, Others
  <2>3. QED
    BY <2>1, <2>2
<1>2. QED
  BY <1>1 DEF PagesKept, HandsOf

\* A writer joins the current page; nobody judges or flushes it, as its lock is
\* free.
LEMMA JoinCurrentKeeps ==
    ASSUME IInv, NEW t \in Threads, JoinPage(t), ~page[cur_page].written_out
    PROVE  Protocol'
<1>1. /\ th[t].pc = "join" /\ UNCHANGED <<cur_page, pageLock, freeLock>>
      /\ pageLock[cur_page] = Nobody
      /\ page' = [page EXCEPT ![cur_page].writers = @ + 1]
      /\ th' = [th EXCEPT ![t].pc = "place"]
  BY DEF JoinPage, At, place, Goto
<1>2. \A p \in Pages :
         /\ page'[p].written_out = page[p].written_out
         /\ page'[p].writers = IF p = cur_page THEN page[p].writers + 1 ELSE page[p].writers
  BY <1>1, InvFacts DEF PageHeader
<1>3. th'[t] = [th[t] EXCEPT !.pc = "place"] /\ Alone(t)
  BY <1>1, <1>2, InvFacts DEF Alone, Others
<1>4. /\ th'[t].pc = "place" /\ th'[t].key = th[t].key /\ th'[t].mine = th[t].mine
      /\ th'[t].old = th[t].old /\ th'[t].cur = th[t].cur /\ th'[t].new = th[t].new
      /\ th'[t].gotFree = th[t].gotFree
      /\ th'[t].headLock = th[t].headLock /\ th'[t].round = th[t].round
  BY <1>3, InvFacts DEF Thread
<1>5. th[t].cur.page = NoPage /\ th[t].old.page # cur_page /\ freeLock = t
  BY <1>1, InvFacts DEF FieldsOf, CurrentOf, LocksOf, NeedsFreeLock, Seeking
<1>6. FieldsOf(t)' /\ LocksOf(t)' /\ CurrentOf(t)' /\ EmptyOf(t)'
  BY <1>1, <1>4, InvFacts
  DEF FieldsOf, LocksOf, CurrentOf, EmptyOf, NeedsFreeLock, Seeking, Linking,
      Writing, Draining, Trying, Flushing, Swapping
<1>7. \A p \in Pages : p # cur_page => WritersOf(p)' = WritersOf(p)
  <2>1. \A p \in Pages : p # cur_page => IsWriter(t, p)' = IsWriter(t, p)
    BY <1>1, <1>4 DEF IsWriter, At
  <2>2. QED
    BY <1>1, <1>3, <2>1, WritersSame DEF Alone, Others
<1>8. /\ Cardinality(WritersOf(cur_page)') = Cardinality(WritersOf(cur_page)) + 1
      /\ WritersOf(cur_page)' # {}
  <2>1. ~IsWriter(t, cur_page) /\ IsWriter(t, cur_page)' /\ cur_page' = cur_page
    BY <1>1, <1>4, <1>5, NoPageIsNone, InvFacts DEF IsWriter, At
  <2>2. PICK p \in Pages : p = cur_page
    BY InvFacts
  <2>3. ~IsWriter(t, p) /\ IsWriter(t, p)'
    BY <2>1, <2>2 DEF IsWriter, At
  <2>4. Cardinality(WritersOf(p)') = Cardinality(WritersOf(p)) + 1 /\ t \in WritersOf(p)'
    BY <1>1, <1>3, <2>3, WriterJoins, SMTT(30) DEF Alone, Others, WritersOf, IsWriter
  <2>5. WritersOf(p)' = WritersOf(cur_page)' /\ WritersOf(p) = WritersOf(cur_page)
    BY <2>1, <2>2 DEF WritersOf
  <2>6. QED
    BY <2>4, <2>5
<1>9. ASSUME NEW u \in Others(t)
      PROVE  /\ th[u].pc # "dress" /\ ~Swapping(u, "again")
             /\ Flushing(u) => WritersOf(th[u].try)' = {}
  <2>1. /\ u \in Threads /\ LocksOf(u) /\ EmptyOf(u) /\ FieldsOf(u)
        /\ th[u] \in Thread /\ th'[u] = th[u]
    BY <1>3, InvFacts DEF Others, Alone
  <2>2. th[u].pc # "dress" /\ ~Swapping(u, "again")
    BY <1>5, <2>1 DEF LocksOf, NeedsFreeLock, Others, Swapping
  <2>3. ASSUME Flushing(u) PROVE WritersOf(th[u].try)' = {}
    <3>1. WritersOf(th[u].try) = {} /\ pageLock[th[u].try] = u /\ th[u].try \in Pages
      BY <2>1, <2>3 DEF EmptyOf, LocksOf, FieldsOf, Flushing, Trying, Swapping, Thread
    <3>2. th[u].try # cur_page
      BY <1>1, <2>1, <3>1, NamesAssumption
    <3>3. QED
      BY <1>7, <2>1, <3>1, <3>2
  <2>4. QED
    BY <2>2, <2>3
<1>10. \A u \in Threads : FieldsOf(u)' /\ LocksOf(u)' /\ CurrentOf(u)' /\ EmptyOf(u)'
  BY <1>1, <1>3, <1>6, <1>7, <1>8, <1>9, OthersStay
<1>11. \A p \in Pages : PageCounted(p)'
  BY <1>1, <1>2, <1>7, <1>8 DEF PageCounted, IInv, Protocol
<1>12. PagesKept'
  BY <1>1, <1>2, <1>3, <1>4, PagesStay DEF HandsOf
<1>13. QED
  BY <1>10, <1>11, <1>12 DEF Protocol

LEMMA JoinPageKeeps ==
    ASSUME IInv, NEW t \in Threads, JoinPage(t)
    PROVE  Protocol'
BY JoinWrittenOutKeeps, JoinCurrentKeeps

\* A writer leaves a page that nobody has locked.
LEMMA LeaverKeeps ==
    ASSUME IInv, NEW t \in Threads, Alone(t), cur_page' = cur_page,
           NEW q \in Pages, pageLock[q] = Nobody,
           \A p \in Pages :
               /\ page'[p].written_out = page[p].written_out
               /\ page'[p].writers = IF p = q THEN page[p].writers - 1
                                              ELSE page[p].writers,
           IsWriter(t, q), ~IsWriter(t, q)',
           \A p \in Pages \ {q} : IsWriter(t, p)' = IsWriter(t, p),
           HandsOf(t)' = HandsOf(t), th'[t].new = th[t].new,
           FieldsOf(t)', LocksOf(t)', CurrentOf(t)', EmptyOf(t)'
    PROVE  Protocol'
<1>1. \A p \in Pages : p # q => WritersOf(p)' = WritersOf(p)
  BY WritersSame DEF Alone, Others
<1>2. /\ Cardinality(WritersOf(q)') = Cardinality(WritersOf(q)) - 1
      /\ WritersOf(q)' \subseteq WritersOf(q) /\ WritersOf(q) # {}
  BY WriterLeaves DEF Alone, Others
<1>3. \A p \in Pages, u \in Others(t) :
         pageLock[p] = u /\ WritersOf(p) # {} => WritersOf(p)' # {}
  BY <1>1, NamesAssumption DEF Others
<1>4. \A p \in Pages : WritersOf(p) = {} => WritersOf(p)' = {}
  BY <1>1, <1>2
<1>5. ASSUME NEW u \in Others(t)
      PROVE  /\ th[u].pc = "dress" => WritersOf(th[u].new)' = {}
             /\ Flushing(u) => WritersOf(th[u].try)' = {}
  <2>1. /\ u \in Threads /\ EmptyOf(u) /\ FieldsOf(u)
        /\ th[u] \in Thread /\ th'[u] = th[u]
    BY InvFacts DEF Others, Alone
  <2>2. Flushing(u) => th[u].try \in Pages
    BY <2>1 DEF FieldsOf, Flushing, Trying, Swapping, Thread
  <2>3. th[u].pc = "dress" => th[u].new \in Pages
    BY <2>1 DEF FieldsOf
  <2>4. QED
    BY <1>4, <2>1, <2>2, <2>3 DEF EmptyOf
<1>6. page'[cur_page].written_out = page[cur_page].written_out
  BY InvFacts
<1>7. \A u \in Threads : FieldsOf(u)' /\ LocksOf(u)' /\ CurrentOf(u)' /\ EmptyOf(u)'
  BY <1>3, <1>5, <1>6, OthersStay
<1>8. \A p \in Pages : PageCounted(p)'
  BY <1>1, <1>2, <1>4 DEF PageCounted, IInv, Protocol
<1>9. PagesKept'
  BY PagesStay
<1>10. QED
  BY <1>7, <1>8, <1>9 DEF Protocol

LEMMA LeavePageKeeps ==
    ASSUME IInv, NEW t \in Threads, LeavePage(t)
    PROVE  Protocol'
<1> DEFINE r == [th[t] EXCEPT !.pc = "drain", !.old = NoChunk, !.round = th[t].mine]
<1>1. PICK q \in Pages : q = th[t].old.page
  BY InvFacts DEF LeavePage, At, FieldsOf
<1>2. /\ th[t].pc = "leave" /\ UNCHANGED <<cur_page, pageLock, freeLock>>
      /\ pageLock[q] = Nobody /\ th' = [th EXCEPT ![t] = r]
      /\ page' = [page EXCEPT ![q].writers = @ - 1]
  BY <1>1 DEF LeavePage, At, place
<1>3. \A p \in Pages :
         /\ page'[p].written_out = page[p].written_out
         /\ page'[p].writers = IF p = q THEN page[p].writers - 1 ELSE page[p].writers
  BY <1>2, InvFacts DEF PageHeader
<1>4. th'[t] = r /\ Alone(t)
  BY <1>2, <1>3, InvFacts DEF Alone, Others
<1>5. /\ th'[t].pc = "drain" /\ th'[t].key = th[t].key /\ th'[t].mine = th[t].mine
      /\ th'[t].old.page = NoPage /\ th'[t].cur = th[t].cur
      /\ th'[t].new = th[t].new /\ th'[t].gotFree = th[t].gotFree
      /\ th'[t].headLock = th[t].headLock /\ th'[t].round = th[t].mine
  BY <1>4, InvFacts DEF Thread, NoChunk
<1>6. FieldsOf(t)' /\ LocksOf(t)' /\ CurrentOf(t)' /\ EmptyOf(t)'
  BY <1>2, <1>5, InvFacts
  DEF FieldsOf, LocksOf, CurrentOf, EmptyOf, NeedsFreeLock, Seeking, Linking,
      Writing, Draining, Trying, Flushing, Swapping
<1>7. th[t].cur.page = NoPage
  BY <1>2, InvFacts DEF FieldsOf
<1>8. /\ IsWriter(t, q) /\ ~IsWriter(t, q)'
      /\ \A p \in Pages \ {q} : IsWriter(t, p)' = IsWriter(t, p)
  BY <1>1, <1>2, <1>5, <1>7, NoPageIsNone DEF IsWriter, At
<1>9. HandsOf(t)' = HandsOf(t)
  BY <1>5 DEF HandsOf
<1>10. QED
  BY <1>2, <1>3, <1>4, <1>6, <1>8, <1>9, LeaverKeeps

\* The page of the chunk before loses its writer, the new page has it already.
LEMMA LinkChunkKeeps ==
    ASSUME IInv, NEW t \in Threads, LinkChunk(t)
    PROVE  Protocol'
<1> DEFINE label == IF Cardinality(th[t].mine) >= PAGES_PER_CORE - 1
                    THEN "purge" ELSE "write"
           r == [th[t] EXCEPT !.owed = Cardinality(th[t].mine), !.old = NoChunk,
                              !.round = th[t].mine, !.pc = label]
<1>1. /\ th[t].pc = "link" /\ UNCHANGED <<cur_page, pageLock>>
      /\ freeLock' = Nobody /\ th' = [th EXCEPT ![t] = r]
  BY DEF LinkChunk, At
<1>2. freeLock = t /\ th[t].cur.page \in Pages /\ th[t].cur.page # th[t].old.page
  BY <1>1, InvFacts DEF FieldsOf, LocksOf, NeedsFreeLock, CurrentOf, Linking
<1>3. th'[t] = r
  BY <1>1, InvFacts
<1>4. /\ th'[t].pc = label /\ th'[t].key = th[t].key /\ th'[t].mine = th[t].mine
      /\ th'[t].old.page = NoPage /\ th'[t].cur = th[t].cur
      /\ th'[t].new = th[t].new /\ th'[t].gotFree = th[t].gotFree
      /\ th'[t].headLock = th[t].headLock /\ th'[t].round = th[t].mine
      /\ th'[t].totsize = th[t].totsize
  BY <1>3, InvFacts DEF Thread, NoChunk
<1>5. FieldsOf(t)' /\ LocksOf(t)' /\ CurrentOf(t)' /\ EmptyOf(t)'
  <2>1. CASE label = "purge"
    BY <1>1, <1>2, <1>4, <2>1, InvFacts
    DEF FieldsOf, LocksOf, CurrentOf, EmptyOf, NeedsFreeLock, Seeking, Linking,
      Writing, Draining, Trying, Flushing, Swapping
  <2>2. CASE label = "write"
    BY <1>1, <1>2, <1>4, <2>2, InvFacts
    DEF FieldsOf, LocksOf, CurrentOf, EmptyOf, NeedsFreeLock, Seeking, Linking,
      Writing, Draining, Trying, Flushing, Swapping
  <2>3. QED
    BY <2>1, <2>2
<1>6. HandsOf(t)' = HandsOf(t)
  BY <1>4 DEF HandsOf
<1>7. CASE th[t].old.page = NoPage
  <2>1. UNCHANGED page
    BY <1>7 DEF LinkChunk
  <2>2. Alone(t)
    BY <1>1, <1>2, <2>1, InvFacts DEF Alone, Others
  <2>3. \A p \in Pages : IsWriter(t, p)' = IsWriter(t, p)
    BY <1>1, <1>4, <1>7, NoPageIsNone DEF IsWriter, At
  <2>4. QED
    BY <1>1, <1>5, <1>6, <2>1, <2>2, <2>3, QuietStep
<1>8. CASE th[t].old.page # NoPage
  <2>1. PICK q \in Pages : q = th[t].old.page
    BY <1>8, InvFacts DEF Thread, ChunkPlace
  <2>2. pageLock[q] = Nobody /\ page' = [page EXCEPT ![q].writers = @ - 1]
    BY <1>8, <2>1 DEF LinkChunk
  <2>3. \A p \in Pages :
           /\ page'[p].written_out = page[p].written_out
           /\ page'[p].writers = IF p = q THEN page[p].writers - 1 ELSE page[p].writers
    BY <2>2, InvFacts DEF PageHeader
  <2>4. Alone(t)
    BY <1>1, <1>2, <2>3, InvFacts DEF Alone, Others
  <2>5. /\ IsWriter(t, q) /\ ~IsWriter(t, q)'
        /\ \A p \in Pages \ {q} : IsWriter(t, p)' = IsWriter(t, p)
    BY <1>1, <1>2, <1>4, <2>1, NoPageIsNone DEF IsWriter, At
  <2>6. QED
    BY <1>1, <1>5, <1>6, <2>2, <2>3, <2>4, <2>5, LeaverKeeps
<1>9. QED
  BY <1>7, <1>8

\* A page is written out when it has no writer, and none can have joined it.
LEMMA WriteOutKeeps ==
    ASSUME IInv, NEW t \in Threads, WriteOut(t)
    PROVE  Protocol'
<1> DEFINE r == [Kept(t) EXCEPT !.mine = th[t].mine \ {th[t].try}]
<1>1. /\ th[t].pc = "flush" /\ th' = [th EXCEPT ![t] = r] /\ cur_page' = cur_page
      /\ th[t].headLock
  <2>1. th[t].pc = "flush" /\ th' = [th EXCEPT ![t] = r] /\ cur_page' = cur_page
    BY DEF WriteOut, At, Forgotten
  <2>2. QED
    BY <2>1, InvFacts DEF FieldsOf, Flushing
<1>2. PICK q \in Pages : q = th[t].try
  BY <1>1, InvFacts DEF FieldsOf, Trying, Thread
<1>3. /\ page' = [page EXCEPT ![q].written_out = TRUE]
      /\ pageLock' = [pageLock EXCEPT ![q] = Nobody]
      /\ freeLock' = IF th[t].gotFree THEN Nobody ELSE freeLock
  BY <1>1, <1>2 DEF WriteOut, Release
<1>4. pageLock[q] = t /\ (th[t].gotFree => freeLock = t)
  BY <1>1, <1>2, InvFacts DEF LocksOf, Trying, NeedsFreeLock
<1>5. \A p \in Pages : /\ page'[p].writers = page[p].writers
                       /\ page'[p].written_out = (page[p].written_out \/ p = q)
  BY <1>3, InvFacts DEF PageHeader
<1>6. th'[t] = r /\ Alone(t)
  BY <1>1, <1>3, <1>4, <1>5, InvFacts DEF Alone, Others
<1>7. /\ th'[t].pc = th[t].back /\ th'[t].key = th[t].key
      /\ th'[t].mine = th[t].mine \ {q}
      /\ th'[t].old = th[t].old /\ th'[t].cur = th[t].cur /\ th'[t].new = th[t].new
      /\ ~th'[t].gotFree /\ ~th'[t].headLock /\ th'[t].totsize = th[t].totsize
      /\ th'[t].round = th[t].round
  BY <1>2, <1>6, InvFacts DEF Thread, Kept
<1>8. FieldsOf(t)' /\ LocksOf(t)' /\ CurrentOf(t)' /\ EmptyOf(t)'
  BY <1>1, <1>7, InvFacts
  DEF FieldsOf, LocksOf, CurrentOf, EmptyOf, NeedsFreeLock, Seeking, Linking,
      Writing, Draining, Trying, Flushing, Swapping
<1>9. \A p \in Pages : IsWriter(t, p)' = IsWriter(t, p)
  BY <1>1, <1>7, InvFacts DEF IsWriter, At, FieldsOf, Trying
<1>10. \A p \in Pages : WritersOf(p)' = WritersOf(p)
  BY <1>1, <1>6, <1>9, WritersSame DEF Alone, Others
<1>11. ASSUME NEW u \in Others(t)
       PROVE  /\ th[u].pc = "dress" => WritersOf(th[u].new)' = {}
              /\ Flushing(u) => WritersOf(th[u].try)' = {}
  <2>1. /\ u \in Threads /\ EmptyOf(u) /\ FieldsOf(u)
        /\ th[u] \in Thread /\ th'[u] = th[u]
    BY <1>6, InvFacts DEF Others, Alone
  <2>2. Flushing(u) => th[u].try \in Pages
    BY <2>1 DEF FieldsOf, Flushing, Trying, Swapping, Thread
  <2>3. th[u].pc = "dress" => th[u].new \in Pages
    BY <2>1 DEF FieldsOf
  <2>4. QED
    BY <1>10, <2>1, <2>2, <2>3 DEF EmptyOf
<1>12. page[cur_page].written_out => page'[cur_page].written_out
  BY <1>5, InvFacts
<1>13. \A u \in Threads : FieldsOf(u)' /\ LocksOf(u)' /\ CurrentOf(u)' /\ EmptyOf(u)'
  BY <1>1, <1>5, <1>6, <1>7, <1>8, <1>10, <1>11, <1>12, OthersStay
<1>14. WritersOf(q) = {}
  BY <1>1, <1>2, InvFacts DEF EmptyOf, Flushing
<1>15. \A p \in Pages : PageCounted(p)'
  BY <1>5, <1>10, <1>14 DEF PageCounted, IInv, Protocol
<1>16. PagesKept'
  BY <1>1, <1>5, <1>6, <1>7, PagesStay DEF HandsOf
<1>17. QED
  BY <1>13, <1>15, <1>16 DEF Protocol

\* A page taken from the ring has no writers, although its lock is not asked for.
LEMMA TakePageKeeps ==
    ASSUME IInv, NEW t \in Threads, TakePage(t)
    PROVE  Protocol'
<1>1. PICK q \in Pages :
         /\ page[q].written_out
         /\ page' = [page EXCEPT ![q].num = page_num + 1, ![q].recent = TRUE,
                                 ![q].written_out = FALSE]
         /\ th' = [th EXCEPT ![t] = [th[t] EXCEPT !.pc = "dress", !.new = q]]
  BY DEF TakePage, NextFreePage
<1>2. th[t].pc = "swap" /\ UNCHANGED <<cur_page, freeLock, pageLock>>
  BY DEF TakePage, At
<1>3. \A p \in Pages : /\ page'[p].writers = page[p].writers
                       /\ page'[p].written_out = (page[p].written_out /\ p # q)
  BY <1>1, InvFacts DEF PageHeader
<1>4. freeLock = t
  BY <1>2, InvFacts DEF LocksOf, NeedsFreeLock
<1>5. th'[t] = [th[t] EXCEPT !.pc = "dress", !.new = q] /\ Alone(t)
  BY <1>1, <1>2, <1>3, InvFacts DEF Alone, Others
<1>6. /\ th'[t].pc = "dress" /\ th'[t].key = th[t].key /\ th'[t].mine = th[t].mine
      /\ th'[t].old = th[t].old /\ th'[t].cur = th[t].cur /\ th'[t].new = q
      /\ th'[t].gotFree = th[t].gotFree /\ th'[t].totsize = th[t].totsize
      /\ th'[t].headLock = th[t].headLock /\ th'[t].round = th[t].round
      /\ th'[t].then = th[t].then /\ th'[t].try = th[t].try
      /\ th'[t].back = th[t].back
  BY <1>5, InvFacts DEF Thread
<1>7. \A p \in Pages : IsWriter(t, p)' = IsWriter(t, p)
  BY <1>2, <1>6 DEF IsWriter, At
<1>8. \A p \in Pages : WritersOf(p)' = WritersOf(p)
  BY <1>2, <1>5, <1>7, WritersSame DEF Alone, Others
<1>9. WritersOf(q)' = {}
  BY <1>1, <1>8 DEF PageCounted, IInv, Protocol
<1>10. Trying(t) => WritersOf(th[t].try)' = WritersOf(th[t].try) /\ th[t].try \in Pages
  <2>1. ASSUME Trying(t) PROVE th[t].try \in Pages
    BY <2>1, InvFacts DEF FieldsOf, Thread
  <2>2. QED
    BY <1>6, <1>8, <2>1
<1>11. FieldsOf(t)' /\ LocksOf(t)' /\ CurrentOf(t)' /\ EmptyOf(t)'
  <2>1. FieldsOf(t)'
    BY <1>2, <1>6, InvFacts
    DEF FieldsOf, Seeking, Linking, Writing, Draining, Trying, Flushing, Swapping
  <2>2. LocksOf(t)'
    <3>1. Flushing(t)' => Flushing(t) /\ Trying(t)
      BY <1>2, <1>6 DEF Flushing, Trying, Swapping
    <3>2. Flushing(t)' => ~page'[th[t].try].written_out
      BY <1>3, <1>10, <3>1, InvFacts DEF LocksOf
    <3>3. QED
      BY <1>2, <1>4, <1>6, <3>2, InvFacts DEF LocksOf
  <2>3. CurrentOf(t)'
    <3>1. Swapping(t, "again") =>
             page[cur_page].written_out /\ th[t].new = NoPage
      BY <1>2, NoPageIsNone, InvFacts DEF CurrentOf, FieldsOf
    <3>2. Swapping(t, "again") => page'[cur_page].written_out \/ q = cur_page
      BY <1>3, <3>1, InvFacts
    <3>3. QED
      BY <1>2, <1>6, <3>2, InvFacts
      DEF CurrentOf, Seeking, Linking, Writing, Trying, Swapping
  <2>4. EmptyOf(t)'
    <3>1. th'[t].pc = "dress" => WritersOf(th[t].new)' = {}
      BY <1>6, <1>9
    <3>2. Flushing(t)' => WritersOf(th[t].try)' = {}
      BY <1>2, <1>6, <1>10, InvFacts DEF EmptyOf, Flushing, Trying, Swapping
    <3>3. QED
      BY <3>1, <3>2 DEF EmptyOf
  <2>5. QED
    BY <2>1, <2>2, <2>3, <2>4
<1>12. ASSUME NEW u \in Others(t)
       PROVE  /\ ~Swapping(u, "again") /\ th[u].pc # "dress"
              /\ Flushing(u) => WritersOf(th[u].try)' = {}
  <2>1. /\ u \in Threads /\ EmptyOf(u) /\ FieldsOf(u) /\ LocksOf(u)
        /\ th[u] \in Thread /\ th'[u] = th[u]
    BY <1>5, InvFacts DEF Others, Alone
  <2>2. ~Swapping(u, "again") /\ th[u].pc # "dress"
    BY <1>4, <2>1 DEF LocksOf, NeedsFreeLock, Others, Swapping
  <2>3. Flushing(u) => th[u].try \in Pages
    BY <2>1 DEF FieldsOf, Flushing, Trying, Swapping, Thread
  <2>4. QED
    BY <1>8, <2>1, <2>2, <2>3 DEF EmptyOf
<1>13. \A u \in Threads : FieldsOf(u)' /\ LocksOf(u)' /\ CurrentOf(u)' /\ EmptyOf(u)'
  <2>1. \A p \in Pages : th[t].new # p
    BY <1>2, NoPageIsNone, InvFacts DEF FieldsOf
  <2>2. QED
    BY <1>2, <1>3, <1>5, <1>6, <1>8, <1>11, <1>12, <2>1, OthersStay
<1>14. \A p \in Pages : PageCounted(p)'
  BY <1>3, <1>8 DEF PageCounted, IInv, Protocol
<1>15. PagesKept'
  <2>1. q \in HandsOf(t)'
    BY <1>6 DEF HandsOf
  <2>2. \A p \in HandsOf(t) \cap Pages : p \in HandsOf(t)'
    BY <1>2, <1>6, NoPageIsNone, InvFacts DEF HandsOf, FieldsOf
  <2>3. QED
    BY <1>2, <1>3, <1>5, <2>1, <2>2, PagesStay
<1>16. QED
  BY <1>13, <1>14, <1>15 DEF Protocol

\* The page taken becomes current while every other thread is away from the
\* current page; what it replaces is written out or in the hands of t.
LEMMA DressPageKeeps ==
    ASSUME IInv, NEW t \in Threads, DressPage(t)
    PROVE  Protocol'
<1> DEFINE r == [th[t] EXCEPT !.pc = th[t].then, !.new = NoPage]
<1>1. PICK q \in Pages : q = th[t].new
  BY InvFacts DEF DressPage, At, FieldsOf
<1>2. /\ th[t].pc = "dress" /\ th' = [th EXCEPT ![t] = r] /\ cur_page' = q
      /\ UNCHANGED <<freeLock, pageLock>>
      /\ page' = [page EXCEPT ![q].writers = 0, ![q].consumed = FALSE]
  BY <1>1 DEF DressPage, At
<1>3. \A p \in Pages :
         /\ page'[p].written_out = page[p].written_out
         /\ page'[p].writers = IF p = q THEN 0 ELSE page[p].writers
  BY <1>2, InvFacts DEF PageHeader
<1>4. freeLock = t /\ th[t].then \in {"again", "link", "flush"} /\ WritersOf(q) = {}
  BY <1>1, <1>2, InvFacts DEF LocksOf, NeedsFreeLock, FieldsOf, EmptyOf
<1>5. th'[t] = r /\ Alone(t)
  BY <1>2, <1>3, InvFacts DEF Alone, Others
<1>6. /\ th'[t].pc = th[t].then /\ th'[t].key = th[t].key /\ th'[t].mine = th[t].mine
      /\ th'[t].old = th[t].old /\ th'[t].cur = th[t].cur /\ th'[t].new = NoPage
      /\ th'[t].gotFree = th[t].gotFree /\ th'[t].totsize = th[t].totsize
      /\ th'[t].headLock = th[t].headLock /\ th'[t].round = th[t].round
      /\ th'[t].try = th[t].try /\ th'[t].back = th[t].back
  BY <1>5, InvFacts DEF Thread
<1>7. \A u \in Others(t) : ~NeedsFreeLock(u)
  BY <1>4, InvFacts DEF LocksOf, Others
<1>8. \A p \in Pages : WritersOf(p)' = WritersOf(p)
  <2>1. \A p \in Pages : IsWriter(t, p)' = IsWriter(t, p)
    BY <1>2, <1>4, <1>6 DEF IsWriter, At
  <2>2. \A u \in Others(t) : ~At(u, "place")
    BY <1>7 DEF NeedsFreeLock, At
  <2>3. QED
    BY <1>5, <2>1, <2>2, WritersSame DEF Alone, Others
<1>9. \A u \in Threads : th[u].old.page # q /\ th[u].cur.page # q
  BY <1>4, WritersFinite DEF IsWriter
<1>10. FieldsOf(t)' /\ LocksOf(t)' /\ CurrentOf(t)' /\ EmptyOf(t)'
  <2>1. CASE th[t].then = "again"
    BY <1>2, <1>4, <1>6, <1>9, <2>1, InvFacts
    DEF FieldsOf, LocksOf, CurrentOf, EmptyOf, NeedsFreeLock, Seeking, Linking,
      Writing, Draining, Trying, Flushing, Swapping
  <2>2. CASE th[t].then = "link"
    BY <1>2, <1>4, <1>6, <1>9, <2>2, InvFacts
    DEF FieldsOf, LocksOf, CurrentOf, EmptyOf, NeedsFreeLock, Seeking, Linking,
      Writing, Draining, Trying, Flushing, Swapping
  <2>3. CASE th[t].then = "flush"
    <3>1. /\ th[t].try \in Pages /\ WritersOf(th[t].try) = {}
          /\ ~page[th[t].try].written_out
      BY <1>2, <2>3, InvFacts
      DEF FieldsOf, LocksOf, EmptyOf, Flushing, Trying, Swapping, Thread
    <3>2. WritersOf(th[t].try)' = {} /\ ~page'[th[t].try].written_out
      BY <1>3, <1>6, <1>8, <3>1
    <3>3. Trying(t) /\ th'[t].pc = "flush"
      BY <1>2, <1>6, <2>3 DEF Trying, Swapping
    <3>4. FieldsOf(t)'
      BY <1>2, <1>6, <2>3, <3>3, InvFacts
      DEF FieldsOf, Seeking, Linking, Writing, Draining, Trying, Flushing, Swapping
    <3>5. LocksOf(t)'
      BY <1>2, <1>4, <1>6, <3>2, <3>3, InvFacts
      DEF LocksOf, NeedsFreeLock
    <3>6. CurrentOf(t)'
      BY <1>2, <1>6, <1>9, <3>3
      DEF CurrentOf, Seeking, Linking, Writing, Trying, Swapping
    <3>7. EmptyOf(t)'
      BY <3>2, <3>3 DEF EmptyOf
    <3>8. QED
      BY <3>4, <3>5, <3>6, <3>7
  <2>4. QED
    BY <1>4, <2>1, <2>2, <2>3
<1>11. ASSUME NEW u \in Others(t)
       PROVE  CurrentOf(u)' /\ EmptyOf(u)'
  <2>1. /\ u \in Threads /\ EmptyOf(u) /\ FieldsOf(u) /\ LocksOf(u) /\ CurrentOf(u)
        /\ th[u] \in Thread /\ th'[u] = th[u] /\ ~NeedsFreeLock(u)
    BY <1>5, <1>7, InvFacts DEF Others, Alone
  <2>2. ASSUME Trying(u)
        PROVE  th[u].try \in Pages /\ WritersOf(th[u].try)' = WritersOf(th[u].try)
    BY <1>8, <2>1, <2>2 DEF FieldsOf, Thread
  <2>3. ASSUME th[u].headLock, Watched(th[u].try)
        PROVE  Watched(th[u].try)'
    <3>1. PICK p \in Pages : p = th[u].try
      BY <2>1, <2>3 DEF FieldsOf
    <3>2. pageLock[p] = u /\ Watched(p)
      BY <2>1, <2>3, <3>1 DEF LocksOf
    <3> SUFFICES Watched(p)'
      BY <2>1, <3>1
    <3>3. CASE WritersOf(p) # {} \/ page[p].written_out
      BY <1>3, <1>8, <3>3 DEF Watched
    <3>4. CASE \E v \in Threads : th[v].new = p
      BY <1>1, <1>2, <1>5, <3>4 DEF Watched, Alone, Others
    <3>5. CASE p = cur_page
      <4>1. CASE th[t].then = "again"
        <5>1. page[p].written_out \/ q = p
          BY <1>1, <1>2, <3>5, <4>1, InvFacts DEF CurrentOf, Swapping
        <5>2. QED
          BY <1>2, <1>3, <5>1 DEF Watched
      <4>2. CASE th[t].then = "link"
        <5>1. th[t].cur.page = p
          BY <1>2, <3>5, <4>2, InvFacts DEF CurrentOf, Swapping
        <5>2. WritersOf(p) # {}
          BY <5>1 DEF WritersOf
        <5>3. QED
          BY <1>8, <5>2 DEF Watched
      <4>3. CASE th[t].then = "flush"
        <5>1. Flushing(t) /\ th[t].try = p /\ pageLock[p] = t
          BY <1>2, <3>5, <4>3, InvFacts
          DEF CurrentOf, LocksOf, FieldsOf, Flushing, Swapping
        <5>2. QED
          BY <3>2, <5>1 DEF Others
      <4>4. QED
        BY <1>4, <4>1, <4>2, <4>3
    <3>6. QED
      BY <3>2, <3>3, <3>4, <3>5 DEF Watched
  <2>4. CurrentOf(u)'
    BY <1>2, <1>9, <2>1, <2>3
    DEF CurrentOf, NeedsFreeLock, Seeking, Linking, Writing, Trying, Swapping
  <2>5. EmptyOf(u)'
    BY <2>1, <2>2 DEF EmptyOf, NeedsFreeLock, Flushing, Trying, Swapping
  <2>6. QED
    BY <2>4, <2>5
<1>12. \A u \in Threads : FieldsOf(u)' /\ LocksOf(u)' /\ CurrentOf(u)' /\ EmptyOf(u)'
  BY <1>5, <1>10, <1>11, OthersFields DEF Others
<1>13. \A p \in Pages : PageCounted(p)'
  BY <1>3, <1>4, <1>8, WritersFinite DEF PageCounted, IInv, Protocol
<1>14. PagesKept'
  <2>1. ~page[cur_page].written_out => cur_page = q \/ cur_page \in HandsOf(t)'
    BY <1>1, <1>2, <1>4, <1>6, InvFacts
    DEF CurrentOf, FieldsOf, Swapping, Trying, HandsOf
  <2>2. \A p \in HandsOf(t) \cap Pages : p \in HandsOf(t)' \/ p = q
    BY <1>1, <1>6 DEF HandsOf
  <2>3. page'[cur_page].written_out = page[cur_page].written_out
    BY <1>3, InvFacts
  <2>4. QED
    BY <1>2, <1>3, <1>5, <2>1, <2>2, <2>3, PagesStay
<1>15. QED
  BY <1>12, <1>13, <1>14 DEF Protocol

\* Time that goes by changes nothing of this.
LEMMA ElapseKeeps ==
    ASSUME IInv, NEW q \in Pages, Elapse(q)
    PROVE  Protocol'
<1>1. UNCHANGED <<th, cur_page, freeLock, pageLock>>
  BY DEF Elapse, place
<1>2. \A p \in Pages : /\ page'[p].writers = page[p].writers
                       /\ page'[p].written_out = page[p].written_out
  BY DEF Elapse, IInv, TypeOK, PageHeader
<1>3. \A p \in Pages : WritersOf(p)' = WritersOf(p)
  BY <1>1 DEF WritersOf, At
<1>4. ASSUME NEW u \in Threads
      PROVE  FieldsOf(u)' /\ LocksOf(u)' /\ CurrentOf(u)' /\ EmptyOf(u)'
  <2>1. /\ EmptyOf(u) /\ FieldsOf(u) /\ LocksOf(u) /\ CurrentOf(u)
        /\ th[u] \in Thread /\ th'[u] = th[u] /\ cur_page \in Pages
    BY <1>1, InvFacts
  <2>2. Trying(u) => th[u].try \in Pages
    BY <2>1 DEF FieldsOf, Thread
  <2>3. Trying(u) => WritersOf(th[u].try)' = WritersOf(th[u].try)
    BY <1>3, <2>1, <2>2
  <2>4. th[u].pc = "dress" => WritersOf(th[u].new)' = WritersOf(th[u].new)
    BY <1>3, <2>1 DEF FieldsOf
  <2>5. FieldsOf(u)'
    BY <2>1
    DEF FieldsOf, Seeking, Linking, Writing, Draining, Trying, Flushing, Swapping
  <2>6. LocksOf(u)'
    BY <1>1, <1>2, <2>1, <2>2
    DEF LocksOf, FieldsOf, NeedsFreeLock, Flushing, Trying, Swapping
  <2>7. th[u].headLock /\ Watched(th[u].try) => Watched(th[u].try)'
    <3>1. th[u].headLock => th[u].try \in Pages
      BY <2>1 DEF FieldsOf
    <3>2. \A p \in Pages : Watched(p) => Watched(p)'
      BY <1>1, <1>2, <1>3 DEF Watched
    <3>3. QED
      BY <2>1, <3>1, <3>2
  <2>8. CurrentOf(u)'
    BY <1>1, <1>2, <2>1, <2>7
    DEF CurrentOf, Seeking, Linking, Writing, Trying, Swapping
  <2>9. EmptyOf(u)'
    BY <2>1, <2>3, <2>4 DEF EmptyOf, Flushing, Trying, Swapping
  <2>10. QED
    BY <2>5, <2>6, <2>8, <2>9
<1>5. \A p \in Pages : PageCounted(p)'
  BY <1>2, <1>3 DEF PageCounted, IInv, Protocol
<1>6. PagesKept'
  BY <1>1, <1>2 DEF PagesKept, IInv, Protocol
<1>7. QED
  BY <1>4, <1>5, <1>6 DEF Protocol

-----------------------------------------------------------------------------
(* Types. *)

LEMMA ThreadSet ==
    ASSUME IInv, NEW t \in Threads, NEW r \in Thread, th' = [th EXCEPT ![t] = r]
    PROVE  ThreadsTyped'
BY InvFacts DEF ThreadsTyped

\* A step that changes a thread and the locks of places and pages.
LEMMA OnlyLocksTyped ==
    ASSUME IInv, UNCHANGED <<entryLock, item, page, buffer, ssd, cur_page, page_num,
                             offset, tail, sets>>,
           freeLock' \in Threads \cup {Nobody},
           pageLock' \in [Pages -> Threads \cup {Nobody}]
    PROVE  TypeOK'
BY DEF IInv, TypeOK

\* A step that changes a thread and the headers of pages as well.
LEMMA OnlyPagesTyped ==
    ASSUME IInv, UNCHANGED <<entryLock, item, buffer, ssd, cur_page, page_num,
                             offset, tail, sets>>,
           freeLock' \in Threads \cup {Nobody},
           pageLock' \in [Pages -> Threads \cup {Nobody}],
           page' \in [Pages -> PageHeader]
    PROVE  TypeOK'
BY DEF IInv, TypeOK

\* Room on a page, and the pages of a thread.
LEMMA Numbers ==
    ASSUME IInv, NEW t \in Threads
    PROVE  /\ offset \in Nat /\ offset <= PageSize - MinEntry
           /\ Rest \in Nat /\ page_num \in Nat
           /\ Cardinality(th[t].mine) \in Nat
           /\ 0 \in 0 .. PageSize - MinEntry
<1>1. offset \in Nat /\ offset <= PageSize - MinEntry /\ page_num \in Nat
  BY SizesAssumption DEF IInv, TypeOK
<1>2. Rest \in Nat
  BY <1>1, SizesAssumption DEF Rest
<1>3. Cardinality(th[t].mine) \in Nat
  <2>1. IsFiniteSet(Pages)
    BY BoundsAssumption, FS_Interval DEF Pages
  <2>2. th[t].mine \in SUBSET Pages
    BY InvFacts DEF Thread
  <2>3. QED
    BY <2>1, <2>2, FS_Subset, FS_CardinalityType
<1>4. 0 \in 0 .. PageSize - MinEntry
  BY SizesAssumption
<1>5. QED
  BY <1>1, <1>2, <1>3, <1>4

LEMMA TableTyped ==
    ASSUME IInv, NEW t \in Threads,
           EndSet(t) \/ \E k \in Keys, s \in Sizes : BeginSet(t, k, s)
    PROVE  TypeOK' /\ ThreadsTyped'
<1>0. NoChunk \in ChunkPlace
  BY DEF NoChunk, ChunkPlace
<1>1. ASSUME NEW k \in Keys, NEW s \in Sizes, BeginSet(t, k, s)
      PROVE  TypeOK' /\ ThreadsTyped'
  <2>1. Bucket[k] \in Buckets /\ s \in Nat
    BY SizesAssumption DEF Buckets
  <2>2. [Idle EXCEPT !.pc = "page", !.key = k, !.totsize = s] \in Thread
    BY <1>0, <2>1 DEF Idle, Thread, Labels, NoPage
  <2>3. ThreadsTyped'
    BY <1>1, <2>2, ThreadSet DEF BeginSet
  <2>4. Displaced(k, s) \in [ver : Nat \cup {NoVersion}, size : Sizes \cup {0},
                             first_page : Nat \cup {NoPage}, offset : 0 .. PageSize]
    BY DEF Displaced, IInv, TypeOK
  <2>5. sets' \in 0 .. MaxSets
    <3>1. sets \in 0 .. MaxSets /\ sets < MaxSets /\ sets' = sets + 1
      BY <1>1 DEF BeginSet, IInv, TypeOK
    <3>2. QED
      BY <3>1, BoundsAssumption
  <2>6. TypeOK'
    BY <1>1, <2>1, <2>4, <2>5 DEF BeginSet, IInv, TypeOK, place
  <2>7. QED
    BY <2>3, <2>6
<1>2. ASSUME EndSet(t) PROVE TypeOK' /\ ThreadsTyped'
  <2>1. th[t].key \in Keys /\ Bucket[th[t].key] \in Buckets
    BY <1>2, InvFacts DEF EndSet, At, FieldsOf, Buckets
  <2>2. Idle \in Thread
    BY <1>0, NamesAssumption DEF Idle, Thread, Labels
  <2>3. ThreadsTyped'
    BY <1>2, <2>2, ThreadSet DEF EndSet
  <2>4. item[th[t].key].ver + 1 \in Nat
    BY <2>1 DEF IInv, TypeOK, NoVersion
  <2>5. item' \in [Keys -> [ver : Nat \cup {NoVersion}, size : Sizes \cup {0},
                       first_page : Nat \cup {NoPage}, offset : 0 .. PageSize]]
    BY <1>2, <2>1, <2>4 DEF EndSet, IInv, TypeOK
  <2>6. entryLock' \in [Buckets -> Threads \cup {Nobody}]
    BY <1>2, <2>1 DEF EndSet, IInv, TypeOK
  <2>7. TypeOK'
    BY <1>2, <2>5, <2>6 DEF EndSet, IInv, TypeOK, place
  <2>8. QED
    BY <2>3, <2>7
<1>3. QED
  BY <1>1, <1>2

\* The steps that change no page.
LEMMA LocksTyped ==
    ASSUME IInv, NEW t \in Threads,
           \/ LockFreePages(t) \/ Again(t) \/ EndPurge(t) \/ NextRound(t)
           \/ TryPage(t) \/ CheckCurrent(t) \/ TryFreePages(t) \/ Judge(t)
    PROVE  TypeOK' /\ ThreadsTyped'
<1>0. th[t] \in Thread /\ Nobody \in Threads \cup {Nobody}
  BY InvFacts
<1>1. CASE LockFreePages(t)
  <2>1. [th[t] EXCEPT !.pc = "join"] \in Thread
    BY <1>0 DEF Thread, Labels
  <2>2. ThreadsTyped'
    BY <1>1, <2>1, ThreadSet DEF LockFreePages, Goto
  <2>3. QED
    BY <1>1, <2>2, InvFacts, OnlyLocksTyped DEF LockFreePages
<1>2. CASE Again(t)
  <2>1. [th[t] EXCEPT !.pc = "page"] \in Thread
    BY <1>0 DEF Thread, Labels
  <2>2. ThreadsTyped'
    BY <1>2, <2>1, ThreadSet DEF Again, Goto
  <2>3. QED
    BY <1>2, <2>2, InvFacts, OnlyLocksTyped DEF Again
<1>3. CASE EndPurge(t)
  <2>1. [th[t] EXCEPT !.pc = "write"] \in Thread
    BY <1>0 DEF Thread, Labels
  <2>2. ThreadsTyped'
    BY <1>3, <2>1, ThreadSet DEF EndPurge, Goto
  <2>3. QED
    BY <1>3, <2>2, InvFacts, OnlyLocksTyped DEF EndPurge, place
<1>4. CASE NextRound(t)
  <2>1. [th[t] EXCEPT !.round = th[t].mine] \in Thread
    BY <1>0 DEF Thread
  <2>2. ThreadsTyped'
    BY <1>4, <2>1, ThreadSet DEF NextRound
  <2>3. QED
    BY <1>4, <2>2, InvFacts, OnlyLocksTyped DEF NextRound, place
<1>5. CASE TryPage(t)
  <2> DEFINE Tried(q, got) == [th[t] EXCEPT !.pc = "current",
                                            !.round = th[t].round \ {q}, !.try = q,
                                            !.headLock = got, !.back = th[t].pc]
  <2>1. PICK q \in th[t].round :
           /\ pageLock' = [pageLock EXCEPT ![q] = IF @ = Nobody THEN t ELSE @]
           /\ th' = [th EXCEPT ![t] =
                 [@ EXCEPT !.pc = "current", !.round = th[t].round \ {q}, !.try = q,
                           !.headLock = pageLock[q] = Nobody, !.back = th[t].pc]]
    BY <1>5 DEF TryPage
  <2>2. th[t].pc \in {"purge", "drain"} /\ q \in Pages
    BY <1>0, <1>5 DEF TryPage, Scanning, Thread
  <2>3. Tried(q, pageLock[q] = Nobody) \in Thread
    <3>1. \A got \in BOOLEAN : Tried(q, got) \in Thread
      BY <1>0, <2>2 DEF Thread, Labels
    <3>2. (pageLock[q] = Nobody) \in BOOLEAN
      OBVIOUS
    <3>3. QED
      BY <3>1, <3>2, Zenon
  <2>4. ThreadsTyped'
    <3>1. th' = [th EXCEPT ![t] = Tried(q, pageLock[q] = Nobody)]
      BY <2>1, Zenon
    <3> HIDE DEF Tried
    <3>2. QED
      BY <2>3, <3>1, ThreadSet
  <2>5. pageLock' \in [Pages -> Threads \cup {Nobody}]
    BY <2>1, <2>2, InvFacts
  <2>6. QED
    BY <1>5, <2>4, <2>5, InvFacts, OnlyLocksTyped DEF TryPage, place
<1>6. CASE CheckCurrent(t)
  <2> DEFINE label == IF cur_page = th[t].try THEN "try_free"
                      ELSE IF th[t].headLock THEN "judge" ELSE "pass"
  <2>1. [th[t] EXCEPT !.pc = label] \in Thread
    BY <1>0 DEF Thread, Labels
  <2>2. ThreadsTyped'
    BY <1>6, <2>1, ThreadSet DEF CheckCurrent, Goto
  <2>3. QED
    BY <1>6, <2>2, InvFacts, OnlyLocksTyped DEF CheckCurrent, place
<1>7. CASE TryFreePages(t)
  <2> DEFINE got == freeLock = Nobody
             label == IF got /\ th[t].headLock THEN "judge" ELSE "pass"
  <2>1. /\ freeLock' = IF got THEN t ELSE freeLock
        /\ th' = [th EXCEPT ![t] = [th[t] EXCEPT !.gotFree = got, !.pc = label]]
    BY <1>7 DEF TryFreePages
  <2>2. [th[t] EXCEPT !.gotFree = got, !.pc = label] \in Thread
    BY <1>0 DEF Thread, Labels
  <2>3. ThreadsTyped'
    BY <2>1, <2>2, ThreadSet
  <2>4. QED
    BY <1>7, <2>1, <2>3, InvFacts, OnlyLocksTyped DEF TryFreePages
<1>8. CASE Judge(t)
  <2> DEFINE p == th[t].try
             go == At(t, "judge") /\ ~page[p].written_out /\ CanWriteOut(p)
             label == IF th[t].gotFree THEN "swap" ELSE "flush"
             r == IF page[p].written_out THEN Forgotten(t) ELSE Kept(t)
  <2>1. CASE ~go
    <3>1. Release(t) /\ th' = [th EXCEPT ![t] = r]
      BY <1>8, <2>1 DEF Judge
    <3>2. p \in Pages /\ th[t].back \in {"purge", "drain"}
      BY <1>8, InvFacts DEF Judge, FieldsOf, Trying
    <3>3. Kept(t) \in Thread /\ Forgotten(t) \in Thread
      BY <1>0, <3>2 DEF Kept, Forgotten, Thread, Labels
    <3>4. ThreadsTyped'
      BY <3>1, <3>3, ThreadSet
    <3>5. /\ freeLock' \in Threads \cup {Nobody}
          /\ pageLock' \in [Pages -> Threads \cup {Nobody}]
      BY <3>1, <3>2, InvFacts DEF Release
    <3>6. QED
      BY <1>8, <3>4, <3>5, OnlyLocksTyped DEF Judge
  <2>2. CASE go
    <3>1. /\ UNCHANGED <<pageLock, freeLock>>
          /\ th' = [th EXCEPT ![t] = [th[t] EXCEPT !.pc = label, !.then = "flush"]]
      BY <1>8, <2>2 DEF Judge
    <3>2. [th[t] EXCEPT !.pc = label, !.then = "flush"] \in Thread
      BY <1>0, ZenonT(40) DEF Thread, Labels
    <3>3. ThreadsTyped'
      BY <3>1, <3>2, ThreadSet
    <3>4. QED
      BY <1>8, <3>1, <3>3, InvFacts, OnlyLocksTyped DEF Judge
  <2>3. QED
    BY <2>1, <2>2
<1>10. QED
  BY <1>1, <1>2, <1>3, <1>4, <1>5, <1>6, <1>7, <1>8

\* The steps that set the headers of pages only.
LEMMA PagesTyped ==
    ASSUME IInv, NEW t \in Threads, JoinPage(t) \/ LeavePage(t)
    PROVE  TypeOK' /\ ThreadsTyped'
<1>0. th[t] \in Thread /\ cur_page \in Pages
  BY InvFacts
<1>1. CASE JoinPage(t)
  <2>1. CASE page[cur_page].written_out
    <3>1. th' = [th EXCEPT ![t] = [th[t] EXCEPT !.pc = "swap", !.then = "again"]]
          /\ UNCHANGED page
      BY <1>1, <2>1 DEF JoinPage
    <3>2. [th[t] EXCEPT !.pc = "swap", !.then = "again"] \in Thread
      BY <1>0 DEF Thread, Labels
    <3>3. ThreadsTyped'
      BY <3>1, <3>2, ThreadSet
    <3>4. QED
      BY <1>1, <3>1, <3>3, InvFacts, OnlyLocksTyped DEF JoinPage, place
  <2>2. CASE ~page[cur_page].written_out
    <3>1. th' = [th EXCEPT ![t].pc = "place"]
          /\ page' = [page EXCEPT ![cur_page].writers = @ + 1]
      BY <1>1, <2>2 DEF JoinPage, Goto
    <3>2. [th[t] EXCEPT !.pc = "place"] \in Thread
      BY <1>0 DEF Thread, Labels
    <3>3. ThreadsTyped'
      BY <3>1, <3>2, ThreadSet
    <3>4. page' \in [Pages -> PageHeader]
      BY <1>0, <3>1, InvFacts DEF PageHeader
    <3>5. QED
      BY <1>1, <3>3, <3>4, InvFacts, OnlyPagesTyped DEF JoinPage, place
  <2>3. QED
    BY <2>1, <2>2
<1>2. CASE LeavePage(t)
  <2>1. th[t].old.page \in Pages /\ NoChunk \in ChunkPlace
    BY <1>2, InvFacts DEF LeavePage, At, FieldsOf, NoChunk, ChunkPlace
  <2>2. [th[t] EXCEPT !.pc = "drain", !.old = NoChunk, !.round = th[t].mine] \in Thread
    BY <1>0, <2>1 DEF Thread, Labels
  <2>3. ThreadsTyped'
    BY <1>2, <2>2, ThreadSet DEF LeavePage
  <2>4. page' \in [Pages -> PageHeader]
    BY <1>2, <2>1, InvFacts DEF LeavePage, PageHeader
  <2>5. QED
    BY <1>2, <2>3, <2>4, InvFacts, OnlyPagesTyped DEF LeavePage, place
<1>3. QED
  BY <1>1, <1>2

LEMMA TakePageTyped ==
    ASSUME IInv, NEW t \in Threads, TakePage(t)
    PROVE  TypeOK' /\ ThreadsTyped'
<1>0. th[t] \in Thread
  BY InvFacts
<1>1. PICK q \in Pages :
          /\ tail' = (q + 1) % NumPages
          /\ page' = [page EXCEPT ![q].num = page_num + 1, ![q].recent = TRUE,
                                  ![q].written_out = FALSE]
          /\ th' = [th EXCEPT ![t] = [th[t] EXCEPT !.pc = "dress", !.new = q]]
  BY DEF TakePage
<1>2. tail' \in Pages
  <2>1. q + 1 \in Nat /\ NumPages \in Nat \ {0}
    BY BoundsAssumption DEF Pages
  <2>2. (q + 1) % NumPages \in 0 .. NumPages - 1
    BY <2>1
  <2>3. QED
    BY <1>1, <2>2 DEF Pages
<1>3. page_num + 1 \in Nat /\ page_num' = page_num + 1 /\ offset' = 0
  BY Numbers DEF TakePage, NextPlace
<1>4. page' \in [Pages -> PageHeader]
  BY <1>1, <1>3, InvFacts, ZenonT(40) DEF PageHeader
<1>5. [th[t] EXCEPT !.pc = "dress", !.new = q] \in Thread
  BY <1>0 DEF Thread, Labels
<1>6. ThreadsTyped'
  BY <1>1, <1>5, ThreadSet
<1>7. offset' \in 0 .. PageSize - MinEntry
  BY <1>3, Numbers
<1>8. TypeOK'
  BY <1>2, <1>3, <1>4, <1>7 DEF TakePage, IInv, TypeOK
<1>9. QED
  BY <1>6, <1>8

LEMMA DressPageTyped ==
    ASSUME IInv, NEW t \in Threads, DressPage(t)
    PROVE  TypeOK' /\ ThreadsTyped'
<1>0. th[t] \in Thread
  BY InvFacts
<1>1. th[t].new \in Pages /\ th[t].then \in {"again", "link", "flush"}
  BY InvFacts DEF DressPage, At, FieldsOf
<1>2. page' \in [Pages -> PageHeader]
  BY <1>1, InvFacts DEF DressPage, PageHeader
<1>3. [th[t] EXCEPT !.pc = th[t].then, !.new = NoPage] \in Thread
  BY <1>0, <1>1 DEF Thread, Labels
<1>4. ThreadsTyped'
  BY <1>3, ThreadSet DEF DressPage
<1>5. TypeOK'
  BY <1>1, <1>2 DEF DressPage, IInv, TypeOK
<1>6. QED
  BY <1>4, <1>5

\* offset never comes so close to a page's end that no chunk would fit.
LEMMA PlaceChunkTyped ==
    ASSUME IInv, NEW t \in Threads, PlaceChunk(t)
    PROVE  TypeOK' /\ ThreadsTyped'
<1> DEFINE s == th[t].totsize
           k == th[t].key
           c == [page |-> cur_page, num |-> page_num, at |-> offset, room |-> Rest]
           label == IF UsesUpPage(s) THEN "swap" ELSE "link"
<1>0. th[t] \in Thread /\ cur_page \in Pages /\ s \in Nat
  BY InvFacts DEF Thread
<1>1. k \in Keys
  BY InvFacts DEF PlaceChunk, At, FieldsOf
<1>2. offset \in 0 .. PageSize /\ offset \in Nat
  BY SizesAssumption, Numbers
<1>3. item' \in [Keys -> [ver : Nat \cup {NoVersion}, size : Sizes \cup {0},
                     first_page : Nat \cup {NoPage}, offset : 0 .. PageSize]]
  <2>1. item' = item \/ item' = [item EXCEPT ![k].first_page = page_num,
                                             ![k].offset = offset]
    BY DEF PlaceChunk
  <2>2. QED
    BY <1>1, <1>2, <2>1, Numbers DEF IInv, TypeOK
<1>4. page' \in [Pages -> PageHeader]
  <2>1. page' = [page EXCEPT ![cur_page].consumed =
                     page[cur_page].consumed \/ UsesUpPage(s)]
    BY DEF PlaceChunk
  <2>2. page[cur_page].consumed \/ UsesUpPage(s) \in BOOLEAN
    BY <1>0, InvFacts DEF PageHeader, UsesUpPage
  <2>3. QED
    BY <1>0, <2>1, <2>2, InvFacts DEF PageHeader
<1>5. offset' \in 0 .. PageSize - MinEntry
  <2>1. CASE UsesUpPage(s)
    BY <2>1 DEF PlaceChunk, IInv, TypeOK
  <2>2. CASE ~UsesUpPage(s)
    <3>1. offset' = offset + s + HeaderSize
      BY <2>2 DEF PlaceChunk
    <3>2. ~(Rest - s < MinEntry)
      BY <2>2 DEF UsesUpPage
    <3>3. QED
      BY <1>0, <1>2, <3>1, <3>2, SizesAssumption DEF Rest
  <2>3. QED
    BY <2>1, <2>2
<1>6. [th[t] EXCEPT !.pc = label, !.then = "link", !.cur = c] \in Thread
  <2>1. c \in ChunkPlace
    BY <1>0, <1>2, Numbers DEF ChunkPlace
  <2>2. label \in Labels
    BY DEF Labels
  <2>3. QED
    BY <1>0, <2>1, <2>2 DEF Thread
<1>7. ThreadsTyped'
  BY <1>6, ThreadSet DEF PlaceChunk
<1>8. TypeOK'
  BY <1>3, <1>4, <1>5 DEF PlaceChunk, IInv, TypeOK
<1>9. QED
  BY <1>7, <1>8

LEMMA LinkChunkTyped ==
    ASSUME IInv, NEW t \in Threads, LinkChunk(t)
    PROVE  TypeOK' /\ ThreadsTyped'
<1> DEFINE o == th[t].old
           c == th[t].cur
           n == Cardinality(th[t].mine)
           label == IF n >= PAGES_PER_CORE - 1 THEN "purge" ELSE "write"
<1>0. th[t] \in Thread /\ o \in ChunkPlace /\ c \in ChunkPlace /\ n \in Nat
      /\ NoChunk \in ChunkPlace
  BY InvFacts, Numbers DEF Thread, NoChunk, ChunkPlace
<1>1. [th[t] EXCEPT !.owed = n, !.old = NoChunk, !.round = th[t].mine,
                    !.pc = label] \in Thread
  BY <1>0 DEF Thread, Labels
<1>2. ThreadsTyped'
  BY <1>1, ThreadSet DEF LinkChunk
<1>3. buffer' \in [Pages -> SUBSET Chunk] /\ page' \in [Pages -> PageHeader]
  <2>1. CASE o.page = NoPage
    BY <2>1 DEF LinkChunk, IInv, TypeOK
  <2>2. CASE o.page # NoPage
    <3> DEFINE linked == {IF d.at = o.at THEN [d EXCEPT !.next = c.num, !.noff = c.at]
                          ELSE d : d \in buffer[o.page]}
    <3>1. o.page \in Pages /\ c.num \in Int /\ c.at \in Nat
      BY <1>0, <2>2 DEF ChunkPlace
    <3>2. buffer[o.page] \subseteq Chunk /\ buffer \in [Pages -> SUBSET Chunk]
      BY <3>1 DEF IInv, TypeOK
    <3>3. linked \subseteq Chunk
      <4>1. ASSUME NEW d \in Chunk
            PROVE  [d EXCEPT !.next = c.num, !.noff = c.at] \in Chunk
        BY <3>1 DEF Chunk
      <4>2. QED
        BY <3>2, <4>1
    <3>4. buffer' = [buffer EXCEPT ![o.page] = linked]
          /\ page' = [page EXCEPT ![o.page].writers = page[o.page].writers - 1]
      BY <2>2 DEF LinkChunk
    <3>5. buffer' \in [Pages -> SUBSET Chunk]
      BY <3>2, <3>3, <3>4
    <3>6. page' \in [Pages -> PageHeader]
      <4>1. page[o.page] \in PageHeader /\ page[o.page].writers \in Int
        BY <3>1, InvFacts DEF PageHeader
      <4>2. [page[o.page] EXCEPT !.writers = page[o.page].writers - 1] \in PageHeader
        BY <4>1 DEF PageHeader
      <4>3. QED
        BY <3>1, <3>4, <4>2, InvFacts
    <3>7. QED
      BY <3>5, <3>6
  <2>3. QED
    BY <2>1, <2>2
<1>4. TypeOK'
  BY <1>3, NamesAssumption DEF LinkChunk, IInv, TypeOK
<1>5. QED
  BY <1>2, <1>4

LEMMA WriteChunkTyped ==
    ASSUME IInv, NEW t \in Threads, WriteChunk(t)
    PROVE  TypeOK' /\ ThreadsTyped'
<1> DEFINE c == th[t].cur
           s == th[t].totsize
           n == IF s > c.room THEN c.room ELSE s
           chunk == [at |-> c.at, key |-> th[t].key, ver |-> NewVersion(t),
                     size |-> n, next |-> NoPage, noff |-> 0]
           label == IF s > n THEN "page" ELSE "leave"
<1>0. th[t] \in Thread /\ c \in ChunkPlace /\ s \in Nat
      /\ NoChunk \in ChunkPlace
  BY InvFacts DEF Thread, NoChunk, ChunkPlace
<1>1. th[t].key \in Keys /\ c.page \in Pages
  BY InvFacts DEF WriteChunk, At, FieldsOf, Writing
<1>2. n \in Nat /\ s - n \in Nat /\ c.at \in Nat
  <2>1. c.room \in Nat /\ c.at \in Nat
    BY <1>0 DEF ChunkPlace
  <2>2. QED
    BY <1>0, <2>1
<1>3. chunk \in Chunk
  <2>1. NewVersion(t) \in Nat
    <3>1. item[th[t].key].ver \in Nat \cup {NoVersion}
      BY <1>1 DEF IInv, TypeOK
    <3>2. QED
      BY <3>1 DEF NewVersion, NoVersion
  <2>2. NoPage \in Int
    BY DEF NoPage
  <2>3. QED
    BY <1>1, <1>2, <2>1, <2>2 DEF Chunk
<1>4. [th[t] EXCEPT !.mine = th[t].mine \cup {c.page}, !.old = c, !.cur = NoChunk,
                    !.totsize = s - n, !.pc = label] \in Thread
  BY <1>0, <1>1, <1>2 DEF Thread, Labels
<1>5. ThreadsTyped'
  BY <1>4, ThreadSet DEF WriteChunk
<1>6. buffer' \in [Pages -> SUBSET Chunk]
  <2>1. buffer' = [buffer EXCEPT ![c.page] = With(buffer[c.page], chunk)]
    BY DEF WriteChunk
  <2>2. buffer \in [Pages -> SUBSET Chunk]
    BY DEF IInv, TypeOK
  <2>3. With(buffer[c.page], chunk) \subseteq Chunk
    BY <1>1, <1>3, <2>2 DEF With
  <2>4. QED
    BY <2>1, <2>2, <2>3
<1>7. page' \in [Pages -> PageHeader]
  BY <1>1, InvFacts DEF WriteChunk, PageHeader
<1>8. TypeOK'
  BY <1>6, <1>7 DEF WriteChunk, IInv, TypeOK, place
<1>9. QED
  BY <1>5, <1>8

LEMMA WriteOutTyped ==
    ASSUME IInv, NEW t \in Threads, WriteOut(t)
    PROVE  TypeOK' /\ ThreadsTyped'
<1> DEFINE p == th[t].try
           n == page[p].num
<1>0. th[t] \in Thread
  BY InvFacts
<1>1. p \in Pages /\ th[t].back \in {"purge", "drain"}
  BY <1>0, InvFacts DEF WriteOut, At, FieldsOf, Trying, Thread
<1>2. [Kept(t) EXCEPT !.mine = th[t].mine \ {p}] \in Thread
  BY <1>0, <1>1 DEF Kept, Thread, Labels
<1>3. ThreadsTyped'
  BY <1>2, ThreadSet DEF WriteOut, Forgotten
<1>4. page' \in [Pages -> PageHeader]
  BY <1>1, InvFacts DEF WriteOut, PageHeader
<1>5. /\ freeLock' \in Threads \cup {Nobody}
      /\ pageLock' \in [Pages -> Threads \cup {Nobody}]
  BY <1>1, InvFacts DEF WriteOut, Release
<1>6. ssd' \subseteq [num : Nat, chunk : Chunk]
  <2>1. n \in Nat /\ buffer[p] \subseteq Chunk /\ ssd \subseteq [num : Nat, chunk : Chunk]
    BY <1>1, InvFacts DEF PageHeader, IInv, TypeOK
  <2>2. ssd' = {d \in ssd : d.num # n}
               \cup {[num |-> n, chunk |-> d] : d \in buffer[p]}
    BY DEF WriteOut
  <2>3. QED
    BY <2>1, <2>2
<1>7. TypeOK'
  BY <1>4, <1>5, <1>6 DEF WriteOut, IInv, TypeOK
<1>8. QED
  BY <1>3, <1>7

LEMMA ElapseTyped ==
    ASSUME IInv, NEW q \in Pages, Elapse(q)
    PROVE  TypeOK' /\ ThreadsTyped'
<1>1. page' \in [Pages -> PageHeader]
  <2>1. page \in [Pages -> PageHeader] /\ page' = [page EXCEPT ![q].recent = FALSE]
    BY DEF Elapse, IInv, TypeOK
  <2>2. [page[q] EXCEPT !.recent = FALSE] \in PageHeader
    BY <2>1 DEF PageHeader
  <2>3. QED
    BY <2>1, <2>2
<1>2. TypeOK'
  BY <1>1 DEF Elapse, place, IInv, TypeOK
<1>3. ThreadsTyped'
  BY DEF Elapse, IInv, ThreadsTyped
<1>4. QED
  BY <1>2, <1>3

-----------------------------------------------------------------------------
(* The theorems. *)

LEMMA InvInit == Init => IInv
<1> SUFFICES ASSUME Init PROVE IInv
  OBVIOUS
<1>0. /\ NoChunk \in ChunkPlace /\ NoChunk.page = NoPage
      /\ 0 \in Pages /\ 1 % NumPages \in Pages
  BY BoundsAssumption DEF NoChunk, ChunkPlace, Pages
<1>1. \A t \in Threads : th[t] = Idle
  BY DEF Init
<1>2. ThreadsTyped
  <2>1. Idle \in Thread
    BY <1>0 DEF Idle, Thread, Labels
  <2>2. QED
    BY <2>1 DEF Init, ThreadsTyped
<1>3. TypeOK
  <2>1. NoItem \in [ver : Nat \cup {NoVersion}, size : Sizes \cup {0},
                    first_page : Nat \cup {NoPage}, offset : 0 .. PageSize]
    BY SizesAssumption DEF NoItem
  <2>2. page \in [Pages -> PageHeader]
    BY DEF Init, PageHeader
  <2>3. 0 \in 0 .. PageSize - MinEntry /\ 0 \in 0 .. MaxSets
    BY SizesAssumption, BoundsAssumption
  <2>4. QED
    BY <1>0, <2>1, <2>2, <2>3 DEF Init, TypeOK
<1>4. \A t \in Threads : /\ th[t].pc = "idle" /\ th[t].mine = {}
                         /\ th[t].cur.page = NoPage /\ th[t].old.page = NoPage
                         /\ th[t].new = NoPage /\ th[t].round = {}
                         /\ ~th[t].gotFree /\ ~th[t].headLock
  BY <1>0, <1>1 DEF Idle
<1>5. \A p \in Pages : WritersOf(p) = {}
  BY <1>4, NoPageIsNone DEF WritersOf, At
<1>6. \A t \in Threads : FieldsOf(t) /\ LocksOf(t) /\ CurrentOf(t) /\ EmptyOf(t)
  BY <1>4
  DEF FieldsOf, LocksOf, CurrentOf, EmptyOf, NeedsFreeLock, Seeking, Linking,
      Writing, Draining, Trying, Flushing, Swapping
<1>7. \A p \in Pages : PageCounted(p)
  <2>1. \A p \in Pages : page[p].writers = 0
    BY DEF Init
  <2>2. QED
    BY <1>5, <2>1, FS_EmptySet DEF PageCounted
<1>8. PagesKept
  BY DEF Init, PagesKept
<1>9. QED
  BY <1>2, <1>3, <1>6, <1>7, <1>8 DEF IInv, Protocol

LEMMA InvStep == IInv /\ [Next]_vars => IInv'
<1> SUFFICES ASSUME IInv, [Next]_vars PROVE IInv'
  OBVIOUS
<1>1. ASSUME NEW t \in Threads, WriteStep(t) PROVE IInv'
  <2>1. Protocol'
    BY <1>1, LockFreePagesKeeps, JoinPageKeeps, AgainKeeps, TakePageKeeps,
       DressPageKeeps, PlaceChunkKeeps, LinkChunkKeeps, WriteChunkKeeps,
       LeavePageKeeps, EndSetKeeps
    DEF WriteStep
  <2>2. TypeOK' /\ ThreadsTyped'
    BY <1>1, LocksTyped, PagesTyped, TakePageTyped, DressPageTyped,
       PlaceChunkTyped, LinkChunkTyped, WriteChunkTyped, TableTyped
    DEF WriteStep
  <2>3. QED
    BY <2>1, <2>2 DEF IInv
<1>2. ASSUME NEW t \in Threads, WriteOutStep(t) PROVE IInv'
  <2>1. Protocol'
    BY <1>2, EndPurgeKeeps, NextRoundKeeps, TryPageKeeps, CheckCurrentKeeps,
       TryFreePagesKeeps, JudgeKeeps, WriteOutKeeps
    DEF WriteOutStep
  <2>2. TypeOK' /\ ThreadsTyped'
    BY <1>2, LocksTyped, WriteOutTyped DEF WriteOutStep
  <2>3. QED
    BY <2>1, <2>2 DEF IInv
<1>3. ASSUME NEW t \in Threads, NEW k \in Keys, NEW s \in Sizes, BeginSet(t, k, s)
      PROVE  IInv'
  BY <1>3, BeginSetKeeps, TableTyped DEF IInv
<1>4. ASSUME NEW p \in Pages, Elapse(p) PROVE IInv'
  BY <1>4, ElapseKeeps, ElapseTyped DEF IInv
<1>5. ASSUME UNCHANGED vars PROVE IInv'
  <2>1. UNCHANGED <<entryLock, item, page, buffer, pageLock, ssd, cur_page, page_num,
                    offset, freeLock, tail, th, sets>>
    BY <1>5 DEF vars, place
  <2>2. TypeOK' /\ ThreadsTyped'
    BY <2>1 DEF IInv, TypeOK, ThreadsTyped
  <2>3. \A p : WritersOf(p)' = WritersOf(p)
    BY <2>1 DEF WritersOf, At
  <2>4. Protocol'
    BY <2>1, <2>3, SMTT(30)
    DEF IInv, Protocol, PagesKept, PageCounted, FieldsOf, LocksOf, CurrentOf, EmptyOf,
        Watched, NeedsFreeLock, Seeking, Linking, Writing, Draining, Trying,
        Flushing, Swapping
  <2>5. QED
    BY <2>2, <2>4 DEF IInv
<1>6. QED
  BY <1>1, <1>2, <1>3, <1>4, <1>5 DEF Next, Step

(* The protocol of the two locks of ssd_write and write_out_all is kept    *)
(* along every behaviour of the table (ssd_ht.c).                          *)
THEOREM Invariance == Spec => []IInv
BY InvInit, InvStep, PTL DEF Spec

(* Every variable has its type; offset leaves room for a chunk on the      *)
(* current page whatever the records' sizes (ssd_write, ssd_ht.c).         *)
THEOREM TypeCorrect == Spec => []TypeOK
<1>1. IInv => TypeOK
  BY DEF IInv
<1>2. QED
  BY <1>1, Invariance, PTL

(* get_new_page never runs out of a page for good: a page that has not     *)
(* been written out is current, about to be, or on the hands of a thread   *)
(* that will see it written out (write_out_all, ssd_ht.c).                 *)
THEOREM NoPageLost == Spec => []PagesKept
<1>1. IInv => PagesKept
  BY DEF IInv, Protocol
<1>2. QED
  BY <1>1, Invariance, PTL

(* writers of a page counts the threads still to write to it or to link a  *)
(* chunk on it, and write_out runs on a page with none of them, although   *)
(* get_new_page resets the count without the page's lock (ssd_ht.c).       *)
THEOREM WritersCounted == Spec => []WritersExact
<1>1. IInv => WritersExact
  <2>1. ASSUME IInv, NEW t \in Threads, At(t, "flush")
        PROVE  WritersOf(th[t].try) = {}
    BY <2>1, InvFacts DEF EmptyOf, Flushing, At
  <2>2. ASSUME IInv, NEW p \in Pages
        PROVE  page[p].writers = Cardinality(WritersOf(p))
    BY <2>2 DEF IInv, Protocol, PageCounted
  <2>3. QED
    BY <2>1, <2>2 DEF WritersExact
<1>2. QED
  BY <1>1, Invariance, PTL
===============================================================================
