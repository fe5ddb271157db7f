----------------------------- MODULE NvLogHistory -----------------------------
(***************************************************************************)
(* What the clients of the log may expect: NvLog with history variables    *)
(* that no step reads.  known and newest follow the SETs that were         *)
(* answered, promised what a GET owes to the client that sends it, and     *)
(* fate why an item in the log need not be kept any longer.                *)
(***************************************************************************)
EXTENDS NvLog

VARIABLES
    known,     \* the keys of the SETs that were answered
    newest,    \* the value of the SET of each key answered last
    promised,  \* what newest was when a worker's GET began
    fate       \* per slot: "stored" once its item was given to database_set,
               \* "superseded" once a SET of its key marked it consumed

hvars == <<known, newest, promised, fate>>

HInit ==
    /\ Init
    /\ known = {}
    /\ newest = [k \in Keys |-> Absent]
    /\ promised = [w \in Workers |-> Absent]
    /\ fate = [p \in Slot |-> {}]

HAnswerSet(w) ==
    /\ WriteVal(w)
    /\ known' = known \cup {key[w]}
    /\ newest' = [newest EXCEPT ![key[w]] = val[w]]
    /\ UNCHANGED <<promised, fate>>

HBeginGet(w, k) ==
    /\ BeginGet(w, k)
    /\ promised' = [promised EXCEPT ![w] = newest[k]]
    /\ UNCHANGED <<known, newest, fate>>

HAnswerGet(w) ==
    /\ GetReply(w)
    /\ promised' = [promised EXCEPT ![w] = Absent]
    /\ UNCHANGED <<known, newest, fate>>

HAllocate(w) ==
    /\ Allocate(w)
    /\ fate' = [fate EXCEPT ![tail] = {}]
    /\ UNCHANGED <<known, newest, promised>>

HMarkOld(w) ==
    /\ SetMarkOld(w)
    /\ fate' = [fate EXCEPT ![old[w]] = @ \cup {"superseded"}]
    /\ UNCHANGED <<known, newest, promised>>

HStore(t) ==
    /\ FlushStore(t)
    /\ fate' = [fate EXCEPT ![it[t]] = @ \cup {"stored"}]
    /\ UNCHANGED <<known, newest, promised>>

HOther ==
    /\ \/ \E w \in Workers :
            \/ \E k \in Keys, v \in Values : BeginSet(w, k, v)
            \/ SetFind(w) \/ SetUnread(w) \/ SetInvalidate(w)
            \/ AllocateFails(w) \/ WriteKey(w)
            \/ GetFind(w) \/ GetCopy(w) \/ GetUnread(w) \/ GetInvalidate(w)
            \/ GetStore(w)
       \/ \E t \in Threads :
            \/ ClaimLockBusy(t)
            \/ ClaimNothing(t) \/ ClaimTooEarly(t) \/ Claim(t)
            \/ ClaimInvalidate(t) \/ CheckBetween(t) \/ CheckTail(t)
            \/ FlushCopy(t) \/ FlushUnread(t) \/ Consume(t)
            \/ FlushInvalidate(t)
    /\ UNCHANGED hvars

HNext ==
    Running(\/ \E w \in Workers :
                 \/ HAnswerSet(w) \/ HAnswerGet(w)
                 \/ \E k \in Keys : HBeginGet(w, k)
                 \/ HAllocate(w) \/ HMarkOld(w)
            \/ \E t \in Threads : HStore(t)
            \/ HOther)

HSpec == HInit /\ [][HNext]_<<vars, hvars>>

-----------------------------------------------------------------------------
(* Properties. *)

SetInFlight(k) == \E w \in Workers : pc[w] \in SetPcs \cup FlushPcs /\ key[w] = k

\* The live item of the log that NVDIMM_find returns for a key.
Readable(k) == \E p \in Slot : Between(p) /\ Matches(p, k)

\* An item leaves the log only after its value was handed to database_set or a
\* later SET of its key took its place, however claims, overwrites and
\* invalidations interleave (NVDIMM.c:193, 765, 780, 811).
NothingDropped ==
    [][\A p \in Slot :
         Between(p) /\ ~IsBetween(p, head', tail') => fate[p] # {}]_<<vars, hvars>>

\* Once a SET of a key was answered and no other is under way, the key is in
\* the log or in the store, also while its item moves from one to the other.
AnsweredKeyIsKept ==
    \A k \in known :
        ~SetInFlight(k) => Readable(k) \/ store[k] # Absent

\* A client whose SET was answered never reads KEY_ENOENT for that key: the
\* test NVDIMM_test_multi_2 exits when a GET after a PUT returns NULL.
GetAfterSetFinds ==
    \A w \in Workers :
        pc[w] = "get_reply" /\ promised[w] # Absent => buf[w] # Absent

\* At most one item of the log answers for a key, as a SET takes the previous
\* one out before it appends its own (NVDIMM.c:191-196), and with no SET of the
\* key under way it carries the value answered last, whatever older copies are
\* still on their way to the SSD.
LogHoldsNewest ==
    /\ \A k \in Keys :
          Cardinality({p \in Slot : Between(p) /\ Matches(p, k)}) <= 1
    /\ \A k \in known, p \in Slot :
          FoundAt(k, p) /\ ~SetInFlight(k) => item[p].val = newest[k]

\* Only complete values reach the SSD: NVDIMM_claim_next leaves an item alone
\* "if its not done being written" (NVDIMM.c:687).
OnlyCompleteItemsClaimed ==
    \A t \in Threads :
        pc[t] \in FlushingPcs => "WRITING_VAL" \notin item[it[t]].state
=============================================================================
