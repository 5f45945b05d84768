------------------------------ MODULE BlockNode ------------------------------
(***************************************************************************)
(* One WombatKV process (a daemon, or an engine with the embedded C ABI)   *)
(* and the block path through it: PUT_KV_BLOCKS_BATCH, LOOKUP_BLOCK_PREFIX *)
(* and GET_KV_BLOCKS_BATCH over the three payload tiers (flat files, foyer *)
(* and the object store) and the two index tiers (L0 in RAM, L1 SlateDB),  *)
(* the eviction worker, and crash and restart with the bootstrap from      *)
(* L1 and from the bucket listing.                                         *)
(*                                                                         *)
(* Blocks are content addressed, so a tier is the set of blocks it holds.  *)
(* A step is one access to one tier: everything another thread can get     *)
(* between two accesses is a separate step.                                *)
(***************************************************************************)
EXTENDS Naturals, Sequences, FiniteSetsExt

CONSTANTS
    Blocks,         \* block hashes
    Chains,         \* the block lists clients put, look up and get
    Writers,        \* request threads that put batches
    Readers,        \* request threads that look up and get
    SizeOf,         \* payload bytes of each block
    Budget,         \* WMBT_KV_NAMESPACE_MAX_BYTES; 0 turns eviction off
    Modes,          \* what the process may be started as
    L1MayFail,      \* TRUE when SlateDB may fail to open or to write
    S3MayFail,      \* TRUE when object store calls may return an error
    MaxClock,       \* bound: index insertions in a behaviour
    MaxRestarts     \* bound: restarts in a behaviour

ASSUME BlocksAssumption ==
    /\ Chains \subseteq Seq(Blocks) \ {<<>>}
    /\ SizeOf \in [Blocks -> Nat]
    /\ Budget \in Nat
    /\ Modes \subseteq {"daemon", "embedded"}
    /\ L1MayFail \in BOOLEAN
    /\ S3MayFail \in BOOLEAN
    /\ MaxClock \in Nat
    /\ MaxRestarts \in Nat
    /\ Writers \cap Readers = {}

VARIABLES
    s3,         \* objects in the bucket
    flat,       \* files of the flat cache directory
    foyer,      \* entries of the hybrid cache
    l0,         \* InMemoryMetadataIndex: block -> meta
    l1,         \* SlateDbMetadataIndex: block -> meta, survives a crash
    l1open,     \* this process opened SlateDB
    mode,       \* "daemon" or "embedded"
    clock,      \* now_ns, advanced by every L0 insertion
    restarts,
    pc,         \* control state of each request thread
    chain,      \* the block list it works on
    at,         \* index phase: position in that list
    stage,      \* progress of the per-block subthreads of thread::scope
    matched,    \* a get that follows a lookup: its list was matched
    ev,         \* the eviction worker
    acked,      \* history: acknowledged blocks eviction has not taken since
    published,  \* history: blocks of batches whose every object was stored
    undercut    \* history: objects deleted while something still named them

storeVars == <<s3, flat, foyer>>
indexVars == <<l0, l1, clock>>
procVars == <<l1open, mode, restarts>>
threadVars == <<pc, chain, at, stage, matched>>
historyVars == <<acked, published, undercut>>
vars == <<storeVars, indexVars, procVars, threadVars, ev, historyVars>>

Threads == Writers \cup Readers

(***************************************************************************)
(* Metadata. A stamp of 0 stands for "no entry".                           *)
(***************************************************************************)
Meta == [stamp : Nat, bytes : Nat]
NoMeta == [stamp |-> 0, bytes |-> 0]
Present(m) == m.stamp > 0

Names(c) == {c[i] : i \in DOMAIN c}
Indexed == {h \in Blocks : Present(l0[h])}
Without(idx, S) == [h \in Blocks |-> IF h \in S THEN NoMeta ELSE idx[h]]
Bytes(idx, S) == MapThenSumSet(LAMBDA h : idx[h].bytes, S)

\* The cycle shrinks the namespace to 90% of the budget.
Target == (Budget * 9) \div 10

(***************************************************************************)
(* Request threads. "put" and "get" fan out one subthread per block; "l0"  *)
(* and "l1" are the sequential index phase of a put; "dead" is a thread    *)
(* that panicked inside a SlateDB call.                                    *)
(***************************************************************************)
PutStages == {"todo", "cached", "stored", "failed"}
GetStages == {"todo", "noflat", "nofoyer", "fetched", "hit", "miss", "err", "skipped"}
Stages == {"none"} \cup PutStages \cup GetStages

EvIdle == [pc |-> "idle", snap |-> [h \in Blocks |-> NoMeta],
           left |-> {}, freed |-> {}, victim |-> {}]

Init ==
    /\ s3 = {} /\ flat = {} /\ foyer = {}
    /\ l0 = [h \in Blocks |-> NoMeta]
    /\ l1 = [h \in Blocks |-> NoMeta]
    /\ l1open \in BOOLEAN /\ (l1open \/ L1MayFail)
    /\ mode \in Modes
    /\ clock = 0
    /\ restarts = 0
    /\ pc = [t \in Threads |-> "idle"]
    /\ chain = [t \in Threads |-> <<>>]
    /\ at = [t \in Threads |-> 0]
    /\ stage = [t \in Threads |-> [h \in Blocks |-> "none"]]
    /\ matched = [t \in Threads |-> FALSE]
    /\ ev = EvIdle
    /\ acked = {} /\ published = {} /\ undercut = {}

Fanout(t, c, p) ==
    /\ pc' = [pc EXCEPT ![t] = p]
    /\ chain' = [chain EXCEPT ![t] = c]
    /\ stage' = [stage EXCEPT ![t] =
                    [h \in Blocks |-> IF h \in Names(c) THEN "todo" ELSE "none"]]

\* Back to idle, with nothing left of the request.
Reply(t) ==
    /\ pc' = [pc EXCEPT ![t] = "idle"]
    /\ chain' = [chain EXCEPT ![t] = <<>>]
    /\ at' = [at EXCEPT ![t] = 0]
    /\ stage' = [stage EXCEPT ![t] = [h \in Blocks |-> "none"]]
    /\ matched' = [matched EXCEPT ![t] = FALSE]

MoveStage(t, h, from, to) ==
    /\ stage[t][h] = from
    /\ stage' = [stage EXCEPT ![t][h] = to]

\* A flat cache write that fails is dropped without an error.
FlatPut(h) == flat' \in {flat, flat \cup {h}}

(***************************************************************************)
(* PUT_KV_BLOCKS_BATCH                                                     *)
(***************************************************************************)
PutBlocks(t, c) ==
    /\ pc[t] = "idle"
    /\ clock < MaxClock
    /\ Fanout(t, c, "put")
    /\ UNCHANGED <<at, matched, storeVars, indexVars, procVars, ev, historyVars>>

\* put_kv: flat and foyer first.
PutCaches(t, h) ==
    /\ pc[t] = "put"
    /\ MoveStage(t, h, "todo", "cached")
    /\ FlatPut(h)
    /\ foyer' = foyer \cup {h}
    /\ UNCHANGED <<pc, chain, at, matched, s3, indexVars, procVars, ev, historyVars>>

\* Faulty variant: a failed object write is only logged.
PutObjectBestEffort(t, h) ==
    /\ pc[t] = "put"
    /\ MoveStage(t, h, "cached", "stored")
    /\ \/ s3' = s3 \cup {h} /\ undercut' = undercut \ {h}
       \/ S3MayFail /\ UNCHANGED <<s3, undercut>>
    /\ UNCHANGED <<pc, chain, at, matched, flat, foyer, indexVars, procVars, ev,
                   acked, published>>

\* put_kv: then the object, with write_through_s3. A call that returns an
\* error may have stored the object all the same.
PutObject(t, h) ==
    /\ pc[t] = "put"
    /\ \/ /\ MoveStage(t, h, "cached", "stored")
          /\ s3' = s3 \cup {h}
          /\ undercut' = undercut \ {h}
       \/ /\ S3MayFail
          /\ MoveStage(t, h, "cached", "failed")
          /\ \/ UNCHANGED <<s3, undercut>>
             \/ s3' = s3 \cup {h} /\ undercut' = undercut \ {h}
    /\ UNCHANGED <<pc, chain, at, matched, flat, foyer, indexVars, procVars, ev,
                   acked, published>>

\* Faulty variant: the batch is indexed when some of its objects were stored.
PutJoinSome(t) ==
    /\ pc[t] = "put"
    /\ \A h \in Names(chain[t]) : stage[t][h] \in {"stored", "failed"}
    /\ \E h \in Names(chain[t]) : stage[t][h] = "stored"
    /\ pc' = [pc EXCEPT ![t] = "l0"]
    /\ at' = [at EXCEPT ![t] = 1]
    /\ UNCHANGED <<chain, stage, matched, storeVars, indexVars, procVars, ev, historyVars>>

\* Faulty variant: no reply to a batch that failed.
PutJoinNoError(t) ==
    /\ pc[t] = "put"
    /\ \A h \in Names(chain[t]) : stage[t][h] = "stored"
    /\ pc' = [pc EXCEPT ![t] = "l0"]
    /\ at' = [at EXCEPT ![t] = 1]
    /\ published' = published \cup Names(chain[t])
    /\ UNCHANGED <<chain, stage, matched, storeVars, indexVars, procVars, ev, acked, undercut>>

\* All subthreads joined: any error fails the batch before the index is touched.
PutJoin(t) ==
    /\ pc[t] = "put"
    /\ \A h \in Names(chain[t]) : stage[t][h] \in {"stored", "failed"}
    /\ \/ /\ \E h \in Names(chain[t]) : stage[t][h] = "failed"
          /\ Reply(t)
          /\ UNCHANGED published
       \/ /\ \A h \in Names(chain[t]) : stage[t][h] = "stored"
          /\ pc' = [pc EXCEPT ![t] = "l0"]
          /\ at' = [at EXCEPT ![t] = 1]
          /\ published' = published \cup Names(chain[t])
          /\ UNCHANGED <<chain, stage, matched>>
    /\ UNCHANGED <<storeVars, indexVars, procVars, ev, acked, undercut>>

\* The next block of the index loop, or the reply after the last one; idx is
\* L0 as this step leaves it.
NextBlock(t, idx) ==
    \/ /\ at[t] < Len(chain[t])
       /\ at' = [at EXCEPT ![t] = @ + 1]
       /\ pc' = [pc EXCEPT ![t] = "l0"]
       /\ UNCHANGED <<chain, stage, matched, acked>>
    \/ /\ at[t] >= Len(chain[t])
       /\ Reply(t)
       /\ acked' = acked \cup {h \in Names(chain[t]) : Present(idx[h])}

\* Only the daemon writes L1 through, and only when it opened it.
WritesL1 == mode = "daemon" /\ l1open

\* Faulty variant: no L1 write for a block L0 already had.
IndexL0Dedup(t) ==
    /\ pc[t] = "l0"
    /\ LET h == chain[t][at[t]] IN
       /\ clock' = clock + 1
       /\ l0' = [l0 EXCEPT ![h] = [stamp |-> clock + 1, bytes |-> SizeOf[h]]]
       /\ \/ /\ WritesL1 /\ ~Present(l0[h])
             /\ pc' = [pc EXCEPT ![t] = "l1"]
             /\ UNCHANGED <<chain, at, stage, matched, acked>>
          \/ /\ ~WritesL1 \/ Present(l0[h])
             /\ NextBlock(t, l0')
    /\ UNCHANGED <<l1, storeVars, procVars, ev, published, undercut>>

IndexL0(t) ==
    /\ pc[t] = "l0"
    /\ LET h == chain[t][at[t]] IN
       /\ clock' = clock + 1
       /\ l0' = [l0 EXCEPT ![h] = [stamp |-> clock + 1, bytes |-> SizeOf[h]]]
    /\ \/ /\ WritesL1
          /\ pc' = [pc EXCEPT ![t] = "l1"]
          /\ UNCHANGED <<chain, at, stage, matched, acked>>
       \/ /\ ~WritesL1
          /\ NextBlock(t, l0')
    /\ UNCHANGED <<l1, storeVars, procVars, ev, published, undercut>>

\* SlateDB panics instead of returning an error, which ends the thread; the
\* entry may have been written by then.
IndexL1(t) ==
    /\ pc[t] = "l1"
    /\ LET h == chain[t][at[t]]
           entry == [stamp |-> clock, bytes |-> SizeOf[h]]
       IN \/ /\ l1' = [l1 EXCEPT ![h] = entry]
             /\ NextBlock(t, l0)
          \/ /\ L1MayFail
             /\ l1' \in {l1, [l1 EXCEPT ![h] = entry]}
             /\ pc' = [pc EXCEPT ![t] = "dead"]
             /\ UNCHANGED <<chain, at, stage, matched, acked>>
    /\ UNCHANGED <<l0, clock, storeVars, procVars, ev, published, undercut>>

(***************************************************************************)
(* LOOKUP_BLOCK_PREFIX and GET_KV_BLOCKS_BATCH                             *)
(***************************************************************************)

\* k is what longest_prefix(c) answers: the scan stops at the first block that
\* is not in the index.
LongestPrefix(c, k) ==
    /\ \A i \in 1..k : Present(l0[c[i]])
    /\ k < Len(c) => ~Present(l0[c[k + 1]])

\* An engine looks its prompt up and gets what was matched; a lookup that
\* matches nothing changes nothing.
LookupBlockPrefix(t, c) ==
    /\ pc[t] = "idle"
    /\ \E k \in 1..Len(c) : LongestPrefix(c, k) /\ Fanout(t, SubSeq(c, 1, k), "get")
    /\ matched' = [matched EXCEPT ![t] = TRUE]
    /\ UNCHANGED <<at, storeVars, indexVars, procVars, ev, historyVars>>

\* A get without a lookup: what the prefetch worker's fetches are, too.
GetBlocks(t, c) ==
    /\ pc[t] = "idle"
    /\ Fanout(t, c, "get")
    /\ UNCHANGED <<matched, at, storeVars, indexVars, procVars, ev, historyVars>>

GetFlat(t, h) ==
    /\ pc[t] = "get"
    /\ MoveStage(t, h, "todo", IF h \in flat THEN "hit" ELSE "noflat")
    /\ UNCHANGED <<pc, chain, at, matched, storeVars, indexVars, procVars, ev, historyVars>>

\* A foyer hit repairs the flat tier.
GetFoyer(t, h) ==
    /\ pc[t] = "get"
    /\ \/ h \in foyer /\ MoveStage(t, h, "noflat", "hit") /\ FlatPut(h)
       \/ h \notin foyer /\ MoveStage(t, h, "noflat", "nofoyer") /\ UNCHANGED flat
    /\ UNCHANGED <<pc, chain, at, matched, s3, foyer, indexVars, procVars, ev, historyVars>>

GetObject(t, h) ==
    /\ pc[t] = "get"
    /\ \/ MoveStage(t, h, "nofoyer", IF h \in s3 THEN "fetched" ELSE "miss")
       \/ S3MayFail /\ MoveStage(t, h, "nofoyer", "err")
    /\ UNCHANGED <<pc, chain, at, matched, storeVars, indexVars, procVars, ev, historyVars>>

\* The fetched payload populates both caches.
GetFill(t, h) ==
    /\ pc[t] = "get"
    /\ MoveStage(t, h, "fetched", "hit")
    /\ FlatPut(h)
    /\ foyer' = foyer \cup {h}
    /\ UNCHANGED <<pc, chain, at, matched, s3, indexVars, procVars, ev, historyVars>>

\* saw_miss: a subthread that starts after another one missed gives up.
GetGiveUp(t, h) ==
    /\ pc[t] = "get"
    /\ \E g \in Names(chain[t]) : stage[t][g] = "miss"
    /\ MoveStage(t, h, "todo", "skipped")
    /\ UNCHANGED <<pc, chain, at, matched, storeVars, indexVars, procVars, ev, historyVars>>

GetJoin(t) ==
    /\ pc[t] = "get"
    /\ \A h \in Names(chain[t]) : stage[t][h] \in {"hit", "miss", "err", "skipped"}
    /\ Reply(t)
    /\ UNCHANGED <<storeVars, indexVars, procVars, ev, historyVars>>

\* foyer evicts entries on its own.
FoyerAge(h) ==
    /\ h \in foyer
    /\ foyer' = foyer \ {h}
    /\ UNCHANGED <<s3, flat, indexVars, procVars, threadVars, ev, historyVars>>

\* CLEAR drops what foyer holds; the flat files stay.
ClearFoyer ==
    /\ foyer' = {}
    /\ UNCHANGED <<s3, flat, indexVars, procVars, threadVars, ev, historyVars>>

\* RESTORE loads the listed objects into foyer, up to the first error.
RestoreFromS3 ==
    /\ \E R \in SUBSET s3 :
        /\ R = s3 \/ S3MayFail
        /\ foyer' = foyer \cup R
    /\ UNCHANGED <<s3, flat, indexVars, procVars, threadVars, ev, historyVars>>

(***************************************************************************)
(* The eviction worker. ev.snap is the snapshot a cycle works from,        *)
(* ev.left what it has not visited, ev.freed what it has evicted.          *)
(***************************************************************************)
EvScan ==
    /\ ev.pc = "idle"
    /\ Budget > 0
    /\ Bytes(l0, Indexed) > Budget
    /\ ev' = [pc |-> "walk", snap |-> l0, left |-> Indexed, freed |-> {}, victim |-> {}]
    /\ UNCHANGED <<storeVars, indexVars, procVars, threadVars, historyVars>>

\* Faulty variant: no headroom below the budget.
FreedToBudget ==
    Bytes(ev.snap, ev.freed) + Budget >= Bytes(ev.snap, {h \in Blocks : Present(ev.snap[h])})

\* Freed enough to be at the target, counting from the snapshot.
FreedEnough ==
    Bytes(ev.snap, ev.freed) + Target >= Bytes(ev.snap, {h \in Blocks : Present(ev.snap[h])})

Oldest(h) == h \in ev.left /\ \A g \in ev.left : ev.snap[h].stamp <= ev.snap[g].stamp

\* Faulty variant: remove whatever the index holds now.
EvTakeBlindly(h) ==
    /\ ev.pc = "walk"
    /\ ~FreedEnough
    /\ Oldest(h)
    /\ l0' = Without(l0, {h})
    /\ acked' = acked \ {h}
    /\ ev' = [ev EXCEPT !.pc = "l1", !.left = @ \ {h}, !.victim = {h}]
    /\ UNCHANGED <<l1, clock, storeVars, procVars, threadVars, published, undercut>>

\* Faulty variant: try a block whose stamp moved again, instead of the next one.
EvTakeRetry(h) ==
    /\ ev.pc = "walk"
    /\ ~FreedEnough
    /\ Oldest(h)
    /\ l0[h].stamp = ev.snap[h].stamp
    /\ l0' = Without(l0, {h})
    /\ acked' = acked \ {h}
    /\ ev' = [ev EXCEPT !.pc = "l1", !.left = @ \ {h}, !.victim = {h}]
    /\ UNCHANGED <<l1, clock, storeVars, procVars, threadVars, published, undercut>>

\* remove_if_unchanged: compare the stamp and delete, under the write lock.
EvTake(h) ==
    /\ ev.pc = "walk"
    /\ ~FreedEnough
    /\ Oldest(h)
    /\ \/ /\ l0[h].stamp = ev.snap[h].stamp
          /\ l0' = Without(l0, {h})
          /\ acked' = acked \ {h}
          /\ ev' = [ev EXCEPT !.pc = "l1", !.left = @ \ {h}, !.victim = {h}]
       \/ /\ l0[h].stamp # ev.snap[h].stamp
          /\ ev' = [ev EXCEPT !.left = @ \ {h}]
          /\ UNCHANGED <<l0, acked>>
    /\ UNCHANGED <<l1, clock, storeVars, procVars, threadVars, published, undercut>>

\* SlateDbMetadataIndex::remove panics on failure, which ends the worker.
EvRemoveL1 ==
    /\ ev.pc = "l1"
    /\ \/ /\ l1open
          /\ l1' = Without(l1, ev.victim)
          /\ ev' = [ev EXCEPT !.pc = "flat"]
       \/ /\ l1open /\ L1MayFail
          /\ l1' \in {l1, Without(l1, ev.victim)}
          /\ ev' = [EvIdle EXCEPT !.pc = "dead"]
       \/ /\ ~l1open
          /\ ev' = [ev EXCEPT !.pc = "flat"]
          /\ UNCHANGED l1
    /\ UNCHANGED <<l0, clock, storeVars, procVars, threadVars, historyVars>>

EvRemoveFlat ==
    /\ ev.pc = "flat"
    /\ flat' = flat \ ev.victim
    /\ ev' = [ev EXCEPT !.pc = "s3"]
    /\ UNCHANGED <<s3, foyer, indexVars, procVars, threadVars, historyVars>>

\* The index names h, or a put that has stored it is about to.
Referenced(h) ==
    \/ Present(l0[h]) \/ Present(l1[h])
    \/ \E t \in Writers : pc[t] \in {"put", "l0", "l1"} /\ stage[t][h] = "stored"

\* A delete that fails counts as freed: the object stays behind.
EvDeleteObject ==
    /\ ev.pc = "s3"
    /\ \/ /\ s3' = s3 \ ev.victim
          /\ undercut' = undercut \cup {h \in ev.victim : Referenced(h)}
       \/ /\ S3MayFail
          /\ UNCHANGED <<s3, undercut>>
    /\ ev' = [ev EXCEPT !.pc = "walk", !.freed = @ \cup ev.victim, !.victim = {}]
    /\ UNCHANGED <<flat, foyer, indexVars, procVars, threadVars, acked, published>>

EvEnd ==
    /\ ev.pc = "walk"
    /\ FreedEnough \/ ev.left = {}
    /\ ev' = EvIdle
    /\ UNCHANGED <<storeVars, indexVars, procVars, threadVars, historyVars>>

(***************************************************************************)
(* Crash and restart                                                       *)
(***************************************************************************)

\* Faulty variant: the daemon, too, indexes what the bucket lists.
BootstrapListing(m, opened, listed) ==
    [h \in Blocks |->
        IF listed /\ h \in s3 THEN [stamp |-> clock + 1, bytes |-> 0]
        ELSE IF opened THEN l1[h] ELSE NoMeta]

\* bootstrap_from_slatedb, then (embedded only) bootstrap_world_knowledge:
\* every block object of the bucket is inserted, with no known size, over
\* whatever the first pass loaded.
Bootstrap(m, opened, listed) ==
    [h \in Blocks |->
        IF m = "embedded" /\ listed /\ h \in s3
        THEN [stamp |-> clock + 1, bytes |-> 0]
        ELSE IF opened THEN l1[h] ELSE NoMeta]

CrashRestart ==
    /\ restarts < MaxRestarts
    /\ clock < MaxClock
    /\ restarts' = restarts + 1
    /\ \E m \in Modes, opened \in BOOLEAN, listed \in BOOLEAN :
        /\ opened \/ L1MayFail
        /\ listed \/ S3MayFail
        /\ mode' = m
        /\ l1open' = opened
        /\ l0' = Bootstrap(m, opened, listed)
        /\ clock' = clock + 1
    /\ pc' = [t \in Threads |-> "idle"]
    /\ chain' = [t \in Threads |-> <<>>]
    /\ at' = [t \in Threads |-> 0]
    /\ stage' = [t \in Threads |-> [h \in Blocks |-> "none"]]
    /\ matched' = [t \in Threads |-> FALSE]
    /\ ev' = EvIdle
    /\ UNCHANGED <<l1, storeVars, historyVars>>

(***************************************************************************)
(* The specification                                                       *)
(***************************************************************************)
Put(t) ==
    \/ \E h \in Blocks : PutCaches(t, h) \/ PutObject(t, h)
    \/ PutJoin(t) \/ IndexL0(t) \/ IndexL1(t)

Get(t) ==
    \/ \E h \in Blocks :
        GetFlat(t, h) \/ GetFoyer(t, h) \/ GetObject(t, h) \/ GetFill(t, h) \/ GetGiveUp(t, h)
    \/ GetJoin(t)

Evict ==
    \/ EvScan
    \/ \E h \in Blocks : EvTake(h)
    \/ EvRemoveL1 \/ EvRemoveFlat \/ EvDeleteObject \/ EvEnd

Next ==
    \/ \E t \in Writers : (\E c \in Chains : PutBlocks(t, c)) \/ Put(t)
    \/ \E t \in Readers : (\E c \in Chains : LookupBlockPrefix(t, c) \/ GetBlocks(t, c)) \/ Get(t)
    \/ Evict
    \/ \E h \in Blocks : FoyerAge(h)
    \/ ClearFoyer \/ RestoreFromS3
    \/ CrashRestart

Spec == Init /\ [][Next]_vars

\* Threads that have work are scheduled: the request threads run on their own
\* OS threads and the eviction worker wakes up every interval.
FairSpec == Spec /\ (\A t \in Writers : WF_vars(Put(t))) /\ WF_vars(Evict)

(***************************************************************************)
(* Properties                                                              *)
(***************************************************************************)
Eviction == [pc : {"idle", "walk", "l1", "flat", "s3", "dead"},
             snap : [Blocks -> Meta], left : SUBSET Blocks,
             freed : SUBSET Blocks, victim : SUBSET Blocks]

\* Every variable has its type, and the index loop of a put stays inside the
\* block list.
TypeOK ==
    /\ s3 \subseteq Blocks /\ flat \subseteq Blocks /\ foyer \subseteq Blocks
    /\ l0 \in [Blocks -> Meta] /\ l1 \in [Blocks -> Meta]
    /\ l1open \in BOOLEAN /\ mode \in Modes
    /\ clock \in Nat /\ restarts \in Nat
    /\ pc \in [Threads -> {"idle", "put", "l0", "l1", "get", "dead"}]
    /\ chain \in [Threads -> Seq(Blocks)]
    /\ at \in [Threads -> Nat]
    /\ \A t \in Threads :
        /\ at[t] <= Len(chain[t])
        /\ at[t] > 0 <=> pc[t] \in {"l0", "l1", "dead"}
        /\ chain[t] = <<>> <=> pc[t] = "idle"
    /\ stage \in [Threads -> [Blocks -> Stages]]
    /\ matched \in [Threads -> BOOLEAN]
    /\ ev \in Eviction
    /\ acked \subseteq Blocks /\ published \subseteq Blocks /\ undercut \subseteq Blocks

\* A block that L0 or L1 names has its object in the bucket, through failed
\* puts, crashes between the steps of a put and restarts. The one exception
\* is an object the eviction worker deleted while the index named it again or
\* a put that had stored it was still running (lru.rs removes the L0 entry,
\* the L1 entry and the object in three steps no lock holds together).
IndexBacked == \A h \in Blocks : Present(l0[h]) \/ Present(l1[h]) => h \in s3 \cup undercut

\* A lookup of a chain whose blocks were all acknowledged (and not evicted
\* since) matches the whole chain, also in a process started after a crash.
LookupSeesAcked ==
    \A c \in Chains : \A k \in 0..Len(c) :
        Names(c) \subseteq acked /\ LongestPrefix(c, k) => k = Len(c)

\* The index names only blocks of batches whose every object was stored: what
\* a batch that failed half-way or was cut off by a crash left behind in the
\* bucket is never matched.
IndexPublishedOnly == Indexed \subseteq published

\* A get of blocks that a lookup matched is never answered with a miss,
\* whatever foyer ages out and whatever is lost in a crash in between.
MatchedServed == \A t \in Readers, h \in Blocks : matched[t] => stage[t][h] # "miss"

\* An acknowledged block that eviction has not taken since is in some tier.
AckedServable == acked \subseteq s3 \cup flat \cup foyer

\* The entry eviction removes is the least recent one of the index as it is at
\* that moment, not as it was when the cycle took its snapshot.
EvictsOldest ==
    [][restarts' = restarts =>
        \A h \in Indexed : ~Present(l0'[h]) =>
            \A g \in Indexed : l0[h].stamp <= l0[g].stamp]_vars

\* When a cycle ends, the entries that did not change while it ran are within
\* the target.
CycleMeetsTarget ==
    [][ev.pc = "walk" /\ ev'.pc = "idle" /\ restarts' = restarts =>
        Bytes(l0, {h \in Indexed : l0[h] = ev.snap[h]}) <= Target]_vars

\* Bootstrap keeps the entries the SlateDB pass loaded.
BootstrapKeepsL1 ==
    [][restarts' # restarts /\ l1open' =>
        \A h \in Blocks : Present(l1[h]) => l0'[h] = l1[h]]_vars

\* Every put is answered, with success or with an error, or cut off by a crash.
PutAnswered == \A t \in Writers : pc[t] = "put" ~> pc[t] = "idle"

\* A namespace over its budget is brought back within it.
BudgetRestored == Bytes(l0, Indexed) > Budget ~> Bytes(l0, Indexed) <= Budget

=============================================================================
