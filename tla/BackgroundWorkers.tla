-------------------------- MODULE BackgroundWorkers --------------------------
(***************************************************************************)
(* The two threads a handle owns: the prefetch worker, which warms the     *)
(* flat tier with the blocks most likely to be read next, and the LRU      *)
(* eviction worker.  Both read the one metadata index while puts write it; *)
(* both end when the handle is dropped, which sets their stop flags and    *)
(* joins them one after the other.  Time is counted in half-lives of the   *)
(* recency score.  BlockNode has the eviction cycle and the put path at a  *)
(* finer grain; here a put is one step and only loses races with the       *)
(* workers.                                                                *)
(***************************************************************************)
EXTENDS Integers, Sequences, FiniteSets
LOCAL INSTANCE SequencesExt
LOCAL INSTANCE FiniteSetsExt

CONSTANTS
    WkBlocks,     \* block hashes; their order is the index's key order
    Home,         \* the namespace each block is put under
    WkNamespace,  \* the namespace the workers are configured with
    WkIndexes,    \* what a bootstrap may have loaded into the index
    WkMissing,    \* sets of blocks whose objects are gone by then
    WkEnvs,       \* environments the handle may be built from
    TopK,         \* WMBT_KV_PREFETCH_TOP_K
    SleepSlices,  \* slices of one interval
    MaxNow, MaxPublishes, MaxWkFaults  \* bounds

ASSUME WorkersAssumption ==
    /\ WkBlocks \subseteq Nat
    /\ \A idx \in WkIndexes : DOMAIN idx \subseteq WkBlocks
    /\ WkMissing \subseteq SUBSET WkBlocks
    /\ {TopK, SleepSlices, MaxNow, MaxPublishes, MaxWkFaults} \subseteq Nat

VARIABLES
    env,        \* the handle's environment
    wkNow,      \* the clock
    wkIndex,    \* L0: block -> [stamp, seq, digest, bytes]
    wkObjects,  \* <<namespace, block>> pairs in the object store
    wkFlat,     \* the same of the flat tier
    wkFoyer,    \* and of foyer
    pf,         \* the prefetch thread
    lru,        \* the eviction thread
    stop,       \* the two stop flags
    owner,      \* the thread that owns the handle
    wkFreed,    \* blocks the evictor counted as freed, their deletes answered Ok
    publishes, wkFaults

storeVars == <<wkObjects, wkFlat, wkFoyer>>
workerVars == <<env, wkNow, wkIndex, wkObjects, wkFlat, wkFoyer, pf, lru, stop, owner,
                wkFreed, publishes, wkFaults>>

Here(h) == <<WkNamespace, h>>
ZeroDigest == "zero"

\* prefetch_worker_from_env: interval 0 is the only way to opt out.
PrefetchWorkerFromEnv(e) == IF e.interval = "0" THEN "none" ELSE "top"

\* LruConfig::from_env: no worker without a budget.
EvictionWorkerFromEnv(e) == IF e.budget = 0 THEN "none" ELSE "top"

\* model_digest_from_env: a fingerprint that is absent or malformed is zero.
ModelDigestFromEnv(e) == IF e.fingerprint \in {"unset", "malformed"} THEN ZeroDigest ELSE e.fingerprint

WorkersInit ==
    /\ env \in WkEnvs
    /\ wkNow = 1
    /\ wkIndex \in WkIndexes
    /\ wkObjects \in {{<<Home[h], h>> : h \in DOMAIN wkIndex \ gone} : gone \in WkMissing}
    /\ wkFlat = {} /\ wkFoyer = {}
    /\ pf = [pc |-> PrefetchWorkerFromEnv(env), plan |-> <<>>, slept |-> 0]
    /\ lru = [pc |-> EvictionWorkerFromEnv(env), left |-> <<>>, need |-> 0, slept |-> 0]
    /\ stop = [prefetch |-> FALSE, evict |-> FALSE]
    /\ owner = "open"
    /\ wkFreed = {} /\ publishes = 0 /\ wkFaults = 0

-----------------------------------------------------------------------------
\* Requests and time

Elapse ==
    /\ wkNow < MaxNow
    /\ wkNow' = wkNow + 1
    /\ UNCHANGED <<env, wkIndex, storeVars, pf, lru, stop, owner, wkFreed, publishes, wkFaults>>

\* A put of a known block again: the tiers hold it and insert re-stamps it.
Republish(h) ==
    /\ owner = "open" /\ publishes < MaxPublishes
    /\ h \in DOMAIN wkIndex
    /\ wkIndex' = [wkIndex EXCEPT ![h].stamp = wkNow]
    /\ wkObjects' = wkObjects \cup {<<Home[h], h>>}
    /\ wkFlat' = wkFlat \cup {<<Home[h], h>>}
    /\ wkFoyer' = wkFoyer \cup {<<Home[h], h>>}
    /\ wkFreed' = wkFreed \ {h}
    /\ publishes' = publishes + 1
    /\ UNCHANGED <<env, wkNow, pf, lru, stop, owner, wkFaults>>

-----------------------------------------------------------------------------
\* The prefetch worker

\* Weights 1.0, 0.3 and 0.2 in thousandths; the recency halves per half-life.
\* A stamp ahead of this host's clock counts as age 0.
ScoreBlock(m, now, active) ==
    LET age == IF m.stamp > now THEN 0 ELSE now - m.stamp IN
    (1000 \div 2^age) + (IF m.seq = 0 THEN 300 ELSE 0) + (IF m.digest = active THEN 200 ELSE 0)

Score(h) == ScoreBlock(wkIndex[h], wkNow, ModelDigestFromEnv(env))

\* Score a snapshot of the index, sort it and truncate it to TopK.  The sort
\* is stable: equal scores keep the order of the keys.
RunCycle ==
    LET sorted == SetToSortSeq(DOMAIN wkIndex,
                    LAMBDA a, b : Score(a) > Score(b) \/ (Score(a) = Score(b) /\ a < b))
    IN SubSeq(sorted, 1, Min({TopK, Len(sorted)}))

\* Faulty variant: the loop never looks at the stop flag.
PfLoopBlind ==
    /\ pf.pc = "top"
    /\ pf' = [pc |-> IF env.dry THEN "sleep" ELSE "walk", plan |-> RunCycle, slept |-> 0]
    /\ UNCHANGED <<env, wkNow, wkIndex, storeVars, lru, stop, owner, wkFreed, publishes, wkFaults>>

\* Top of the loop of spawn_worker_v2; a dry run only scores and logs.
PfLoop ==
    /\ pf.pc = "top"
    /\ pf' = IF stop.prefetch THEN [pf EXCEPT !.pc = "done"]
             ELSE [pc |-> IF env.dry THEN "sleep" ELSE "walk", plan |-> RunCycle, slept |-> 0]
    /\ UNCHANGED <<env, wkNow, wkIndex, storeVars, lru, stop, owner, wkFreed, publishes, wkFaults>>

\* The sleep, in slices, each of which looks at the stop flag.
PfSleep ==
    /\ pf.pc = "sleep"
    /\ pf' = IF stop.prefetch \/ pf.slept = SleepSlices THEN [pf EXCEPT !.pc = "top"]
             ELSE [pf EXCEPT !.slept = @ + 1]
    /\ UNCHANGED <<env, wkNow, wkIndex, storeVars, lru, stop, owner, wkFreed, publishes, wkFaults>>

\* The next entry of the plan: leave on stop, skip what is flat already.
PfWalk ==
    /\ pf.pc = "walk"
    /\ pf' = IF stop.prefetch \/ pf.plan = <<>> THEN [pf EXCEPT !.pc = "sleep"]
             ELSE IF Here(Head(pf.plan)) \in wkFlat THEN [pf EXCEPT !.plan = Tail(@)]
             ELSE [pf EXCEPT !.pc = "fetch"]
    /\ UNCHANGED <<env, wkNow, wkIndex, storeVars, lru, stop, owner, wkFreed, publishes, wkFaults>>

PfNext == [pf EXCEPT !.pc = "walk", !.plan = Tail(@)]

\* Faulty variant: a block the object store does not have ends the cycle.
PfReadMissEnds ==
    /\ pf.pc = "fetch"
    /\ pf' = IF Here(Head(pf.plan)) \in wkFlat THEN PfNext
             ELSE IF Here(Head(pf.plan)) \in wkFoyer \cup wkObjects THEN [pf EXCEPT !.pc = "fill"]
             ELSE [pf EXCEPT !.pc = "sleep"]
    /\ UNCHANGED <<env, wkNow, wkIndex, storeVars, lru, stop, owner, wkFreed, publishes, wkFaults>>

\* fetch_block, the read of get_kv: from a tier, or from the object store.
PfRead ==
    /\ pf.pc = "fetch"
    /\ pf' = IF Here(Head(pf.plan)) \in wkFlat THEN PfNext
             ELSE IF Here(Head(pf.plan)) \in wkFoyer \cup wkObjects THEN [pf EXCEPT !.pc = "fill"]
             ELSE PfNext
    /\ UNCHANGED <<env, wkNow, wkIndex, storeVars, lru, stop, owner, wkFreed, publishes, wkFaults>>

\* The object store fails: the block counts as failed, the cycle goes on.
PfFetchError ==
    /\ pf.pc = "fetch" /\ wkFaults < MaxWkFaults
    /\ pf' = PfNext
    /\ wkFaults' = wkFaults + 1
    /\ UNCHANGED <<env, wkNow, wkIndex, storeVars, lru, stop, owner, wkFreed, publishes>>

\* The fill of get_kv: flat best-effort, foyer always.  A fetch slower than
\* FETCH_WALLCLOCK_CAP gives up the rest of the plan.
PfFill ==
    /\ pf.pc = "fill"
    /\ \/ wkFlat' = wkFlat \cup {Here(Head(pf.plan))} /\ UNCHANGED wkFaults
       \/ wkFaults < MaxWkFaults /\ wkFaults' = wkFaults + 1 /\ UNCHANGED wkFlat
    /\ wkFoyer' = wkFoyer \cup {Here(Head(pf.plan))}
    /\ pf' \in {PfNext, [pf EXCEPT !.pc = "sleep"]}
    /\ UNCHANGED <<env, wkNow, wkIndex, wkObjects, lru, stop, owner, wkFreed, publishes>>

-----------------------------------------------------------------------------
\* The eviction worker

LruSleep ==
    /\ lru.pc = "sleep"
    /\ lru' = IF stop.evict \/ lru.slept = SleepSlices THEN [lru EXCEPT !.pc = "top"]
              ELSE [lru EXCEPT !.slept = @ + 1]
    /\ UNCHANGED <<env, wkNow, wkIndex, storeVars, pf, stop, owner, wkFreed, publishes, wkFaults>>

\* The snapshot of a cycle: entries of every namespace, oldest first, and what
\* to free to reach 90% of the budget.
LruScan ==
    LET total == MapThenSumSet(LAMBDA h : wkIndex[h].bytes, DOMAIN wkIndex)
        sorted == SetToSortSeq(DOMAIN wkIndex,
                    LAMBDA a, b : \/ wkIndex[a].stamp < wkIndex[b].stamp
                                  \/ wkIndex[a].stamp = wkIndex[b].stamp /\ a < b)
    IN IF total <= env.budget THEN [lru EXCEPT !.pc = "sleep", !.slept = 0]
       ELSE [pc |-> "take", slept |-> 0, need |-> total - (env.budget * 9) \div 10,
             left |-> [i \in DOMAIN sorted |-> [hash |-> sorted[i], meta |-> wkIndex[sorted[i]]]]]

\* Top of the loop; once begun, a cycle does not look at the stop flag.
LruLoop ==
    /\ lru.pc = "top"
    /\ lru' = IF stop.evict THEN [lru EXCEPT !.pc = "done"] ELSE LruScan
    /\ UNCHANGED <<env, wkNow, wkIndex, storeVars, pf, stop, owner, wkFreed, publishes, wkFaults>>

\* remove_if_unchanged: an entry stamped since the snapshot is skipped.
LruTake ==
    /\ lru.pc = "take"
    /\ IF lru.need <= 0 \/ lru.left = <<>>
       THEN lru' = [lru EXCEPT !.pc = "sleep"] /\ UNCHANGED wkIndex
       ELSE LET e == Head(lru.left) IN
            IF e.hash \in DOMAIN wkIndex /\ wkIndex[e.hash].stamp = e.meta.stamp
            THEN /\ wkIndex' = [h \in DOMAIN wkIndex \ {e.hash} |-> wkIndex[h]]
                 /\ lru' = [lru EXCEPT !.pc = "flat"]
            ELSE lru' = [lru EXCEPT !.left = Tail(@)] /\ UNCHANGED wkIndex
    /\ UNCHANGED <<env, wkNow, storeVars, pf, stop, owner, wkFreed, publishes, wkFaults>>

\* delete_kv under the worker's own namespace: the flat file first,
LruRemoveFlat ==
    /\ lru.pc = "flat"
    /\ wkFlat' = wkFlat \ {Here(Head(lru.left).hash)}
    /\ lru' = [lru EXCEPT !.pc = "object"]
    /\ UNCHANGED <<env, wkNow, wkIndex, wkObjects, wkFoyer, pf, stop, owner, wkFreed, publishes, wkFaults>>

\* then the object; the block counts as freed whatever the answer.
LruDeleteObject ==
    /\ lru.pc = "object"
    /\ \/ /\ wkObjects' = wkObjects \ {Here(Head(lru.left).hash)}
          /\ wkFreed' = wkFreed \cup {Head(lru.left).hash}
          /\ UNCHANGED wkFaults
       \/ wkFaults < MaxWkFaults /\ wkFaults' = wkFaults + 1 /\ UNCHANGED <<wkObjects, wkFreed>>
    /\ lru' = [lru EXCEPT !.pc = "take", !.left = Tail(@), !.need = @ - Head(lru.left).meta.bytes]
    /\ UNCHANGED <<env, wkNow, wkIndex, wkFlat, wkFoyer, pf, stop, owner, publishes>>

-----------------------------------------------------------------------------
\* The owner: Handle's fields are dropped in order, each drop stops its
\* worker and joins it.

DropHandleWorkers ==
    /\ owner = "open"
    /\ owner' = "joinPrefetch"
    /\ stop' = [stop EXCEPT !.prefetch = TRUE]
    /\ UNCHANGED <<env, wkNow, wkIndex, storeVars, pf, lru, wkFreed, publishes, wkFaults>>

JoinPrefetch ==
    /\ owner = "joinPrefetch" /\ pf.pc \in {"none", "done"}
    /\ owner' = "joinEvict"
    /\ stop' = [stop EXCEPT !.evict = TRUE]
    /\ UNCHANGED <<env, wkNow, wkIndex, storeVars, pf, lru, wkFreed, publishes, wkFaults>>

JoinEvict ==
    /\ owner = "joinEvict" /\ lru.pc \in {"none", "done"}
    /\ owner' = "freed"
    /\ UNCHANGED <<env, wkNow, wkIndex, storeVars, pf, lru, stop, wkFreed, publishes, wkFaults>>

Prefetcher == PfLoop \/ PfSleep \/ PfWalk \/ PfRead \/ PfFetchError \/ PfFill
Evictor == LruLoop \/ LruSleep \/ LruTake \/ LruRemoveFlat \/ LruDeleteObject
Owner == JoinPrefetch \/ JoinEvict

WorkersNext ==
    \/ Elapse
    \/ \E h \in WkBlocks : Republish(h)
    \/ Prefetcher \/ Evictor
    \/ DropHandleWorkers \/ Owner

\* The threads run, and a join returns once its thread has ended.
WorkersFairness == WF_workerVars(Prefetcher) /\ WF_workerVars(Evictor) /\ WF_workerVars(Owner)

-----------------------------------------------------------------------------
\* run_cycle against its reference: entries are ranked by score, then key, and
\* those with fewer than TopK ahead of them are selected.
Ahead(h) == {g \in DOMAIN wkIndex : Score(g) > Score(h) \/ (Score(g) = Score(h) /\ g < h)}
Hot == {h \in DOMAIN wkIndex : Cardinality(Ahead(h)) < TopK}

\* Dropping the handle returns: both workers see their flag wherever they are
\* in a cycle or a sleep, and the joins do not wait for each other.
DropReturns == owner = "joinPrefetch" ~> owner = "freed"

\* One bad or slow block does not starve the others: while the handle stays
\* open, the hot blocks that are in the object store are in the flat tier in
\* the end.
HotIsWarmed ==
    env.interval = "0" \/ env.dry
    \/ <>[](owner # "open" \/ \A h \in Hot : Here(h) \in wkObjects => Here(h) \in wkFlat)

\* "If a block leaves the metadata index but remains in flat, the next get_kv
\* would still return it (which would defeat eviction)": an evicted block is
\* in no flat file once the workers are at rest.
EvictionNotDefeated ==
    \A h \in wkFreed : pf.pc \in {"none", "top", "sleep"} => Here(h) \notin wkFlat

\* A block counted as freed, its delete answered without error, takes no room
\* in the object store any more.
FreedIsGone == \A h \in wkFreed : \A ns \in {Home[g] : g \in WkBlocks} : <<ns, h>> \notin wkObjects
=============================================================================
