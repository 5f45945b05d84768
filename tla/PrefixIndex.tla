---------------------------- MODULE PrefixIndex ----------------------------
(***************************************************************************)
(* The in-memory prefix stores: InMemoryKvStore, which publishes and looks *)
(* up chains of token blocks under chained hashes, and RadixIndex, which   *)
(* answers how deep a chain of keys is known and resident, into buffers    *)
(* that a LookupBufferPool recycles, under a memory guardrail.             *)
(*                                                                         *)
(* BLAKE3 is ideal: the hash of a prefix is the tenant with the prefix.    *)
(***************************************************************************)
EXTENDS Integers, Sequences, FiniteSets

CONSTANTS
    PxTenants, PxTokens, PxPayloads,
    MaxChain,        \* bound: blocks in a chain
    Guardrail,       \* host, reserved, pct and overhead
    EntrySize,       \* bytes of a key and its entry
    U64Max,          \* the largest u64
    MaxPool,         \* max_pool_size
    PxBudgets        \* bounds: pairs of calls to the store and to the index

ASSUME PrefixAssumption == MaxChain \in Nat /\ PxBudgets \subseteq Nat \X Nat /\ U64Max \in Nat /\ MaxPool \in Nat

VARIABLES
    kvBlocks,        \* InMemoryKvStore.blocks
    publishedCalls,  \* the publish_prefix calls so far, oldest first
    entries,         \* RadixIndex.entries
    freeBufs,        \* LookupBufferPool.free
    buffers,         \* the caller's LookupBuffers
    lookedUp,        \* the chain of the last lookup and its matched_depth
    pxLeft           \* calls to the store and to the index still to be made

prefixVars == <<kvBlocks, publishedCalls, entries, freeBufs, buffers, lookedUp, pxLeft>>

Update(f, k, v) == [x \in DOMAIN f \cup {k} |-> IF x = k THEN v ELSE f[x]]
StoreCall == pxLeft[1] > 0 /\ pxLeft' = <<pxLeft[1] - 1, pxLeft[2]>>
IndexCall == pxLeft[2] > 0 /\ pxLeft' = <<pxLeft[1], pxLeft[2] - 1>>
PxChains == UNION {[1 .. n -> PxTokens] : n \in 0 .. MaxChain}

-----------------------------------------------------------------------------
\* Faulty variant: a block is hashed by itself, not with the blocks before it.
ChainedPrefixHashesLoose(tenant, tokens) == [i \in DOMAIN tokens |-> <<tenant, <<tokens[i]>>>>]

ChainedPrefixHashes(tenant, tokens) == [i \in DOMAIN tokens |-> <<tenant, SubSeq(tokens, 1, i)>>]

ChainKey(tenant, tokens, i) == [hash |-> ChainedPrefixHashes(tenant, tokens)[i], index |-> i - 1]

\* put_block for each block of the chain; the index keeps their keys apart.
PutChain(tenant, tokens, payloads) ==
    LET keys == {ChainKey(tenant, tokens, i) : i \in DOMAIN tokens}
    IN [k \in DOMAIN kvBlocks \cup keys |-> IF k \in keys THEN payloads[k.index + 1] ELSE kvBlocks[k]]

\* Lists of different lengths are refused.
PublishPrefix(tenant, tokens, payloads) ==
    /\ StoreCall
    /\ IF Len(tokens) # Len(payloads)
       THEN UNCHANGED <<kvBlocks, publishedCalls>>
       ELSE /\ kvBlocks' = PutChain(tenant, tokens, payloads)
            /\ publishedCalls' = Append(publishedCalls, [tenant |-> tenant, tokens |-> tokens, payloads |-> payloads])
    /\ UNCHANGED <<entries, freeBufs, buffers, lookedUp>>

\* The blocks up to the first one that is missing; that one and all behind it
\* are reported missing.
LookupPrefix(tenant, tokens) ==
    LET Known(i) == ChainKey(tenant, tokens, i) \in DOMAIN kvBlocks
        matched == Cardinality({i \in DOMAIN tokens : \A j \in 1 .. i : Known(j)})
    IN [matched |-> matched,
        payloads |-> [i \in 1 .. matched |-> kvBlocks[ChainKey(tenant, tokens, i)]],
        missing |-> [i \in 1 .. Len(tokens) - matched |-> ChainKey(tenant, tokens, matched + i)]]

-----------------------------------------------------------------------------
\* KeyEncoder.encode_chain: one key per depth, a function of its coordinates.
EncodeChain(depths) == [i \in DOMAIN depths |-> depths[i]]

AtMostU64(n) == IF n > U64Max THEN U64Max ELSE n
IndexBudgetBytes ==
    LET available == IF Guardrail.host > Guardrail.reserved THEN Guardrail.host - Guardrail.reserved ELSE 0
    IN AtMostU64(available * Guardrail.pct) \div 100
EstimateEntryBytes == AtMostU64(EntrySize + Guardrail.overhead)
EstimateIndexBytes(count) == AtMostU64(EstimateEntryBytes * count)

Upsert(key, index, residency) ==
    entries' = Update(entries, key, [index |-> index, residency |-> residency])

UpsertPlain(key, index, residency) ==
    /\ IndexCall
    /\ Upsert(key, index, residency)
    /\ UNCHANGED <<kvBlocks, publishedCalls, freeBufs, buffers, lookedUp>>

\* Only a key that is not there yet counts as growth.
UpsertGuarded(key, index, residency) ==
    /\ IndexCall
    /\ IF EstimateIndexBytes(Cardinality(DOMAIN entries \cup {key})) > IndexBudgetBytes
       THEN UNCHANGED entries
       ELSE Upsert(key, index, residency)
    /\ UNCHANGED <<kvBlocks, publishedCalls, freeBufs, buffers, lookedUp>>

EmptyBuffers == [handles |-> <<>>, prefetch |-> <<>>]
NoBuffers == [handles |-> <<>>, prefetch |-> <<-1>>]

\* LookupBufferPool.acquire: a recycled pair, or a new one.
Acquire ==
    /\ IndexCall /\ buffers = NoBuffers
    /\ buffers' = IF freeBufs = <<>> THEN EmptyBuffers ELSE freeBufs[Len(freeBufs)]
    /\ freeBufs' = IF freeBufs = <<>> THEN freeBufs ELSE SubSeq(freeBufs, 1, Len(freeBufs) - 1)
    /\ UNCHANGED <<kvBlocks, publishedCalls, entries, lookedUp>>

\* LookupBufferPool.release: beyond max_pool_size the pair is dropped.
Release ==
    /\ IndexCall /\ buffers # NoBuffers
    /\ freeBufs' = IF Len(freeBufs) < MaxPool THEN Append(freeBufs, EmptyBuffers) ELSE freeBufs
    /\ buffers' = NoBuffers
    /\ UNCHANGED <<kvBlocks, publishedCalls, entries, lookedUp>>

\* One key of the chain: a handle until the first remote block, then a prefetch key.
Visit(s, key) ==
    IF s.ended \/ key \notin DOMAIN entries THEN [s EXCEPT !.ended = TRUE]
    ELSE LET e == entries[key]
             remote == s.remote \/ e.residency = "RemoteOnly"
         IN [ended |-> FALSE, depth |-> s.depth + 1, remote |-> remote,
             handles |-> IF remote THEN s.handles
                         ELSE Append(s.handles, [key |-> key, index |-> e.index, residency |-> e.residency]),
             prefetch |-> IF remote THEN Append(s.prefetch, key) ELSE s.prefetch]

Walk(chain, start) ==
    LET after[i \in 0 .. Len(chain)] ==
            IF i = 0 THEN [ended |-> FALSE, depth |-> 0, remote |-> FALSE,
                           handles |-> start.handles, prefetch |-> start.prefetch]
            ELSE Visit(after[i - 1], chain[i])
    IN after[Len(chain)]

\* Faulty variant: the buffers are not cleared first.
LookupBlocksIntoKeep(chain) ==
    /\ IndexCall /\ buffers # NoBuffers
    /\ LET found == Walk(chain, buffers)
       IN /\ buffers' = [handles |-> found.handles, prefetch |-> found.prefetch]
          /\ lookedUp' = [chain |-> chain, depth |-> found.depth, left |-> pxLeft[2]]
    /\ UNCHANGED <<kvBlocks, publishedCalls, entries, freeBufs>>

LookupBlocksInto(chain) ==
    /\ IndexCall /\ buffers # NoBuffers
    /\ LET found == Walk(chain, EmptyBuffers)
       IN /\ buffers' = [handles |-> found.handles, prefetch |-> found.prefetch]
          /\ lookedUp' = [chain |-> chain, depth |-> found.depth, left |-> pxLeft[2]]
    /\ UNCHANGED <<kvBlocks, publishedCalls, entries, freeBufs>>

-----------------------------------------------------------------------------
PrefixInit ==
    /\ kvBlocks = <<>> /\ publishedCalls = <<>> /\ entries = <<>>
    /\ freeBufs = <<>> /\ buffers = NoBuffers
    /\ lookedUp = [chain |-> <<>>, depth |-> 0, left |-> -1]
    /\ pxLeft \in PxBudgets

Depths == 1 .. MaxChain
DepthChains == {EncodeChain([i \in 1 .. n |-> i]) : n \in 0 .. MaxChain}

PrefixNext ==
    \/ \E t \in PxTenants, c \in PxChains, p \in UNION {[1 .. n -> PxPayloads] : n \in 0 .. MaxChain} :
            PublishPrefix(t, c, p)
    \/ \E k \in Depths, r \in {"Ram", "RemoteOnly"} : UpsertPlain(k, k, r) \/ UpsertGuarded(k, k, r)
    \/ Acquire \/ Release
    \/ \E c \in DepthChains : LookupBlocksInto(c)

-----------------------------------------------------------------------------
\* The publications of the first i blocks of a chain.
CallsWith(t, c, i) ==
    {n \in DOMAIN publishedCalls : /\ publishedCalls[n].tenant = t /\ i <= Len(publishedCalls[n].tokens)
                                   /\ SubSeq(publishedCalls[n].tokens, 1, i) = SubSeq(c, 1, i)}

\* A lookup of any chain returns, for the deepest prefix all of whose prefixes
\* were published by the tenant, the payloads of the latest publication of each
\* of them: never another tenant's block, nor one published behind another
\* prefix.
LookupLatest ==
    publishedCalls # <<>> => \A t \in PxTenants, c \in PxChains :
        LET Latest(i) == CHOOSE n \in CallsWith(t, c, i) : \A m \in CallsWith(t, c, i) : m <= n
            found == LookupPrefix(t, c)
        IN /\ \A i \in DOMAIN c : i <= found.matched <=> \A j \in 1 .. i : CallsWith(t, c, j) # {}
           /\ found.payloads = [i \in 1 .. found.matched |-> publishedCalls[Latest(i)].payloads[i]]
           /\ found.matched + Len(found.missing) = Len(c)

\* A lookup into recycled buffers leaves exactly the blocks of its own chain:
\* handles for the resident blocks before the first remote one, prefetch keys
\* for the known blocks from there on, nothing of an earlier lookup.
LookupExact ==
    [][lookedUp' # lookedUp =>
        LET c == lookedUp'.chain
            d == lookedUp'.depth
            h == buffers'.handles
            p == buffers'.prefetch
        IN /\ Len(h) + Len(p) = d
           /\ [i \in DOMAIN h |-> h[i].key] \o p = SubSeq(c, 1, d)
           /\ \A i \in DOMAIN h : entries[c[i]].residency # "RemoteOnly" /\ h[i].index = entries[c[i]].index
           /\ p # <<>> => entries[p[1]].residency = "RemoteOnly"
           /\ d < Len(c) => c[d + 1] \notin DOMAIN entries]_prefixVars
=============================================================================
