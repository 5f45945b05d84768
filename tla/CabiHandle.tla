---------------------------- MODULE CabiHandle ----------------------------
(***************************************************************************)
(* The C ABI (wombatkv-cabi/src/ffi.rs): engine threads that share one     *)
(* handle, whose backend is the in-process store or a daemon reached over  *)
(* shared memory, TCP or HTTP. A batched GET or PUT runs one thread per    *)
(* block in the store's process (dispatch_*_kv_blocks_batch in the         *)
(* daemon); over shared memory a GET is GET_MANY, one key after the other. *)
(* A GET that hits lends its payloads to the caller until the borrow is    *)
(* released: payloads are reference-counted buffers, shared with the       *)
(* cache. The last error is a slot of each thread.                         *)
(*                                                                         *)
(* Payloads are known by their key: blocks are content-addressed and a     *)
(* tail is the tail of its tip. The details of the store's tiers are in    *)
(* BlockNode, the transports in ShmSession, DispatchPool, HttpConnection.  *)
(***************************************************************************)
EXTENDS Integers, FiniteSets, Sequences, FiniteSetsExt

CONSTANTS
    Threads,        \* engine threads
    Blocks,         \* block hashes
    Chains,         \* the chains of hashes the engine asks for
    Tips,           \* the chain tips whose tails it saves
    Spaces,         \* namespaces
    Settings,       \* what WMBT_KV_REMOTE_PREFIX, _TCP_ADDR, _HTTP_ADDR set: subsets of these
    Opens,          \* what the engine opens explicitly: "tcp", "http"
    MaxCabiCalls,   \* calls that the threads make together
    MaxCabiFaults,  \* failed store calls, lost answers, dropped payloads, evictions
    MaxBuffers      \* copies of one payload in memory

ASSUME CabiAssumption ==
    MaxBuffers \in Nat /\ \A chain \in Chains : chain \in Seq(Blocks)

VARIABLES
    settings,   \* the environment variables that are set
    handle,     \* the backend of the handle, "NULL" without one
    objects,    \* keys in the object store
    l0,         \* the metadata index
    cached,     \* the cache: the copy it has of each payload, 0 without one
    pending,    \* tails whose object write is on a detached thread
    cabi,       \* each thread's running call
    lastError,  \* LAST_ERROR of each thread
    borrows,    \* borrows the engine has not released
    missing,    \* for each thread: the keys that were absent at some time of its call
    cabiCalls, cabiFaults

cabiVars == <<settings, handle, objects, l0, cached, pending, cabi, lastError,
              borrows, missing, cabiCalls, cabiFaults>>
cabiStore == <<objects, l0, cached, pending>>

BlockKey(ns, b) == <<ns, "block", b>>
TailKey(ns, b) == <<ns, "tail", b>>
CabiKeys == {BlockKey(ns, b) : ns \in Spaces, b \in Blocks}
                \cup {TailKey(ns, b) : ns \in Spaces, b \in Tips}

NoCall == [at |-> "idle"]
NoError == "none"

CabiInit ==
    /\ settings \in Settings
    /\ handle = "NULL"
    /\ objects = {} /\ l0 = {} /\ pending = {}
    /\ cached = [k \in CabiKeys |-> 0]
    /\ cabi = [t \in Threads |-> NoCall]
    /\ lastError = [t \in Threads |-> NoError]
    /\ borrows = {}
    /\ missing = [t \in Threads |-> {}]
    /\ cabiCalls = 0 /\ cabiFaults = 0

CabiFault == cabiFaults < MaxCabiFaults /\ cabiFaults' = cabiFaults + 1

\* A daemon's answer is lost, or is an error of the transport.
RemoteFails == handle # "embedded" /\ CabiFault

\* The copies of payloads that somebody holds a reference to: the cache, a running call,
\* a borrow.
HeldCopies ==
    {<<k, cached[k]>> : k \in CabiKeys}
        \cup (UNION {cabi[t].held : t \in {u \in Threads : cabi[u].at = "fan"}})
        \cup (UNION {b.held : b \in borrows})

\* A new copy of k's payload.
FreeBuffers(k) == {n \in 1..MaxBuffers : <<k, n>> \notin HeldCopies}
NewBuffer(k) == Min(FreeBuffers(k))

Absent(k) == k \notin objects /\ cached[k] = 0
Absents == {k \in CabiKeys : Absent(k)}

\* What the threads' histories gain when the keys ks have become absent.
BecomeAbsent(ks) == missing' = [t \in Threads |-> IF cabi[t] = NoCall THEN missing[t]
                                          ELSE missing[t] \cup ks]

\* An extern "C" function begins: the error slot of its thread is emptied.
Enter(t, call) ==
    /\ cabi[t] = NoCall /\ cabiCalls < MaxCabiCalls
    /\ cabiCalls' = cabiCalls + 1
    /\ cabi' = [cabi EXCEPT ![t] = call]
    /\ lastError' = [lastError EXCEPT ![t] = NoError]
    /\ missing' = [missing EXCEPT ![t] = Absents]

SetLastError(t, fn) == lastError' = [lastError EXCEPT ![t] = fn]

\* The function returns rc; a negative one comes with an error, named after the function.
Return(t, fn, rc) ==
    /\ cabi' = [cabi EXCEPT ![t] = NoCall]
    /\ missing' = [missing EXCEPT ![t] = {}]
    /\ IF rc < 0 THEN SetLastError(t, fn)
       ELSE lastError' = [lastError EXCEPT ![t] = NoError]

(***************************************************************************)
(* Handles                                                                 *)
(***************************************************************************)

\* Handle::from_env: shared memory before TCP before HTTP before in-process.
FromEnv ==
    CASE "prefix" \in settings -> "shm"
      [] "tcp" \in settings /\ "prefix" \notin settings -> "tcp"
      [] "http" \in settings /\ settings \cap {"prefix", "tcp"} = {} -> "http"
      [] OTHER -> "embedded"

\* wmbt_kv_init_from_env, wmbt_kv_open_tcp, wmbt_kv_open_http: a handle, or NULL and
\* an error when the backend cannot be opened.
Open(t) ==
    /\ handle = "NULL" /\ \A u \in Threads : cabi[u] = NoCall
    /\ \/ handle' \in {FromEnv} \cup Opens /\ Return(t, "open", 0) /\ UNCHANGED cabiFaults
       \/ CabiFault /\ Return(t, "open", -1) /\ UNCHANGED handle
    /\ UNCHANGED <<settings, cabiStore, borrows, cabiCalls>>

\* wmbt_kv_free, which no call may overlap. The memory tier of an in-process store goes
\* with the handle; its files stay, and so does everything in a daemon.
FreeHandle ==
    /\ handle # "NULL" /\ \A t \in Threads : cabi[t] = NoCall
    /\ handle' = "NULL"
    /\ \/ handle = "embedded" /\ cached' = [k \in CabiKeys |-> 0]
       \/ UNCHANGED cached
    /\ UNCHANGED <<settings, objects, l0, pending, cabi, lastError, borrows,
                   missing, cabiCalls, cabiFaults>>

\* A NULL handle, a NULL or ill-formed argument: refused before the backend is asked.
Refuse(t) ==
    /\ cabi[t] = NoCall /\ cabiCalls < MaxCabiCalls
    /\ cabiCalls' = cabiCalls + 1
    /\ Return(t, "refused", -1)
    /\ UNCHANGED <<settings, handle, cabiStore, borrows, cabiFaults>>

(***************************************************************************)
(* lookup_block_prefix                                                     *)
(***************************************************************************)

LongestPrefix(chain) ==
    CHOOSE n \in 0..Len(chain) :
        /\ \A i \in 1..n : chain[i] \in l0
        /\ n < Len(chain) => chain[n + 1] \notin l0

\* wmbt_kv_lookup_block_prefix: the index is asked, whatever the namespace; a remote
\* answer may be lost.
Lookup(t, chain) ==
    /\ handle # "NULL" /\ cabi[t] = NoCall /\ cabiCalls < MaxCabiCalls
    /\ cabiCalls' = cabiCalls + 1
    /\ \/ Return(t, "lookup", LongestPrefix(chain)) /\ UNCHANGED cabiFaults
       \/ RemoteFails /\ Return(t, "lookup", -1)
    /\ UNCHANGED <<settings, handle, cabiStore, borrows>>

(***************************************************************************)
(* Batched GET                                                             *)
(***************************************************************************)

Fan(fn, keys) ==
    [at |-> "fan", fn |-> fn, keys |-> keys, sawMiss |-> FALSE,
     out |-> [i \in 1..Len(keys) |-> "-"], ptrs |-> [i \in 1..Len(keys) |-> 0], held |-> {}]

KeysOf(ns, chain) == [i \in 1..Len(chain) |-> BlockKey(ns, chain[i])]

\* wmbt_kv_get_kv_blocks_borrowed and wmbt_kv_get_raw_tail_borrowed, up to the reads.
GetBlocks(t, ns, chain) ==
    /\ handle # "NULL" /\ Enter(t, Fan("get", KeysOf(ns, chain)))
    /\ UNCHANGED <<settings, handle, objects, l0, cached, pending, borrows,
                   cabiFaults>>

GetRawTail(t, ns, tip) ==
    /\ handle # "NULL" /\ Enter(t, Fan("get_tail", <<TailKey(ns, tip)>>))
    /\ UNCHANGED <<settings, handle, objects, l0, cached, pending, borrows,
                   cabiFaults>>

\* Over shared memory the keys are read in order, and the first that is not a hit ends it.
InTurn(c, i) == handle = "shm" => \A j \in 1 .. i - 1 : c.out[j] = "hit"

\* A read that hits holds its payload.
Hit(c, i, n) == [c EXCEPT !.out[i] = "hit", !.ptrs[i] = n, !.held = @ \cup {<<c.keys[i], n>>}]

\* Faulty variant: a thread that fails also raises the flag.
FailedFlagging(c, i) == [c EXCEPT !.out[i] = "err", !.sawMiss = TRUE]

\* A read that fails is an answer of its own.
Failed(c, i) == [c EXCEPT !.out[i] = "err"]

\* One thread of the fan-out: it gives up when another has seen a miss, or reads its key
\* through the tiers, a read from the object store filling the cache.
ReadBlock(t, i) ==
    LET c == cabi[t]
        k == c.keys[i]
    IN /\ c.at = "fan" /\ c.fn \in {"get", "get_tail"} /\ c.out[i] = "-" /\ InTurn(c, i)
       /\ \/ /\ c.sawMiss /\ handle # "shm"
             /\ cabi' = [cabi EXCEPT ![t].out[i] = "miss"]
             /\ UNCHANGED <<cached, cabiFaults>>
          \/ /\ Absent(k)
             /\ cabi' = [cabi EXCEPT ![t].out[i] = "miss", ![t].sawMiss = TRUE]
             /\ UNCHANGED <<cached, cabiFaults>>
          \/ /\ cached[k] # 0
             /\ cabi' = [cabi EXCEPT ![t] = Hit(c, i, cached[k])]
             /\ UNCHANGED <<cached, cabiFaults>>
          \/ /\ cached[k] = 0 /\ k \in objects /\ FreeBuffers(k) # {}
             /\ cached' = [cached EXCEPT ![k] = NewBuffer(k)]
             /\ cabi' = [cabi EXCEPT ![t] = Hit(c, i, NewBuffer(k))]
             /\ UNCHANGED cabiFaults
          \/ /\ CabiFault /\ cached[k] = 0
             /\ cabi' = [cabi EXCEPT ![t] = Failed(c, i)]
             /\ UNCHANGED cached
       /\ UNCHANGED <<settings, handle, objects, l0, pending, lastError, borrows,
                      missing, cabiCalls>>

\* Faulty variant: the borrow keeps the pointers and drops the payloads.
LendUnheld(c) == [keys |-> c.keys, ptrs |-> c.ptrs, held |-> {}]

\* publish_borrowed_blocks, publish_borrowed_bytes: pointers, and the payloads behind them.
Lend(c) == [keys |-> c.keys, ptrs |-> c.ptrs, held |-> c.held]

\* The answers in the order of the keys: the first that is not a hit decides.
Decided(c) == \/ \A i \in DOMAIN c.out : c.out[i] # "-"
              \/ handle = "shm" /\ \E i \in DOMAIN c.out : c.out[i] \in {"miss", "err"}
NotHit(c) == {i \in DOMAIN c.out : c.out[i] \notin {"hit", "-"}}

\* The results are collected; a remote answer may be lost.
CollectGet(t) ==
    LET c == cabi[t]
        first == CHOOSE i \in NotHit(c) : \A j \in NotHit(c) : i <= j
    IN /\ c.at = "fan" /\ c.fn \in {"get", "get_tail"} /\ Decided(c)
       /\ \/ /\ NotHit(c) = {}
             /\ Return(t, c.fn, 1)
             /\ borrows' = borrows \cup {Lend(c)}
             /\ UNCHANGED cabiFaults
          \/ /\ NotHit(c) # {} /\ c.out[first] = "miss"
             /\ Return(t, c.fn, 0)
             /\ UNCHANGED <<borrows, cabiFaults>>
          \/ /\ NotHit(c) # {} /\ c.out[first] = "err"
             /\ Return(t, c.fn, -1)
             /\ UNCHANGED <<borrows, cabiFaults>>
          \/ /\ RemoteFails
             /\ Return(t, c.fn, -1)
             /\ UNCHANGED borrows
       /\ UNCHANGED <<settings, handle, cabiStore, cabiCalls>>

\* wmbt_kv_release_borrow
ReleaseBorrow(b) ==
    /\ borrows' = borrows \ {b}
    /\ UNCHANGED <<settings, handle, cabiStore, cabi, lastError, missing, cabiCalls, cabiFaults>>

(***************************************************************************)
(* Batched PUT                                                             *)
(***************************************************************************)

\* wmbt_kv_put_kv_blocks up to the writes; an empty batch returns at once.
PutBlocks(t, ns, chain) ==
    /\ handle # "NULL" /\ chain # <<>>
    /\ Enter(t, Fan("put", KeysOf(ns, chain)))
    /\ UNCHANGED <<settings, handle, objects, l0, cached, pending, borrows,
                   cabiFaults>>

\* The payload is copied into the cache; an older entry loses the cache's reference.
Fill(k) ==
    /\ FreeBuffers(k) # {}
    /\ cached' = [cached EXCEPT ![k] = NewBuffer(k)]

\* One thread of the fan-out: put_kv, the caches and then the object store.
WriteBlock(t, i) ==
    LET c == cabi[t]
    IN /\ c.at = "fan" /\ c.fn = "put" /\ c.out[i] = "-"
       /\ Fill(c.keys[i])
       /\ \/ /\ objects' = objects \cup {c.keys[i]}
             /\ cabi' = [cabi EXCEPT ![t].out[i] = "ok"]
             /\ UNCHANGED cabiFaults
          \/ /\ CabiFault
             /\ cabi' = [cabi EXCEPT ![t].out[i] = "err"]
             /\ UNCHANGED objects
       /\ UNCHANGED <<settings, handle, l0, pending, lastError, borrows, missing,
                      cabiCalls>>

\* The results are collected: with every write done the index gains the blocks, one
\* failure leaves it alone. A remote answer may be lost.
CollectPut(t) ==
    LET c == cabi[t]
        failed == \E i \in DOMAIN c.out : c.out[i] = "err"
    IN /\ c.at = "fan" /\ c.fn = "put" /\ \A i \in DOMAIN c.out : c.out[i] # "-"
       /\ l0' = IF failed THEN l0 ELSE l0 \cup {c.keys[i][3] : i \in DOMAIN c.keys}
       /\ \/ Return(t, "put", IF failed THEN -1 ELSE Len(c.keys)) /\ UNCHANGED cabiFaults
          \/ RemoteFails /\ Return(t, "put", -1)
       /\ UNCHANGED <<settings, handle, objects, cached, pending, borrows, cabiCalls>>

\* Backend::put_kv: in process, the cache now and the object store on a detached thread
\* (WMBT_KV_EMBEDDED_ASYNC_S3, on by default); over a daemon, both before the answer.
BackendPut(k, ok) ==
    /\ Fill(k)
    /\ \/ /\ handle = "embedded" /\ ok
          /\ pending' = pending \cup {k} /\ UNCHANGED <<objects, cabiFaults>>
       \/ /\ handle # "embedded" /\ ok
          /\ objects' = objects \cup {k} /\ UNCHANGED <<pending, cabiFaults>>
       \/ RemoteFails /\ ~ok /\ UNCHANGED <<pending, objects>>

\* wmbt_kv_put_raw_tail
PutRawTail(t, ns, tip) ==
    /\ handle # "NULL" /\ cabi[t] = NoCall /\ cabiCalls < MaxCabiCalls
    /\ cabiCalls' = cabiCalls + 1
    /\ \E ok \in BOOLEAN : BackendPut(TailKey(ns, tip), ok) /\ Return(t, "put_tail", IF ok THEN 0 ELSE -1)
    /\ UNCHANGED <<settings, handle, l0, borrows>>

\* The detached thread of put_kv_async_s3; its failure is only logged.
FlushTail(k) ==
    /\ pending' = pending \ {k}
    /\ \/ objects' = objects \cup {k} /\ UNCHANGED cabiFaults
       \/ CabiFault /\ UNCHANGED objects
    /\ UNCHANGED <<settings, handle, l0, cached, cabi, lastError, borrows,
                   missing, cabiCalls>>

(***************************************************************************)
(* The rest of the store's process                                         *)
(***************************************************************************)

\* The cache makes room.
ForgetPayload(k) ==
    /\ cached[k] # 0 /\ CabiFault
    /\ cached' = [cached EXCEPT ![k] = 0]
    /\ IF k \in objects THEN UNCHANGED missing ELSE BecomeAbsent({k})
    /\ UNCHANGED <<settings, handle, objects, l0, pending, cabi, lastError,
                   borrows, cabiCalls>>

\* The eviction worker removes a block.
EvictBlock(ns, b) ==
    /\ handle # "NULL" /\ b \in l0 /\ CabiFault
    /\ l0' = l0 \ {b}
    /\ objects' = objects \ {BlockKey(ns, b)}
    /\ cached' = [cached EXCEPT ![BlockKey(ns, b)] = 0]
    /\ BecomeAbsent({BlockKey(ns, b)})
    /\ UNCHANGED <<settings, handle, pending, cabi, lastError, borrows,
                   cabiCalls>>

CabiNext ==
    \/ \E t \in Threads :
          \/ Open(t) \/ Refuse(t) \/ CollectGet(t) \/ CollectPut(t)
          \/ \E chain \in Chains : Lookup(t, chain)
          \/ \E ns \in Spaces, chain \in Chains : GetBlocks(t, ns, chain) \/ PutBlocks(t, ns, chain)
          \/ \E ns \in Spaces, tip \in Tips : PutRawTail(t, ns, tip) \/ GetRawTail(t, ns, tip)
          \/ \E i \in (IF cabi[t].at = "fan" THEN DOMAIN cabi[t].out ELSE {}) :
                ReadBlock(t, i) \/ WriteBlock(t, i)
    \/ FreeHandle
    \/ \E b \in borrows : ReleaseBorrow(b)
    \/ \E k \in pending : FlushTail(k)
    \/ \E k \in CabiKeys : ForgetPayload(k)
    \/ \E ns \in Spaces, b \in Blocks : EvictBlock(ns, b)

CabiSpec == CabiInit /\ [][CabiNext]_cabiVars

(***************************************************************************)
(* Properties                                                              *)
(***************************************************************************)

\* The bytes behind a borrow stay the ones the engine asked for until it releases the
\* borrow: whatever the cache drops or evicts, whatever is put again, and also after the
\* handle is freed ("remain valid until wmbt_kv_release_borrow", wombatkv.h).
BorrowsIntact ==
    \A b \in borrows : \A i \in DOMAIN b.ptrs :
        <<b.keys[i], b.ptrs[i]>> \in HeldCopies

\* A batched GET answers "miss" only when one of its keys was absent at some time of the
\* call: the flag that lets the other threads give up early never turns a failure of the
\* store into a miss, which the engine would answer by recomputing and putting again.
MissIsReal ==
    \A t \in Threads :
        LET c == cabi[t]
        IN c.at = "fan" /\ c.fn \in {"get", "get_tail"} /\ (\E i \in DOMAIN c.out : c.out[i] = "miss")
              => \E i \in DOMAIN c.keys : c.keys[i] \in missing[t]

=============================================================================
