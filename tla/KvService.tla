----------------------------- MODULE KvService -----------------------------
(***************************************************************************)
(* Single-key PUT and GET through the daemon: the client that splits a     *)
(* large payload into chunks and a manifest, the workers that serve the    *)
(* requests, the threads of asynchronous PUTs and the drain at shutdown.   *)
(* A worker serves one client at a time, as on a shared-memory ring.       *)
(***************************************************************************)
EXTENDS Naturals, Sequences, FiniteSets

CONSTANTS
    Engines,        \* clients, each with a worker of its own
    Writers,        \* those that put
    KvKeys,
    KvValues,       \* payloads
    LargeValues,    \* those that do not fit one frame
    ChunkCount,     \* frames a large payload takes
    Modes,          \* configurations: ASYNC_PUT, no --prefix, and the values put
    MaxKvPuts,      \* bound: put_kv calls
    MaxKvFaults     \* bound: failed calls, forgotten entries, crashes

ASSUME KvServiceAssumption ==
    /\ Writers \subseteq Engines /\ LargeValues \subseteq KvValues /\ ChunkCount \in Nat \ {0}
    /\ Modes \subseteq [async : BOOLEAN, remote : BOOLEAN, values : SUBSET KvValues]
    /\ \A m \in Modes : m.remote => m.values \cap LargeValues = {}
    /\ MaxKvPuts \in Nat /\ MaxKvFaults \in Nat

VARIABLES
    mode,
    cache,              \* what flat and foyer hold, as get_kv would serve it
    s3,                 \* the objects
    engine,             \* the call each client is in
    worker,             \* the request each worker serves
    threads,            \* asynchronous PUTs that were acknowledged
    inflight,           \* async_put_inflight
    phase,              \* the main thread
    calls,              \* put_kv calls, as records of key and value
    acked, tried,       \* history: PUTs acknowledged, PUTs that put_kv ended
    faults

kvVars == <<mode, cache, s3, engine, worker, threads, inflight, phase,
            calls, acked, tried, faults>>
tiers == <<cache, s3>>
history == <<calls, acked, tried>>

None == <<>>

(***************************************************************************)
(* Large payloads                                                          *)
(***************************************************************************)

\* Faulty variant: the id does not depend on the payload.
LargePayloadIdOfKey(k, v) == <<k>>

LargePayloadId(k, v) == <<k, v>>

LargeChunkKey(id, i) == <<id, i>>

LargeManifest(id) == <<"manifest", id, ChunkCount>>

ParseLargeManifest(data) == data[1] = "manifest"

StoreKeys == {<<k>> : k \in KvKeys}
    \cup {LargeChunkKey(LargePayloadId(k, v), i) :
            k \in KvKeys, v \in LargeValues, i \in 1..ChunkCount}

\* What a PUT stores: chunk i of a large payload, or at 0 the key itself.
Put(k, v, i) ==
    CASE i > 0 -> [at |-> LargeChunkKey(LargePayloadId(k, v), i), data |-> <<"chunk", v, i>>]
      [] i = 0 /\ v \in LargeValues ->
            [at |-> <<k>>, data |-> LargeManifest(LargePayloadId(k, v))]
      [] OTHER -> [at |-> <<k>>, data |-> <<"whole", v, 0>>]

(***************************************************************************)
(* Initial state                                                           *)
(***************************************************************************)

Idle == [at |-> "idle"]

KvInit ==
    /\ mode \in Modes
    /\ cache = [k \in StoreKeys |-> None] /\ s3 = cache
    /\ engine = [e \in Engines |-> Idle]
    /\ worker = [e \in Engines |-> Idle]
    /\ threads = {}
    /\ inflight = 0
    /\ phase = "serving"
    /\ calls = <<>> /\ acked = {} /\ tried = {}
    /\ faults = 0

Fault == faults < MaxKvFaults /\ faults' = faults + 1

SetEngine(e, s) == engine' = [engine EXCEPT ![e] = s]
SetWorker(e, s) == worker' = [worker EXCEPT ![e] = s]

(***************************************************************************)
(* Client                                                                  *)
(***************************************************************************)

Free(e) == engine[e].at \in {"idle", "got"}
Request(e, req) == worker[e] = Idle /\ SetWorker(e, req)

\* Faulty variant: the manifest goes before the chunks.
PutOrderManifestFirst(v) ==
    IF v \in LargeValues THEN <<0>> \o [i \in 1..ChunkCount |-> i] ELSE <<0>>

\* The PUTs of put_kv, by index of chunk: put_large_kv puts the manifest last.
PutOrder(v) ==
    IF v \in LargeValues THEN [i \in 1..ChunkCount |-> i] \o <<0>> ELSE <<0>>

SendPut(e, c, left) ==
    /\ SetEngine(e, [at |-> "put", call |-> c, left |-> left])
    /\ LET p == Put(calls'[c].key, calls'[c].value, Head(left))
       IN Request(e, [at |-> "put", id |-> <<c, Head(left)>>, key |-> p.at, data |-> p.data])

\* put_kv: the first PUT of the call. (A TCP client sends every payload whole.)
PutKv(e) ==
    /\ e \in Writers /\ Free(e) /\ Len(calls) < MaxKvPuts
    /\ \E k \in KvKeys, v \in mode.values :
        calls' = Append(calls, [key |-> k, value |-> v])
    /\ LET c == Len(calls) + 1 IN SendPut(e, c, PutOrder(calls'[c].value))
    /\ UNCHANGED <<mode, tiers, threads, inflight, phase, acked, tried, faults>>

\* An OK is followed by the next PUT of the call; any error ends the call.
PutReply(e) ==
    /\ engine[e].at = "put" /\ worker[e].at = "reply"
    /\ LET rest == Tail(engine[e].left)
       IN IF worker[e].status = "OK" /\ rest # <<>>
          THEN /\ LET p == Put(calls[engine[e].call].key, calls[engine[e].call].value, Head(rest))
                  IN SetWorker(e, [at |-> "put", id |-> <<engine[e].call, Head(rest)>>,
                                   key |-> p.at, data |-> p.data])
               /\ SetEngine(e, [engine[e] EXCEPT !.left = rest])
          ELSE SetEngine(e, Idle) /\ SetWorker(e, Idle)
    /\ UNCHANGED <<mode, tiers, threads, inflight, phase, history, faults>>

\* get_kv: a GET of the key, then of every chunk its manifest names.
GetKv(e) ==
    /\ Free(e)
    /\ \E k \in KvKeys :
        /\ SetEngine(e, [at |-> "get", key |-> k, parts |-> <<>>, want |-> 0, id |-> None])
        /\ Request(e, [at |-> "get", key |-> <<k>>])
    /\ UNCHANGED <<mode, tiers, threads, inflight, phase, history, faults>>

GetReply(e) ==
    /\ engine[e].at = "get" /\ worker[e].at = "reply"
    /\ LET g == engine[e]
           r == worker[e]
           parts == Append(g.parts, r.data)
       IN CASE r.status # "OK" -> SetEngine(e, Idle) /\ SetWorker(e, Idle)
            [] r.status = "OK" /\ g.want = 0 /\ ParseLargeManifest(r.data) ->
                /\ SetEngine(e, [g EXCEPT !.want = r.data[3], !.id = r.data[2]])
                /\ SetWorker(e, [at |-> "get", key |-> LargeChunkKey(r.data[2], 1)])
            [] r.status = "OK" /\ Len(parts) < g.want ->
                /\ SetEngine(e, [g EXCEPT !.parts = parts])
                /\ SetWorker(e, [at |-> "get", key |-> LargeChunkKey(g.id, Len(parts) + 1)])
            [] OTHER ->
                /\ SetEngine(e, [at |-> "got", key |-> g.key, parts |-> parts])
                /\ SetWorker(e, Idle)
    /\ UNCHANGED <<mode, tiers, threads, inflight, phase, history, faults>>

\* dispatch: the reply does not come in time and the client is dead, whatever the
\* worker still does. Another client attaches once the worker serves again.
Timeout(e) ==
    /\ ~mode.remote /\ engine[e].at \in {"put", "get"}
    /\ SetEngine(e, [at |-> "dead"])
    /\ UNCHANGED <<mode, tiers, worker, threads, inflight, phase, history, faults>>

Reattach(e) ==
    /\ engine[e].at = "dead" /\ worker[e].at \in {"reply", "idle"}
    /\ SetEngine(e, Idle) /\ SetWorker(e, Idle)
    /\ UNCHANGED <<mode, tiers, threads, inflight, phase, history, faults>>

(***************************************************************************)
(* put_kv and get_kv of the store                                          *)
(***************************************************************************)

\* The cache tiers. A flat write that fails does so silently: an older file stays in
\* front of foyer's new entry.
PutLocal(key, data) ==
    /\ \/ cache' = [cache EXCEPT ![key] = data] /\ UNCHANGED faults
       \/ cache[key] # None /\ Fault /\ UNCHANGED cache
    /\ UNCHANGED s3

\* The object store's answer to a write.
PutObjectOk(key, data) == s3' = [s3 EXCEPT ![key] = data] /\ UNCHANGED faults
PutObjectErr == Fault /\ UNCHANGED s3

(***************************************************************************)
(* Workers                                                                 *)
(***************************************************************************)

Reply(status, data) == [at |-> "reply", status |-> status, data |-> data]

\* PUT on the worker's own thread: caches, then the object store, then the answer.
SyncPut(e) ==
    \/ /\ worker[e].at \in (IF mode.async THEN {"local"} ELSE {"put"})
       /\ PutLocal(worker[e].key, worker[e].data)
       /\ SetWorker(e, [worker[e] EXCEPT !.at = "object"])
       /\ UNCHANGED <<acked, tried>>
    \/ /\ worker[e].at = "object"
       /\ \/ /\ PutObjectOk(worker[e].key, worker[e].data)
             /\ acked' = acked \cup {worker[e].id}
             /\ SetWorker(e, Reply("OK", None))
          \/ /\ PutObjectErr
             /\ SetWorker(e, Reply("ERROR", None))
             /\ UNCHANGED acked
       /\ tried' = tried \cup {worker[e].id}
       /\ UNCHANGED cache

\* PUT in asynchronous mode: counted and spawned, or, when the spawn fails,
\* counted down again and served on the worker's thread.
SpawnPut(e) ==
    /\ worker[e].at = "put" /\ mode.async
    /\ \/ /\ inflight' = inflight + 1
          /\ threads' = threads \cup {[worker[e] EXCEPT !.at = "queued"]}
          /\ acked' = acked \cup {worker[e].id}
          /\ SetWorker(e, Reply("OK", None))
          /\ UNCHANGED faults
       \/ /\ Fault /\ UNCHANGED <<threads, inflight, acked>>
          /\ SetWorker(e, [worker[e] EXCEPT !.at = "local"])
    /\ UNCHANGED <<mode, tiers, engine, phase, calls, tried>>

\* GET: the caches, then the object store, whose answer is written to the caches.
ServeGet(e) ==
    LET w == worker[e]
    IN \/ /\ w.at = "get" /\ cache[w.key] # None
          /\ SetWorker(e, Reply("OK", cache[w.key]))
          /\ UNCHANGED <<cache, faults>>
       \/ /\ w.at = "get" /\ cache[w.key] = None
          /\ \/ /\ SetWorker(e, IF s3[w.key] = None THEN Reply("MISS", None)
                                ELSE [at |-> "fill", key |-> w.key, data |-> s3[w.key]])
                /\ UNCHANGED faults
             \/ Fault /\ SetWorker(e, Reply("ERROR", None))
          /\ UNCHANGED cache
       \/ /\ w.at = "fill"
          /\ cache' = [cache EXCEPT ![w.key] = w.data]
          /\ SetWorker(e, Reply("OK", w.data))
          /\ UNCHANGED faults

Serve(e) ==
    \/ SpawnPut(e)
    \/ /\ SyncPut(e)
       /\ UNCHANGED <<mode, engine, threads, inflight, phase, calls>>
    \/ /\ ServeGet(e)
       /\ UNCHANGED <<mode, s3, engine, threads, inflight, phase, history>>

(***************************************************************************)
(* Asynchronous PUT threads                                                *)
(***************************************************************************)

\* The thread that gets async_put_lock runs put_kv; its guard counts down at the end.
RunThread(t) ==
    /\ \/ /\ t.at = "queued" /\ \A u \in threads : u.at = "queued"
          /\ PutLocal(t.key, t.data)
          /\ threads' = (threads \ {t}) \cup {[t EXCEPT !.at = "object"]}
          /\ UNCHANGED <<inflight, tried>>
       \/ /\ t.at = "object"
          /\ PutObjectOk(t.key, t.data) \/ PutObjectErr
          /\ threads' = threads \ {t}
          /\ inflight' = inflight - 1
          /\ tried' = tried \cup {t.id}
          /\ UNCHANGED cache
    /\ UNCHANGED <<mode, engine, worker, phase, calls, acked>>

(***************************************************************************)
(* Caches, crash, shutdown                                                 *)
(***************************************************************************)

\* An entry the caches lose: foyer ages it out and its flat write had failed.
Forget(k) ==
    /\ cache[k] # None /\ Fault
    /\ cache' = [cache EXCEPT ![k] = None]
    /\ UNCHANGED <<mode, s3, engine, worker, threads, inflight, phase, history>>

\* The process dies and starts again on the same disk and bucket.
KvCrash ==
    /\ phase # "exited" /\ Fault
    /\ worker' = [e \in Engines |-> Idle]
    /\ engine' = [e \in Engines |-> IF engine[e].at \in {"put", "get"} THEN [at |-> "dead"]
                                    ELSE engine[e]]
    /\ threads' = {} /\ inflight' = 0
    /\ phase' = "serving"
    /\ acked' = acked \cap tried
    /\ UNCHANGED <<mode, tiers, calls, tried>>

Signal ==
    /\ phase = "serving" /\ phase' = "stopping"
    /\ UNCHANGED <<mode, tiers, engine, worker, threads, inflight, history, faults>>

\* serve_prefix polls the flag between requests: what it took is answered first.
WorkerExit(e) ==
    /\ phase = "stopping" /\ ~mode.remote
    /\ worker[e].at \in {"idle", "reply"}
    /\ SetWorker(e, [at |-> "gone"])
    /\ SetEngine(e, [at |-> "dead"])
    /\ UNCHANGED <<mode, tiers, threads, inflight, phase, history, faults>>

\* Faulty variant: the process exits once the workers have ended.
ExitUndrained ==
    /\ phase = "stopping" /\ \A e \in Engines : worker[e].at = "gone"
    /\ phase' = "exited" /\ threads' = {}
    /\ UNCHANGED <<mode, tiers, engine, worker, inflight, history, faults>>

\* After the join of every worker, run_shutdown_drain waits for inflight to be 0 or
\* for its budget; exit ends what still runs.
Drain ==
    /\ phase = "stopping" /\ \A e \in Engines : worker[e].at = "gone"
    /\ \/ inflight = 0 /\ phase' = "exited"
       \/ inflight # 0 /\ phase' = "drain timeout"
    /\ threads' = {}
    /\ UNCHANGED <<mode, tiers, engine, worker, inflight, history, faults>>

\* A daemon that only serves remote addresses returns from main on the flag.
ExitRemote ==
    /\ phase = "stopping" /\ mode.remote
    /\ phase' = "exited" /\ threads' = {}
    /\ worker' = [e \in Engines |-> [at |-> "gone"]]
    /\ engine' = [e \in Engines |-> [at |-> "dead"]]
    /\ UNCHANGED <<mode, tiers, inflight, history, faults>>

Running == phase \in {"serving", "stopping"}

KvNext ==
    \/ /\ Running
       /\ \E e \in Engines :
            \/ PutKv(e) \/ PutReply(e) \/ GetKv(e) \/ GetReply(e)
            \/ Timeout(e) \/ Reattach(e) \/ Serve(e) \/ WorkerExit(e)
    \/ Running /\ \E t \in threads : RunThread(t)
    \/ Running /\ \E k \in StoreKeys : Forget(k)
    \/ KvCrash \/ Signal \/ Drain \/ ExitRemote

KvSpec == KvInit /\ [][KvNext]_kvVars

(***************************************************************************)
(* Properties                                                              *)
(***************************************************************************)

Held(k) == {cache[k], s3[k]} \ {None}

\* put_large_kv: while PUTs are synchronous, a manifest any tier holds names chunks
\* that are all in the object store, whatever call of the client failed, timed out
\* or was cut off by a crash of the daemon.
ManifestHasChunks ==
    ~mode.async =>
        \A k \in KvKeys : \A d \in Held(<<k>>) :
            ParseLargeManifest(d) =>
                \A i \in 1..d[3] : s3[LargeChunkKey(d[2], i)] # None

\* get_kv: what a client gets for a key is one payload some call put under that
\* key, never chunks of two, although both calls and reads interleave.
GetsAreWhole ==
    \A e \in Engines : engine[e].at = "got" =>
        \E c \in 1..Len(calls) :
            /\ calls[c].key = engine[e].key
            /\ engine[e].parts =
                IF calls[c].value \in LargeValues
                THEN [i \in 1..ChunkCount |-> <<"chunk", calls[c].value, i>>]
                ELSE <<(<<"whole", calls[c].value, 0>>)>>

\* shutdown_flag: main joins each worker "before draining async-PUT threads": when
\* the process ends without a drain timeout, put_kv has ended for every PUT that
\* was acknowledged.
NoAckedPutLost == phase = "exited" => acked \subseteq tried

\* ASYNC_PUT_ENV: "the daemon ACKs PUT requests as soon as foyer has buffered the
\* bytes": a key whose PUT was acknowledged is in some tier.
AckedPutVisible ==
    \A id \in acked :
        Held(Put(calls[id[1]].key, calls[id[1]].value, id[2]).at) # {}

=============================================================================
