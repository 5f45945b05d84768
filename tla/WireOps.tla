------------------------------- MODULE WireOps -------------------------------
(***************************************************************************)
(* What a caller is told: every operation of the daemon, seen through the  *)
(* shared-memory, TCP and HTTP clients.                                    *)
(*                                                                         *)
(* A client method turns its arguments into one or more wire requests      *)
(* (client.rs, tcp_transport.rs, http_transport.rs), dispatch() answers    *)
(* each one from the store and the arena, and the method turns the         *)
(* responses into its result.  One method runs at a time: the races        *)
(* between engines, threads and connections are the subject of KvService,  *)
(* Arena, ShmSession, DispatchPool and HttpConnection.                     *)
(*                                                                         *)
(* Keys, namespaces and payloads are sequences of small integers, so the   *)
(* formats of WireCodec apply to them and their lengths decide what the    *)
(* code decides by length: chunking, the arena and the frame limit.        *)
(***************************************************************************)
EXTENDS WireCodec, FiniteSets

CONSTANTS
    Setups,         \* [arena, transports, values]: how the daemon is run
    WireSpaces,     \* namespaces
    WireKeys,       \* keys
    Hashes,         \* block hashes; each is a small integer
    MaxWireCalls,   \* client methods per behaviour
    MaxOutages,     \* requests during which the object store is unreachable
    MaxMoves,       \* restarts of the daemon on empty cache directories
    ArenaMin,       \* arena.min_bytes
    FrameCells,     \* the largest payload that fits_one_frame
    ChunkCells      \* LARGE_CHUNK_BYTES

VARIABLES
    setup,          \* the member of Setups this behaviour runs under
    node,           \* the daemon: s3, flat, foyer, slabs, index
    method,         \* the client method that runs, or ran last
    legal,          \* what each key may hold, from the results so far
    stamped,        \* blocks whose batch was acknowledged
    wireCalls,      \* methods so far
    outages,        \* outages so far
    moves           \* restarts so far

wireVars == <<setup, node, method, legal, stamped, wireCalls, outages, moves>>

Missing == <<-9>>           \* no bytes: not a payload
BadHex == 0                 \* a hash string that is not 64 hex digits

-----------------------------------------------------------------------------
(* Keys and payloads.                                                      *)

\* {prefix}/{namespace}/{key}; an empty namespace adds no segment.
ObjectKey(ns, key) == ns \o key

BlockKeyFromHex(hash) == <<8, hash>>

LargeId(ns, key, payload) == ns \o key \o payload

ChunkKey(id, idx) == <<9>> \o id \o <<idx>>

ChunkCountOf(payload) == (Len(payload) + ChunkCells - 1) \div ChunkCells

ChunkOf(payload, idx) ==
    SubSeq(payload, (idx - 1) * ChunkCells + 1,
           IF idx * ChunkCells < Len(payload) THEN idx * ChunkCells ELSE Len(payload))

\* The manifest's lines: magic, id, total length, number of chunks.
Manifest(id, payload) == <<-1, Len(payload), ChunkCountOf(payload)>> \o id

IsManifest(payload) == payload # <<>> /\ payload[1] = -1

ManifestId(m) == SubSeq(m, 4, Len(m))

FitsOneFrame(len) == len <= FrameCells

-----------------------------------------------------------------------------
(* The store, as the daemon calls it.  n is the node before the call.      *)

Engine(n, out, payload) == [node |-> n, out |-> out, payload |-> payload]

\* Faulty variant: an object store that does not answer counts as a miss.
EngineGetErrorIsMiss(n, k, down) ==
    IF n.flat[k] # Missing THEN Engine(n, "hit", n.flat[k])
    ELSE IF n.foyer[k] # Missing
         THEN Engine([n EXCEPT !.flat[k] = n.foyer[k]], "hit", n.foyer[k])
    ELSE IF down \/ n.s3[k] = Missing THEN Engine(n, "miss", <<>>)
    ELSE Engine([n EXCEPT !.flat[k] = n.s3[k], !.foyer[k] = n.s3[k]], "hit", n.s3[k])

\* get_kv: flat file, foyer (repairing the flat file), object store (filling
\* both).
EngineGet(n, k, down) ==
    IF n.flat[k] # Missing THEN Engine(n, "hit", n.flat[k])
    ELSE IF n.foyer[k] # Missing
         THEN Engine([n EXCEPT !.flat[k] = n.foyer[k]], "hit", n.foyer[k])
    ELSE IF down THEN Engine(n, "error", <<>>)
    ELSE IF n.s3[k] = Missing THEN Engine(n, "miss", <<>>)
    ELSE Engine([n EXCEPT !.flat[k] = n.s3[k], !.foyer[k] = n.s3[k]], "hit", n.s3[k])

\* put_kv: the two caches first, the object store last.
EnginePut(n, k, payload, down) ==
    LET local == [n EXCEPT !.flat[k] = payload, !.foyer[k] = payload]
    IN  IF down THEN Engine(local, "error", <<>>)
        ELSE Engine([local EXCEPT !.s3[k] = payload], "ok", <<>>)

EngineExists(n, k, down) ==
    IF n.foyer[k] # Missing THEN "yes"
    ELSE IF down THEN "error"
    ELSE IF n.s3[k] # Missing THEN "yes" ELSE "no"

\* The keys below a namespace, relative to it, in the listing's order.
ListKvKeys(n, ns) ==
    LET in == {k \in DOMAIN n.s3 : n.s3[k] # Missing /\ IsPrefix(ns, k)}
        KeyOrder(a, b) == \E i \in 1 .. Len(a) + 1 :
                            /\ \A j \in 1 .. i - 1 : j <= Len(b) /\ a[j] = b[j]
                            /\ \/ i > Len(a) /\ Len(b) >= i
                               \/ i <= Len(a) /\ i <= Len(b) /\ a[i] < b[i]
        sorted == SetToSortSeq(in, KeyOrder)
    IN  [i \in 1 .. Len(sorted) |-> SubSeq(sorted[i], Len(ns) + 1, Len(sorted[i]))]

\* restore_from_s3: every listed object into foyer; a failure leaves the ones
\* before it.
EngineRestore(n, ns, done) ==
    [n EXCEPT !.foyer = [k \in DOMAIN n.foyer |->
        IF k \in done /\ n.s3[k] # Missing THEN n.s3[k] ELSE n.foyer[k]]]

\* load_large_payload: the chunks in order; a missing one is an error.
LoadLarge(n, ns, m, down) ==
    LET id == ManifestId(m)
        Step(s, idx) ==
          LET got == EngineGet(s.node, ObjectKey(ns, ChunkKey(id, idx)), down)
          IN  IF s.out # "hit" THEN s
              ELSE IF got.out = "hit" THEN Engine(got.node, "hit", s.payload \o got.payload)
              ELSE Engine(got.node, "error", <<>>)
        all == FoldLeft(Step, Engine(n, "hit", <<>>), [i \in 1 .. m[3] |-> i])
    IN  IF all.out = "hit" /\ Len(all.payload) # m[2]
        THEN Engine(all.node, "error", <<>>)
        ELSE all

-----------------------------------------------------------------------------
(* dispatch(): one request, one response.                                  *)

WireRequest(op, ns, key, payload) == [op |-> op, ns |-> ns, key |-> key, payload |-> payload]

\* payload and message of a response; slab is the arena reference of the
\* message, resolved to the bytes it points at.
Response(op, status, payload, slab) ==
    [op |-> op, status |-> status, payload |-> payload, slab |-> slab]

ErrResponse(op) == Response(op, "ERROR", <<>>, Missing)

Answer(n, r) == [node |-> n, resp |-> r]

\* rkyv bytes behind the magic of the operation.
Archived(magic, value) == [magic |-> magic, value |-> value]

\* The decoders, one per operation and direction: each expects its own magic.
Unarchives(op, payload) == payload.magic = op

\* materialize_large_payload: the payload, or the payload its manifest stands
\* for, becomes the key's slab when it is long enough.
Materialize(n, ns, key, payload, down) ==
    LET k == ObjectKey(ns, key)
        whole == IF IsManifest(payload) THEN LoadLarge(n, ns, payload, down)
                 ELSE Engine(n, "hit", payload)
    IN  IF ~setup.arena \/ (IsManifest(payload) /\ payload[2] < ArenaMin)
        THEN Engine(n, "none", <<>>)
        ELSE IF whole.out = "hit" /\ Len(whole.payload) >= ArenaMin
        THEN Engine([whole.node EXCEPT !.slabs[k] = whole.payload], "slab", whole.payload)
        ELSE Engine(whole.node, "none", <<>>)

DispatchPut(r, down) ==
    LET put == EnginePut(node, ObjectKey(r.ns, r.key), r.payload, down)
        mat == Materialize(put.node, r.ns, r.key, r.payload, down)
    IN  IF put.out = "error" THEN Answer(put.node, ErrResponse("PUT"))
        ELSE Answer(mat.node, Response("PUT", "OK", <<>>, Missing))

DispatchGet(r, down) ==
    LET k == ObjectKey(r.ns, r.key)
        got == EngineGet(node, k, down)
        mat == Materialize(got.node, r.ns, r.key, got.payload, down)
    IN  IF setup.arena /\ node.slabs[k] # Missing
        THEN Answer(node, Response("GET", "OK", <<>>, node.slabs[k]))
        ELSE IF got.out = "error" THEN Answer(got.node, ErrResponse("GET"))
        ELSE IF got.out = "miss" THEN Answer(got.node, Response("GET", "MISS", <<>>, Missing))
        ELSE IF mat.out = "slab"
        THEN Answer(mat.node, Response("GET", "OK", <<>>, mat.payload))
        ELSE Answer(mat.node, Response("GET", "OK", got.payload, Missing))

\* Keys one after the other; manifests are resolved here, and the first key
\* that is not a hit ends the request.
DispatchGetMany(r, down) ==
    LET keys == DecodeKeyBatch(r.payload)
        Step(s, key) ==
          LET got == EngineGet(s.node, ObjectKey(r.ns, key), down)
              whole == IF got.out = "hit" /\ IsManifest(got.payload)
                       THEN LoadLarge(got.node, r.ns, got.payload, down) ELSE got
          IN  IF s.out # "hit" THEN s
              ELSE [node |-> whole.node, out |-> whole.out,
                    items |-> IF whole.out = "hit" THEN Append(s.items, whole.payload) ELSE <<>>]
        all == FoldLeft(Step, [node |-> node, out |-> "hit", items |-> <<>>], keys.items)
        batch == EncodeBytesBatch(all.items)
    IN  IF ~keys.ok \/ all.out = "error" THEN Answer(all.node, ErrResponse("GET_MANY"))
        ELSE IF all.out = "miss" THEN Answer(all.node, Response("GET_MANY", "MISS", <<>>, Missing))
        ELSE IF setup.arena /\ Len(batch) >= ArenaMin
        THEN Answer(all.node, Response("GET_MANY", "OK", <<>>, batch))
        ELSE IF FitsOneFrame(Len(batch))
        THEN Answer(all.node, Response("GET_MANY", "OK", batch, Missing))
        ELSE Answer(all.node, Response("GET_MANY", "TOO_LARGE", <<>>, Missing))

DispatchExists(r, down) ==
    LET e == EngineExists(node, ObjectKey(r.ns, r.key), down)
    IN  Answer(node, IF e = "error" THEN ErrResponse("EXISTS")
                     ELSE Response("EXISTS", IF e = "yes" THEN "OK" ELSE "MISS", <<>>, Missing))

DispatchList(r, down) ==
    Answer(node, IF down THEN ErrResponse("LIST")
                 ELSE Response("LIST", "OK", EncodeKeyBatch(ListKvKeys(node, r.ns)), Missing))

\* CLEAR empties foyer and the slabs; the flat files stay.
DispatchClear ==
    Answer([node EXCEPT !.foyer = [k \in DOMAIN @ |-> Missing],
                        !.slabs = [k \in DOMAIN @ |-> Missing]],
           Response("CLEAR", "OK", <<>>, Missing))

\* The count of restored keys is the message.
DispatchRestore(r, down, done) ==
    LET n == EngineRestore(node, r.ns, done)
    IN  Answer(n, IF down THEN ErrResponse("RESTORE")
                  ELSE Response("RESTORE", "OK", <<Cardinality(done)>>, Missing))

LongestPrefixOf(index, hashes) ==
    CHOOSE m \in 0 .. Len(hashes) :
        /\ \A i \in 1 .. m : hashes[i] \in index
        /\ m < Len(hashes) => hashes[m + 1] \notin index

\* The decoded request of a block operation is refused when its magic is not
\* that of the operation, or a hash is not 64 hex digits.
BlockRefused(r) == ~Unarchives(r.op, r.payload) \/ BadHex \in Range(r.payload.value.hashes)

DispatchLookup(r) ==
    Answer(node, IF BlockRefused(r) THEN ErrResponse(r.op)
                 ELSE Response(r.op, "OK",
                        Archived(r.op, LongestPrefixOf(node.index, r.payload.value.hashes)), Missing))

\* The fan-out of reads; the first result in input order that is no hit is the
\* answer.
DispatchGetBlocks(r, down) ==
    LET hashes == r.payload.value.hashes
        Step(s, h) ==
          LET got == EngineGet(s.node, ObjectKey(r.ns, BlockKeyFromHex(h)), down)
          IN  IF s.out # "hit" THEN s
              ELSE [node |-> got.node, out |-> got.out, items |-> Append(s.items, got.payload)]
        all == FoldLeft(Step, [node |-> node, out |-> "hit", items |-> <<>>], hashes)
    IN  IF BlockRefused(r) THEN Answer(node, ErrResponse(r.op))
        ELSE IF all.out = "error" THEN Answer(all.node, ErrResponse(r.op))
        ELSE Answer(all.node, Response(r.op, "OK",
               Archived(r.op, [some |-> all.out = "hit",
                               items |-> IF all.out = "hit" THEN all.items ELSE <<>>]), Missing))

\* The fan-out of writes, and the index once all of them succeeded.
PutEach(r, failing) ==
    FoldLeft(LAMBDA n, i : EnginePut(n, ObjectKey(r.ns, BlockKeyFromHex(r.payload.value.hashes[i])),
                                     r.payload.value.payloads[i],
                                     r.payload.value.hashes[i] \in failing).node,
             node, [i \in 1 .. Len(r.payload.value.hashes) |-> i])

TotalLen(payloads) == FoldLeft(LAMBDA sum, p : sum + Len(p), 0, payloads)

\* Faulty variant: the index is stamped before the writes are looked at.
DispatchPutBlocksStampFirst(r, failing) ==
    LET written == PutEach(r, failing)
        hashes == r.payload.value.hashes
    IN  IF Len(hashes) # Len(r.payload.value.payloads) \/ BlockRefused(r)
        THEN Answer(node, ErrResponse(r.op))
        ELSE Answer([written EXCEPT !.index = @ \union Range(hashes)],
                    IF failing # {} THEN ErrResponse(r.op)
                    ELSE Response(r.op, "OK", Archived(r.op, TotalLen(r.payload.value.payloads)), Missing))

DispatchPutBlocks(r, failing) ==
    LET written == PutEach(r, failing)
        hashes == r.payload.value.hashes
    IN  IF Len(hashes) # Len(r.payload.value.payloads) \/ BlockRefused(r)
        THEN Answer(node, ErrResponse(r.op))
        ELSE IF failing # {} THEN Answer(written, ErrResponse(r.op))
        ELSE Answer([written EXCEPT !.index = @ \union Range(hashes)],
                    Response(r.op, "OK", Archived(r.op, TotalLen(r.payload.value.payloads)), Missing))

\* PING, STATS and CLOSE answer OK and change nothing.
DispatchPlain(r) == Answer(node, Response(r.op, "OK", <<>>, Missing))

\* The match over the op code.  down: the object store is unreachable while
\* this request runs; failing and done say how far a batch got.
DispatchOp(r, down, failing, done) ==
    CASE r.op = "PUT"      -> DispatchPut(r, down)
      [] r.op = "GET"      -> DispatchGet(r, down)
      [] r.op = "GET_MANY" -> DispatchGetMany(r, down)
      [] r.op = "EXISTS"   -> DispatchExists(r, down)
      [] r.op = "LIST"     -> DispatchList(r, down)
      [] r.op = "CLEAR"    -> DispatchClear
      [] r.op = "RESTORE"  -> DispatchRestore(r, down, done)
      [] r.op = "LOOKUP_BLOCK_PREFIX" -> DispatchLookup(r)
      [] r.op = "GET_KV_BLOCKS_BATCH" -> DispatchGetBlocks(r, down)
      [] r.op = "PUT_KV_BLOCKS_BATCH" -> DispatchPutBlocks(r, failing)
      [] OTHER -> DispatchPlain(r)

-----------------------------------------------------------------------------
(* The clients.                                                            *)

NoResult == [kind |-> "none", v |-> <<>>]
Result(kind, v) == [kind |-> kind, v |-> v]
NoResponse == Response("NONE", "NONE", <<>>, Missing)

\* The operations that only RemoteKvStoreClient offers.
ShmOnly == {"GET_MANY", "EXISTS", "LIST", "RESTORE", "CLEAR", "STATS", "CLOSE"}

\* A method: its caller's arguments, the requests still to be answered (the
\* first one is on the wire), the response that arrived, and what is collected.
Method(tr, op, ns, keys, vals, hashes, reqs) ==
    [tr |-> tr, op |-> op, ns |-> ns, keys |-> keys, vals |-> vals, hashes |-> hashes,
     reqs |-> reqs, resp |-> NoResponse, todo |-> <<>>, items |-> <<>>,
     large |-> <<>>, part |-> <<>>, faulty |-> FALSE, res |-> NoResult]

Finished(r) == [method EXCEPT !.reqs = <<>>, !.resp = NoResponse, !.large = <<>>,
                              !.part = <<>>, !.todo = <<>>, !.items = <<>>, !.res = r]

Available == method.reqs = <<>> /\ wireCalls < MaxWireCalls

Begin(m) ==
    /\ Available
    /\ method' = m
    /\ wireCalls' = wireCalls + 1
    /\ UNCHANGED <<setup, node, legal, stamped, outages, moves>>

GetRequest(ns, key) == WireRequest("GET", ns, key, <<>>)

\* put_kv: a payload beyond one frame is stored as chunks and a manifest by the
\* shared-memory client; the others send it as it is.
PutRequests(tr, ns, key, val) ==
    LET id == LargeId(ns, key, val)
    IN  IF tr = "shm" /\ ~FitsOneFrame(Len(val))
        THEN [i \in 1 .. ChunkCountOf(val) |->
                WireRequest("PUT", ns, ChunkKey(id, i), ChunkOf(val, i))]
             \o <<WireRequest("PUT", ns, key, Manifest(id, val))>>
        ELSE <<WireRequest("PUT", ns, key, val)>>

CallPut ==
    \E tr \in setup.transports, ns \in WireSpaces, key \in WireKeys, val \in setup.values :
        Begin(Method(tr, "PUT", ns, <<key>>, <<val>>, <<>>, PutRequests(tr, ns, key, val)))

CallGet ==
    \E tr \in setup.transports, ns \in WireSpaces, key \in WireKeys :
        Begin(Method(tr, "GET", ns, <<key>>, <<>>, <<>>, <<GetRequest(ns, key)>>))

KeyLists == {<<k>> : k \in WireKeys} \union {<<k, l>> : k, l \in WireKeys}

CallGetMany ==
    \E ns \in WireSpaces, keys \in KeyLists :
        /\ "shm" \in setup.transports
        /\ Begin(Method("shm", "GET_MANY", ns, keys, <<>>, <<>>,
                        <<WireRequest("GET_MANY", ns, <<>>, EncodeKeyBatch(keys))>>))

CallExists ==
    \E ns \in WireSpaces, key \in WireKeys :
        /\ "shm" \in setup.transports
        /\ Begin(Method("shm", "EXISTS", ns, <<key>>, <<>>, <<>>, <<WireRequest("EXISTS", ns, key, <<>>)>>))

\* LIST, RESTORE, CLEAR, STATS, CLOSE and PING send the op code and at most a
\* namespace.
CallAdmin ==
    \E tr \in setup.transports, ns \in WireSpaces,
       op \in {"LIST", "RESTORE", "CLEAR", "STATS", "CLOSE", "PING"} :
        /\ op \in ShmOnly => tr = "shm"
        /\ Begin(Method(tr, op, ns, <<>>, <<>>, <<>>, <<WireRequest(op, ns, <<>>, <<>>)>>))

HashLists == {<<>>} \union {<<h>> : h \in Hashes \union {BadHex}}
                    \union {<<g, h>> : g, h \in Hashes}

BlockPayload(hash) == <<hash>>

CallBlocks ==
    \E tr \in setup.transports, ns \in WireSpaces, hashes \in HashLists,
       op \in {"LOOKUP_BLOCK_PREFIX", "GET_KV_BLOCKS_BATCH"} :
        Begin(Method(tr, op, ns, <<>>, <<>>, hashes,
                     <<WireRequest(op, ns, <<>>, Archived(op, [hashes |-> hashes]))>>))

\* put_kv_blocks_batch refuses lists of different lengths before it sends
\* anything.
CallPutBlocks ==
    \E tr \in setup.transports, ns \in WireSpaces, hashes \in HashLists, short \in BOOLEAN :
        LET op == "PUT_KV_BLOCKS_BATCH"
            n == IF short /\ hashes # <<>> THEN Len(hashes) - 1 ELSE Len(hashes)
            payloads == [i \in 1 .. n |-> BlockPayload(hashes[i])]
            req == WireRequest(op, ns, <<>>, Archived(op, [hashes |-> hashes, payloads |-> payloads]))
            m == Method(tr, op, ns, <<>>, payloads, hashes, <<req>>)
        IN  IF n # Len(hashes)
            THEN Begin([m EXCEPT !.reqs = <<>>, !.res = Result("error", <<>>)])
            ELSE Begin(m)

-----------------------------------------------------------------------------
(* The daemon answers, the client reads the answer.                        *)

ServeCall ==
    /\ method.reqs # <<>> /\ method.resp = NoResponse
    /\ \E down \in BOOLEAN :
        LET r == Head(method.reqs)
            listed == {k \in DOMAIN node.s3 : node.s3[k] # Missing /\ IsPrefix(r.ns, k)}
            a == IF r.op = "PUT_KV_BLOCKS_BATCH" THEN Range(r.payload.value.hashes) ELSE {}
        IN  \E failing \in SUBSET a, done \in (IF down /\ r.op = "RESTORE" THEN SUBSET listed ELSE {listed}) :
              /\ r.op = "PUT_KV_BLOCKS_BATCH" => (down = (failing # {}))
              /\ down => outages < MaxOutages
              /\ LET ans == DispatchOp(r, down, failing, done)
                 IN  /\ node' = ans.node
                     /\ method' = [method EXCEPT !.resp = ans.resp, !.faulty = @ \/ down]
              /\ outages' = IF down THEN outages + 1 ELSE outages
    /\ UNCHANGED <<setup, legal, stamped, wireCalls, moves>>

\* The bytes of a hit: the shared-memory client follows the arena reference in
\* the message, the TCP and HTTP clients take the payload field.
PayloadOf(tr, resp) == IF tr = "shm" /\ resp.slab # Missing THEN resp.slab ELSE resp.payload

\* What the results so far allow each key to hold.
Learn(k, vs, sure) ==
    legal' = [legal EXCEPT ![k] = IF sure THEN vs ELSE @ \union vs]

Finish(r) == method' = Finished(r) /\ UNCHANGED <<setup, node, wireCalls, outages, moves>>

ReceivePut ==
    /\ method.op = "PUT" /\ method.resp # NoResponse
    /\ LET k == ObjectKey(method.ns, method.keys[1])
           val == method.vals[1]
       IN  IF method.resp.status # "OK"
           THEN Finish(Result("error", <<>>)) /\ Learn(k, {val}, FALSE)
           ELSE IF Len(method.reqs) = 1
           THEN Finish(Result("ok", <<>>)) /\ Learn(k, {val}, TRUE)
           ELSE /\ method' = [method EXCEPT !.reqs = Tail(@), !.resp = NoResponse]
                /\ UNCHANGED <<setup, node, wireCalls, outages, moves, legal>>
    /\ UNCHANGED stamped

\* get_kv and the key-by-key path of get_many_kv_batch.
ReceiveGet ==
    /\ method.resp.op = "GET"
    /\ LET bytes == PayloadOf(method.tr, method.resp)
           status == method.resp.status
           chunk == method.large # <<>>
           whole == IF chunk THEN method.part \o bytes ELSE bytes
           done == Append(method.items, whole)
           Deliver ==
             IF method.todo # <<>>
             THEN method' = [method EXCEPT !.reqs = <<GetRequest(method.ns, Head(method.todo))>>,
                               !.todo = Tail(@), !.items = done, !.resp = NoResponse,
                               !.large = <<>>, !.part = <<>>]
             ELSE method' = Finished(IF method.op = "GET" THEN Result("hit", whole)
                                     ELSE Result("batch", EncodeBytesBatch(done)))
       IN  IF status = "ERROR" \/ (status = "MISS" /\ chunk)
           THEN method' = Finished(Result("error", <<>>))
           ELSE IF status = "MISS" THEN method' = Finished(Result("miss", <<>>))
           ELSE IF method.tr = "shm" /\ ~chunk /\ IsManifest(bytes)
           THEN method' = [method EXCEPT !.large = bytes, !.resp = NoResponse,
                  !.reqs = [i \in 1 .. bytes[3] |->
                              GetRequest(method.ns, ChunkKey(ManifestId(bytes), i))]]
           ELSE IF chunk /\ Len(method.reqs) > 1
           THEN method' = [method EXCEPT !.reqs = Tail(@), !.part = whole, !.resp = NoResponse]
           ELSE IF chunk /\ Len(whole) # method.large[2]
           THEN method' = Finished(Result("error", <<>>))
           ELSE Deliver
    /\ UNCHANGED <<setup, node, wireCalls, outages, moves, legal, stamped>>

\* TOO_LARGE: the keys one by one instead.
ReceiveGetMany ==
    /\ method.resp.op = "GET_MANY"
    /\ LET batch == PayloadOf(method.tr, method.resp)
           status == method.resp.status
       IN  method' = IF status = "TOO_LARGE"
                     THEN [method EXCEPT !.reqs = <<GetRequest(method.ns, Head(method.keys))>>,
                                         !.todo = Tail(method.keys), !.resp = NoResponse]
                     ELSE Finished(CASE status = "ERROR" -> Result("error", <<>>)
                                     [] status = "MISS" -> Result("miss", <<>>)
                                     [] DecodeBytesBatch(batch).ok -> Result("batch", batch)
                                     [] OTHER -> Result("error", <<>>))
    /\ UNCHANGED <<setup, node, wireCalls, outages, moves, legal, stamped>>

ReceiveExists ==
    /\ method.resp.op = "EXISTS"
    /\ Finish(CASE method.resp.status = "OK" -> Result("yes", <<>>)
                [] method.resp.status = "MISS" -> Result("no", <<>>)
                [] OTHER -> Result("error", <<>>))
    /\ UNCHANGED <<legal, stamped>>

ReceiveAdmin ==
    /\ method.resp.op \in {"LIST", "RESTORE", "CLEAR", "STATS", "CLOSE", "PING"}
    /\ Finish(IF method.resp.status = "OK" THEN Result("ok", method.resp.payload)
              ELSE Result("error", <<>>))
    /\ UNCHANGED <<legal, stamped>>

\* The three block methods decode the archived response of their operation;
\* each client has its own copy of the code.
TcpBlocksResult(op, r) ==
    LET value == r.payload.value
    IN  IF r.status # "OK" THEN Result("error", <<>>)
        ELSE IF ~Unarchives(op, r.payload) THEN Result("error", <<>>)
        ELSE CASE op = "LOOKUP_BLOCK_PREFIX" -> Result("count", <<value>>)
               [] op = "PUT_KV_BLOCKS_BATCH" -> Result("count", <<value>>)
               [] op = "GET_KV_BLOCKS_BATCH" -> IF value.some THEN Result("blocks", value.items)
                                                ELSE Result("miss", <<>>)

HttpBlocksResult(op, r) == TcpBlocksResult(op, r)

ShmBlocksResult(op, r) == TcpBlocksResult(op, r)

ReceiveBlocks ==
    /\ method.resp.op \in {"LOOKUP_BLOCK_PREFIX", "GET_KV_BLOCKS_BATCH", "PUT_KV_BLOCKS_BATCH"}
    /\ Finish(CASE method.tr = "tcp"  -> TcpBlocksResult(method.op, method.resp)
                [] method.tr = "http" -> HttpBlocksResult(method.op, method.resp)
                [] method.tr = "shm"  -> ShmBlocksResult(method.op, method.resp))
    /\ stamped' = IF method.op = "PUT_KV_BLOCKS_BATCH" /\ method.resp.status = "OK"
                  THEN stamped \union ({method.ns} \X Range(method.hashes)) ELSE stamped
    /\ UNCHANGED legal

-----------------------------------------------------------------------------
ObjectKeys ==
    LET plain == {ObjectKey(ns, key) : ns \in WireSpaces, key \in WireKeys}
        blocks == {ObjectKey(ns, BlockKeyFromHex(h)) : ns \in WireSpaces, h \in Hashes}
        chunks == {ObjectKey(ns, ChunkKey(LargeId(ns, key, v), i)) :
                     ns \in WireSpaces, key \in WireKeys,
                     v \in {w \in setup.values : ~FitsOneFrame(Len(w))}, i \in 1 .. 2}
    IN  plain \union blocks \union chunks

WireInit ==
    /\ setup \in Setups
    /\ node = [s3    |-> [k \in ObjectKeys |-> Missing],
               flat  |-> [k \in ObjectKeys |-> Missing],
               foyer |-> [k \in ObjectKeys |-> Missing],
               slabs |-> [k \in ObjectKeys |-> Missing],
               index |-> {}]
    /\ method = Method("shm", "NONE", <<>>, <<>>, <<>>, <<>>, <<>>)
    /\ legal = [k \in {ObjectKey(ns, key) : ns \in WireSpaces, key \in WireKeys} |-> {Missing}]
    /\ stamped = {}
    /\ wireCalls = 0
    /\ outages = 0
    /\ moves = 0

\* The daemon starts again on a machine without its cache files.  The block
\* index comes back from SlateDB, which every acknowledged batch wrote through.
MoveDaemon ==
    /\ method.reqs = <<>> /\ moves < MaxMoves
    /\ moves' = moves + 1
    /\ node' = [node EXCEPT !.flat  = [k \in DOMAIN @ |-> Missing],
                            !.foyer = [k \in DOMAIN @ |-> Missing],
                            !.slabs = [k \in DOMAIN @ |-> Missing]]
    /\ UNCHANGED <<setup, method, legal, stamped, wireCalls, outages>>

WireNext ==
    \/ CallPut \/ CallGet \/ CallGetMany \/ CallExists \/ CallAdmin \/ CallBlocks \/ CallPutBlocks
    \/ ServeCall \/ MoveDaemon
    \/ ReceivePut \/ ReceiveGet \/ ReceiveGetMany \/ ReceiveExists \/ ReceiveAdmin \/ ReceiveBlocks

-----------------------------------------------------------------------------
Told == method.reqs = <<>> /\ method.res.kind # "none"

(***************************************************************************)
(* What a caller learns about its keys is true, over every transport and   *)
(* whoever wrote the key over whichever transport: a hit is a payload that *)
(* the puts so far may have left, byte for byte; a miss, a "no" and an     *)
(* absent listing entry only for a key that may hold nothing; an error     *)
(* only when the object store failed during the call.  (client.rs, the     *)
(* methods of TcpKvClient and HttpKvClient, dispatch() and the store       *)
(* behind it.)                                                             *)
(***************************************************************************)
AnswersTrue ==
    LET May(key) == legal[ObjectKey(method.ns, key)]
        r == method.res
    IN  Told =>
          /\ (method.op \in {"PUT", "GET", "GET_MANY"} \union ShmOnly \union {"PING"}
              /\ r.kind = "error") => method.faulty
          /\ method.op = "GET" =>
               /\ r.kind = "hit" => r.v \in May(method.keys[1])
               /\ r.kind = "miss" => Missing \in May(method.keys[1])
          /\ method.op = "GET_MANY" =>
               /\ r.kind = "batch" =>
                    LET d == DecodeBytesBatch(r.v)
                    IN  /\ d.ok /\ Len(d.items) = Len(method.keys)
                        /\ \A i \in DOMAIN method.keys : d.items[i] \in May(method.keys[i])
               /\ r.kind = "miss" => \E i \in DOMAIN method.keys : Missing \in May(method.keys[i])
          /\ method.op = "EXISTS" =>
               /\ r.kind = "yes" => May(method.keys[1]) # {Missing}
               /\ r.kind = "no" => Missing \in May(method.keys[1])
          /\ (method.op = "LIST" /\ r.kind = "ok") =>
               LET d == DecodeKeyBatch(r.v)
               IN  /\ d.ok
                   /\ \A key \in WireKeys :
                        /\ Missing \notin May(key) => key \in Range(d.items)
                        /\ key \in Range(d.items) => May(key) # {Missing}

(***************************************************************************)
(* What a caller learns about its blocks is true: a prefix lookup counts   *)
(* only blocks of acknowledged batches, and all of its own namespace's     *)
(* leading ones; a batched read returns the blocks it was asked for in     *)
(* order, and a miss only when one was never acknowledged in that          *)
(* namespace; a batched write returns the bytes it was given; an error     *)
(* means a failure, a malformed hash or lists of different lengths.        *)
(* (dispatch_lookup_block_prefix, dispatch_get_kv_blocks_batch,            *)
(* dispatch_put_kv_blocks_batch and the client methods above them.)        *)
(***************************************************************************)
BlocksTrue ==
    LET r == method.res
        hs == method.hashes
        Acked(h) == \E ns \in WireSpaces : <<ns, h>> \in stamped
    IN  Told =>
          /\ (hs # <<>> /\ r.kind = "error") =>
               method.faulty \/ BadHex \in Range(hs) \/ Len(method.vals) # Len(hs)
          /\ BadHex \in Range(hs) => r.kind = "error"
          /\ (method.op = "LOOKUP_BLOCK_PREFIX" /\ r.kind = "count") =>
               /\ \A i \in 1 .. r.v[1] : Acked(hs[i])
               /\ r.v[1] < Len(hs) => ~Acked(hs[r.v[1] + 1])
          /\ (method.op = "GET_KV_BLOCKS_BATCH" /\ r.kind = "blocks") =>
               r.v = [i \in 1 .. Len(hs) |-> BlockPayload(hs[i])]
          /\ (method.op = "GET_KV_BLOCKS_BATCH" /\ r.kind = "miss") =>
               \E h \in Range(hs) : <<method.ns, h>> \notin stamped
          /\ (method.op = "PUT_KV_BLOCKS_BATCH" /\ r.kind = "count") =>
               r.v[1] = TotalLen(method.vals)
=============================================================================
