-------------------------- MODULE KvServiceProofs --------------------------
(***************************************************************************)
(* Single-key PUT and GET, for every set of clients, keys and payloads,    *)
(* every number of chunks and every choice of modes: what a get returns is *)
(* one payload, a manifest that is stored has its chunks, and a daemon     *)
(* that drained has lost no acknowledged PUT.                              *)
(***************************************************************************)
EXTENDS KvService, SequenceTheorems, FiniteSetTheorems, TLAPS

\* A leaf that names no prover is left to Zenon.
USE ZenonT(30)

\* The PUTs a call still has to make from the j-th on: chunks, then index 0.
Idx(j) == IF j <= ChunkCount THEN j ELSE 0
Left(j) == [i \in 1..((ChunkCount + 2) - j) |-> Idx((i + j) - 1)]

\* The first q chunks of a payload.
ChunksOf(v, q) == [i \in 1..q |-> <<"chunk", v, i>>]

\* One of the calls put data under the store key.
PutBy(cs, key, data) ==
    \E c \in 1..Len(cs), i \in 0..ChunkCount :
        /\ i = 0 \/ cs[c].value \in LargeValues
        /\ Put(cs[c].key, cs[c].value, i).at = key
        /\ Put(cs[c].key, cs[c].value, i).data = data

IsPut(w) == w = [at |-> w.at, id |-> w.id, key |-> w.key, data |-> w.data]

Call == [key : KvKeys, value : KvValues]

KvType ==
    /\ mode \in Modes
    /\ cache = [k \in StoreKeys |-> cache[k]] /\ s3 = [k \in StoreKeys |-> s3[k]]
    /\ engine = [e \in Engines |-> engine[e]] /\ worker = [e \in Engines |-> worker[e]]
    /\ calls \in Seq(Call)

\* What the tiers hold, and what threads are to store, was put there.
StoredByCall ==
    /\ \A k \in StoreKeys : cache[k] # None => PutBy(calls, k, cache[k])
    /\ \A k \in StoreKeys : s3[k] # None => PutBy(calls, k, s3[k])
    /\ \A t \in threads : IsPut(t) /\ t.at \in {"queued", "object"} /\ PutBy(calls, t.key, t.data)

\* A call of put_kv is at its j-th PUT.
PutAt(cs, g, j) ==
    /\ g = [at |-> "put", call |-> g.call, left |-> Left(j)]
    /\ g.call \in 1..Len(cs)
    /\ cs[g.call].value \notin LargeValues => j = ChunkCount + 1

\* A call of get_kv has got the first chunks of one payload.
GetAt(cs, g) ==
    /\ g = [at |-> "get", key |-> g.key, parts |-> g.parts, want |-> g.want, id |-> g.id]
    /\ g.key \in KvKeys
    /\ \/ g.want = 0 /\ g.parts = <<>>
       \/ /\ g.want = ChunkCount
          /\ \E c \in 1..Len(cs), q \in 0..(ChunkCount - 1) :
                /\ cs[c].key = g.key /\ cs[c].value \in LargeValues
                /\ g.id = LargePayloadId(g.key, cs[c].value)
                /\ g.parts = ChunksOf(cs[c].value, q)

\* The store key a get waits for.
Asked(g) == IF g.want = 0 THEN <<g.key>> ELSE LargeChunkKey(g.id, Len(g.parts) + 1)

\* A worker, and a client with its worker.
WorkerOK(cs, w) ==
    /\ w.at \in {"put", "local", "object"} => IsPut(w) /\ PutBy(cs, w.key, w.data)
    /\ w.at = "get" => w.key \in StoreKeys
    /\ w.at = "fill" => PutBy(cs, w.key, w.data)

ClientOK(cs, g, w) ==
    /\ g.at = "put" => /\ w.at \in {"put", "local", "object", "reply"}
                       /\ \E j \in 1..(ChunkCount + 1) : PutAt(cs, g, j)
    /\ g.at = "get" => /\ w.at \in {"get", "fill", "reply"} /\ GetAt(cs, g)
                       /\ w.at \in {"get", "fill"} => w.key = Asked(g)
                       /\ w.at = "reply" /\ w.status = "OK" => PutBy(cs, Asked(g), w.data)

\* What a client got is one payload of a call for its key.
Whole(cs, g) ==
    g.at = "got" =>
        \E c \in 1..Len(cs) :
            /\ cs[c].key = g.key
            /\ g.parts = IF cs[c].value \in LargeValues THEN ChunksOf(cs[c].value, ChunkCount)
                         ELSE <<(<<"whole", cs[c].value, 0>>)>>

PairOK(cs, g, w) == WorkerOK(cs, w) /\ ClientOK(cs, g, w) /\ Whole(cs, g)

\* The inductive invariant behind GetsAreWhole.
WholeInv == KvType /\ StoredByCall /\ \A e \in Engines : PairOK(calls, engine[e], worker[e])

-----------------------------------------------------------------------------
\* The chunks a manifest names are objects.
Stored(objects, key) == key \in StoreKeys /\ objects[key] # None

Covered(objects, d) ==
    d # None /\ ParseLargeManifest(d) => \A i \in 1..d[3] : Stored(objects, LargeChunkKey(d[2], i))

\* A client whose j-th PUT is under way has stored the chunks before.
PutCovered(cs, objects, g, w) ==
    \E j \in 1..(ChunkCount + 1) :
        LET k == cs[g.call].key
            v == cs[g.call].value
        IN /\ PutAt(cs, g, j)
           /\ v \in LargeValues =>
                \A i \in 1..(j - 1) : Stored(objects, LargeChunkKey(LargePayloadId(k, v), i))
           /\ w.at \in {"put", "object"} => w.key = Put(k, v, Idx(j)).at
           /\ w.at = "reply" /\ w.status = "OK" => Stored(objects, Put(k, v, Idx(j)).at)

PairCovered(cs, objects, g, w) ==
    /\ w.at # "local"
    /\ w.at \in {"put", "object", "fill"} => Covered(objects, w.data)
    /\ g.at = "put" => PutCovered(cs, objects, g, w)

\* While PUTs are synchronous, whoever holds a manifest holds a covered one.
CoveredInv ==
    ~mode.async =>
        /\ threads = {}
        /\ \A k \in StoreKeys : Covered(s3, cache[k]) /\ Covered(s3, s3[k])
        /\ \A e \in Engines : PairCovered(calls, s3, engine[e], worker[e])

ManifestInv == WholeInv /\ CoveredInv

-----------------------------------------------------------------------------
\* The counter covers the threads, and every PUT that was acknowledged has ended
\* or has a thread.
Counted(S, n) == IsFiniteSet(S) /\ n \in Nat /\ n >= Cardinality(S)

DrainInv ==
    /\ Counted(threads, inflight)
    /\ ~mode.async => threads = {}
    /\ phase # "drain timeout" => acked \subseteq tried \cup {t.id : t \in threads}
    /\ phase = "exited" => threads = {}

-----------------------------------------------------------------------------
\* What each PUT of a call stores, and where.
LEMMA PutFacts ==
  ASSUME NEW k \in KvKeys, NEW v \in KvValues, NEW i \in 0..ChunkCount, i = 0 \/ v \in LargeValues
  PROVE  /\ Put(k, v, i).at \in StoreKeys /\ Put(k, v, i).data # None
         /\ i = 0 => /\ Put(k, v, i).at = <<k>>
                     /\ Put(k, v, i).data = IF v \in LargeValues THEN <<"manifest", <<k, v>>, ChunkCount>>
                                            ELSE <<"whole", v, 0>>
         /\ i # 0 => /\ Put(k, v, i).at = <<(<<k, v>>), i>>
                     /\ Put(k, v, i).data = <<"chunk", v, i>>
  <1> ChunkCount \in Nat BY KvServiceAssumption
  <1>1. CASE i = 0
    <2>1. <<k>> \in StoreKeys BY SMTT(30) DEF StoreKeys
    <2>2. /\ v \in LargeValues => Put(k, v, i) = [at |-> <<k>>, data |-> <<"manifest", <<k, v>>, ChunkCount>>]
          /\ v \notin LargeValues => Put(k, v, i) = [at |-> <<k>>, data |-> <<"whole", v, 0>>]
      BY <1>1, SMTT(30) DEF Put, LargeManifest, LargePayloadId
    <2> QED BY <1>1, <2>1, <2>2, SMTT(30) DEF None
  <1>2. CASE i # 0
    <2>1. i \in 1..ChunkCount /\ v \in LargeValues /\ i > 0 BY <1>2, SMTT(30)
    <2>2. LargeChunkKey(LargePayloadId(k, v), i) \in StoreKeys BY <2>1, SMTT(30) DEF StoreKeys
    <2>3. Put(k, v, i) = [at |-> <<(<<k, v>>), i>>, data |-> <<"chunk", v, i>>]
      BY <2>1, SMTT(30) DEF Put, LargeChunkKey, LargePayloadId
    <2> QED BY <1>2, <2>2, <2>3, SMTT(30) DEF None, LargeChunkKey, LargePayloadId
  <1> QED BY <1>1, <1>2

\* The calls are of keys and payloads.
LEMMA CallFacts ==
  ASSUME NEW cs \in Seq(Call), NEW c \in 1..Len(cs)
  PROVE  cs[c] \in Call /\ cs[c].key \in KvKeys /\ cs[c].value \in KvValues
  <1>1. cs[c] \in Call BY SMTT(30)
  <1> QED BY <1>1 DEF Call

\* What is put somewhere is not nothing, and under a key there is a payload or a
\* manifest of a call for that key, under a chunk's key that chunk.
LEMMA PutByFacts ==
  ASSUME NEW cs \in Seq(Call), NEW key, NEW d, PutBy(cs, key, d)
  PROVE  key \in StoreKeys /\ d # None
  <1>1. PICK c \in 1..Len(cs), i \in 0..ChunkCount :
           /\ i = 0 \/ cs[c].value \in LargeValues
           /\ Put(cs[c].key, cs[c].value, i).at = key
           /\ Put(cs[c].key, cs[c].value, i).data = d
    BY DEF PutBy
  <1>2. cs[c].key \in KvKeys /\ cs[c].value \in KvValues BY CallFacts
  <1> QED BY <1>1, <1>2, PutFacts

FromCall(cs, k, d) ==
    \E c \in 1..Len(cs) :
        /\ cs[c].key = k
        /\ d = IF cs[c].value \in LargeValues THEN <<"manifest", <<k, cs[c].value>>, ChunkCount>>
               ELSE <<"whole", cs[c].value, 0>>

\* What lies under a plain key was put by a call for that key.
LEMMA PutByKey ==
  ASSUME NEW cs \in Seq(Call), NEW k \in KvKeys, NEW d, PutBy(cs, <<k>>, d)
  PROVE  FromCall(cs, k, d)
  <1>1. PICK c \in 1..Len(cs), i \in 0..ChunkCount :
           /\ i = 0 \/ cs[c].value \in LargeValues
           /\ Put(cs[c].key, cs[c].value, i).at = <<k>>
           /\ Put(cs[c].key, cs[c].value, i).data = d
    BY DEF PutBy
  <1>2. cs[c].key \in KvKeys /\ cs[c].value \in KvValues BY CallFacts
  <1>3. i = 0
    <2> SUFFICES ASSUME i # 0 PROVE FALSE
      OBVIOUS
    <2>1. <<k>> = <<(<<cs[c].key, cs[c].value>>), i>> BY <1>1, <1>2, PutFacts
    <2>2. Len(<<k>>) = 1 /\ Len(<<(<<cs[c].key, cs[c].value>>), i>>) = 2 OBVIOUS
    <2> QED BY <2>1, <2>2
  <1>4. <<k>> = <<cs[c].key>> BY <1>1, <1>2, <1>3, PutFacts
  <1>5. cs[c].key = k BY <1>4
  <1> QED BY <1>1, <1>2, <1>3, <1>5, PutFacts DEF FromCall

\* What lies under a chunk's key is that chunk.
LEMMA PutByChunk ==
  ASSUME NEW cs \in Seq(Call), NEW k, NEW v, NEW n \in Nat, NEW d, PutBy(cs, <<(<<k, v>>), n>>, d)
  PROVE  d = <<"chunk", v, n>>
  <1>1. PICK c \in 1..Len(cs), i \in 0..ChunkCount :
           /\ i = 0 \/ cs[c].value \in LargeValues
           /\ Put(cs[c].key, cs[c].value, i).at = <<(<<k, v>>), n>>
           /\ Put(cs[c].key, cs[c].value, i).data = d
    BY DEF PutBy
  <1>2. cs[c].key \in KvKeys /\ cs[c].value \in KvValues BY CallFacts
  <1>3. i # 0
    <2> SUFFICES ASSUME i = 0 PROVE FALSE
      OBVIOUS
    <2>1. <<cs[c].key>> = <<(<<k, v>>), n>> BY <1>1, <1>2, PutFacts
    <2>2. Len(<<cs[c].key>>) = 1 /\ Len(<<(<<k, v>>), n>>) = 2 OBVIOUS
    <2> QED BY <2>1, <2>2
  <1>4. <<(<<k, v>>), n>> = <<(<<cs[c].key, cs[c].value>>), i>> /\ d = <<"chunk", cs[c].value, i>>
    BY <1>1, <1>2, <1>3, PutFacts
  <1>5. n = i /\ <<k, v>> = <<cs[c].key, cs[c].value>> BY <1>4
  <1>6. v = cs[c].value BY <1>5
  <1> QED BY <1>4, <1>5, <1>6

\* More calls take nothing away.
Grows(cs, ds) == Len(cs) <= Len(ds) /\ \A c \in 1..Len(cs) : ds[c] = cs[c]

\* More calls make nothing wrong that was right.
LEMMA Growth ==
  ASSUME NEW cs \in Seq(Call), NEW ds \in Seq(Call), Grows(cs, ds)
  PROVE  /\ \A key, d : PutBy(cs, key, d) => PutBy(ds, key, d)
         /\ \A g, j : PutAt(cs, g, j) => PutAt(ds, g, j)
         /\ \A g : GetAt(cs, g) => GetAt(ds, g)
         /\ \A w : WorkerOK(cs, w) => WorkerOK(ds, w)
         /\ \A g, w : ClientOK(cs, g, w) => ClientOK(ds, g, w)
         /\ \A g : Whole(cs, g) => Whole(ds, g)
         /\ \A g, w : PairOK(cs, g, w) => PairOK(ds, g, w)
  <1>0. \A c \in 1..Len(cs) : c \in 1..Len(ds) /\ ds[c] = cs[c] BY SMTT(30) DEF Grows
  <1>1. \A key, d : PutBy(cs, key, d) => PutBy(ds, key, d) BY <1>0 DEF PutBy
  <1>2. \A g, j : PutAt(cs, g, j) => PutAt(ds, g, j) BY <1>0 DEF PutAt
  <1>3. \A g : GetAt(cs, g) => GetAt(ds, g) BY <1>0 DEF GetAt
  <1>4. \A w : WorkerOK(cs, w) => WorkerOK(ds, w) BY <1>1 DEF WorkerOK
  <1>5. \A g, w : ClientOK(cs, g, w) => ClientOK(ds, g, w) BY <1>1, <1>2, <1>3 DEF ClientOK
  <1>6. \A g : Whole(cs, g) => Whole(ds, g) BY <1>0 DEF Whole
  <1>7. \A g, w : PairOK(cs, g, w) => PairOK(ds, g, w) BY <1>4, <1>5, <1>6 DEF PairOK
  <1> QED BY <1>1, <1>2, <1>3, <1>4, <1>5, <1>6, <1>7

\* The PUTs of a call one after the other.
LEMMA LeftFacts ==
  /\ \A v \in LargeValues : PutOrder(v) = Left(1)
  /\ \A v : v \notin LargeValues => PutOrder(v) = Left(ChunkCount + 1)
  /\ \A j \in 1..(ChunkCount + 1) : Head(Left(j)) = Idx(j)
  /\ \A j \in 1..ChunkCount : Tail(Left(j)) = Left(j + 1)
  /\ \A j \in 1..ChunkCount : Tail(Left(j)) # <<>>
  /\ Tail(Left(ChunkCount + 1)) = <<>>
  <1> ChunkCount \in Nat \ {0} BY KvServiceAssumption
  <1>1. ASSUME NEW j \in 1..(ChunkCount + 1)
        PROVE  Left(j) \in Seq(0..ChunkCount) /\ Len(Left(j)) = (ChunkCount + 2) - j
               /\ Left(j) # <<>> /\ Head(Left(j)) = Idx(j)
    BY SMTT(30) DEF Left, Idx
  <1>2. ASSUME NEW v \in LargeValues PROVE PutOrder(v) = Left(1)
    <2> DEFINE s == [i \in 1..ChunkCount |-> i]
    <2>1. PutOrder(v) = s \o <<0>> BY DEF PutOrder
    <2>2. s \in Seq(0..ChunkCount) /\ Len(s) = ChunkCount /\ <<0>> \in Seq(0..ChunkCount) /\ Len(<<0>>) = 1
      BY SMTT(30)
    <2>3. \A i \in 1..ChunkCount : s[i] = i OBVIOUS
    <2> HIDE DEF s
    <2>4. s \o <<0>> \in Seq(0..ChunkCount) /\ Len(s \o <<0>>) = ChunkCount + 1
          /\ \A i \in 1..(ChunkCount + 1) : (s \o <<0>>)[i] = IF i <= ChunkCount THEN i ELSE 0
      BY <2>2, <2>3, SMTT(30)
    <2>5. Len(Left(1)) = ChunkCount + 1 /\ Left(1) \in Seq(0..ChunkCount)
          /\ \A i \in 1..(ChunkCount + 1) : Left(1)[i] = IF i <= ChunkCount THEN i ELSE 0
      BY <1>1, SMTT(30) DEF Left, Idx
    <2>6. s \o <<0>> = Left(1) BY <2>4, <2>5, SeqEqual
    <2> QED BY <2>1, <2>6
  <1>3. Left(ChunkCount + 1) = <<0>> BY SMTT(30) DEF Left, Idx
  <1>4. ASSUME NEW v, v \notin LargeValues PROVE PutOrder(v) = Left(ChunkCount + 1)
    BY <1>3, <1>4 DEF PutOrder
  <1>5. ASSUME NEW j \in 1..ChunkCount PROVE Tail(Left(j)) = Left(j + 1) /\ Tail(Left(j)) # <<>>
    <2>1. j + 1 \in 1..(ChunkCount + 1) /\ j \in 1..(ChunkCount + 1) BY SMTT(30)
    <2>2. Left(j + 1) \in Seq(0..ChunkCount) /\ Len(Left(j + 1)) = (ChunkCount + 1) - j /\ Left(j + 1) # <<>>
      <3>1. (ChunkCount + 2) - (j + 1) = (ChunkCount + 1) - j BY SMTT(30)
      <3>2. Left(j + 1) \in Seq(0..ChunkCount) /\ Len(Left(j + 1)) = (ChunkCount + 2) - (j + 1) /\ Left(j + 1) # <<>>
        BY <1>1, <2>1
      <3> QED BY <3>1, <3>2
    <2>3. Tail(Left(j)) \in Seq(0..ChunkCount) /\ Len(Tail(Left(j))) = (ChunkCount + 1) - j
          /\ \A i \in 1..((ChunkCount + 1) - j) : Tail(Left(j))[i] = Left(j)[i + 1]
      <3>1. Left(j) \in Seq(0..ChunkCount) /\ Len(Left(j)) = (ChunkCount + 2) - j /\ Left(j) # <<>>
        BY <1>1, <2>1
      <3> DEFINE s == Left(j)
      <3>2. s \in Seq(0..ChunkCount) /\ Len(s) = (ChunkCount + 2) - j /\ s # <<>> BY <3>1
      <3> HIDE DEF s
      <3>3. Tail(s) \in Seq(0..ChunkCount) /\ Len(Tail(s)) = (ChunkCount + 1) - j
            /\ \A i \in 1..((ChunkCount + 1) - j) : Tail(s)[i] = s[i + 1]
        BY <3>2, SMTT(30)
      <3> QED BY <3>3 DEF s
    <2>4. \A i \in 1..((ChunkCount + 1) - j) : Left(j)[i + 1] = Left(j + 1)[i]
      BY SMTT(30) DEF Left
    <2>5. Tail(Left(j)) = Left(j + 1) BY <2>2, <2>3, <2>4, SeqEqual
    <2> QED BY <2>2, <2>5
  <1>6. Tail(Left(ChunkCount + 1)) = <<>>
    <2>1. Tail(<<0>>) \in Seq(Nat) /\ Len(Tail(<<0>>)) = 0 BY SMTT(30)
    <2>2. Tail(<<0>>) = <<>> BY <2>1, EmptySeq
    <2> QED BY <1>3, <2>2
  <1> QED BY <1>1, <1>2, <1>4, <1>5, <1>6

\* The chunks of a payload one after the other.
LEMMA ChunksOfFacts ==
  ASSUME NEW v
  PROVE  /\ ChunksOf(v, 0) = <<>>
         /\ \A q \in Nat : Len(ChunksOf(v, q)) = q
         /\ \A q \in Nat : Append(ChunksOf(v, q), <<"chunk", v, q + 1>>) = ChunksOf(v, q + 1)
  <1> DEFINE S == {<<"chunk", v, i>> : i \in Nat}
  <1>1. ASSUME NEW q \in Nat PROVE ChunksOf(v, q) \in Seq(S) /\ Len(ChunksOf(v, q)) = q
                                   /\ \A i \in 1..q : ChunksOf(v, q)[i] = <<"chunk", v, i>>
    BY SMTT(30) DEF ChunksOf
  <1>2. ASSUME NEW q \in Nat
        PROVE  Append(ChunksOf(v, q), <<"chunk", v, q + 1>>) = ChunksOf(v, q + 1)
    <2>1. <<"chunk", v, q + 1>> \in S /\ q + 1 \in Nat BY SMTT(30)
    <2> DEFINE x == <<"chunk", v, q + 1>>
               s == ChunksOf(v, q)
               u == ChunksOf(v, q + 1)
    <2>2. s \in Seq(S) /\ Len(s) = q /\ \A i \in 1..q : s[i] = <<"chunk", v, i>> BY <1>1
    <2>3. u \in Seq(S) /\ Len(u) = q + 1 /\ \A i \in 1..(q + 1) : u[i] = <<"chunk", v, i>> BY <1>1, <2>1
    <2>4. x \in S /\ x = <<"chunk", v, q + 1>> BY <2>1
    <2> HIDE DEF S, s, u, x
    <2>5. Append(s, x) \in Seq(S) /\ Len(Append(s, x)) = q + 1 BY <2>2, <2>4, SMTT(30)
    <2>6. ASSUME NEW i \in 1..(q + 1) PROVE Append(s, x)[i] = u[i]
      <3>1. CASE i = q + 1 BY <2>2, <2>3, <2>4, <3>1, SMTT(30)
      <3>2. CASE i # q + 1
        <4>1. i \in 1..q BY <3>2, SMTT(30)
        <4>2. Append(s, x)[i] = s[i] BY <2>2, <4>1, SMTT(30)
        <4> QED BY <2>2, <2>3, <4>1, <4>2
      <3> QED BY <3>1, <3>2
    <2>7. Append(s, x) = u BY <2>3, <2>5, <2>6, SeqEqual
    <2> QED BY <2>7 DEF s, u, x
  <1>3. ChunksOf(v, 0) = <<>> BY SMTT(30) DEF ChunksOf
  <1> QED BY <1>1, <1>2, <1>3

\* The stages of a PUT.
LEMMA MovePut ==
  ASSUME NEW w, IsPut(w), NEW a
  PROVE  [w EXCEPT !.at = a] = [at |-> a, id |-> w.id, key |-> w.key, data |-> w.data]
  BY SMTT(30) DEF IsPut

-----------------------------------------------------------------------------
\* A step of one client or its worker.
LEMMA PairStep ==
  ASSUME WholeInv, NEW e \in Engines, UNCHANGED mode,
         cache' = [k \in StoreKeys |-> cache'[k]], s3' = [k \in StoreKeys |-> s3'[k]],
         engine' = [u \in Engines |-> engine'[u]], worker' = [u \in Engines |-> worker'[u]],
         \A u \in Engines \ {e} : engine'[u] = engine[u] /\ worker'[u] = worker[u],
         calls' \in Seq(Call), Grows(calls, calls'), StoredByCall',
         PairOK(calls', engine'[e], worker'[e])
  PROVE  WholeInv'
  <1>1. KvType' BY DEF WholeInv, KvType
  <1>2. calls \in Seq(Call) BY DEF WholeInv, KvType
  <1>3. ASSUME NEW u \in Engines PROVE PairOK(calls', engine'[u], worker'[u])
    <2>1. CASE u = e BY <2>1
    <2>2. CASE u # e
      <3>1. PairOK(calls, engine[u], worker[u]) BY DEF WholeInv
      <3>2. PairOK(calls', engine[u], worker[u]) BY <1>2, <3>1, Growth
      <3> QED BY <2>2, <3>2
    <2> QED BY <2>1, <2>2
  <1> QED BY <1>1, <1>3 DEF WholeInv

\* The same, with what the step sets, when it touches neither tiers nor threads.
LEMMA PairSet ==
  ASSUME WholeInv, NEW e \in Engines, NEW g, NEW w, SetEngine(e, g), SetWorker(e, w),
         UNCHANGED <<mode, tiers, threads>>,
         calls' \in Seq(Call), Grows(calls, calls'), PairOK(calls', g, w)
  PROVE  WholeInv'
  <1>1. calls \in Seq(Call) BY DEF WholeInv, KvType
  <1>2. StoredByCall' BY <1>1, Growth DEF WholeInv, StoredByCall, tiers
  <1>3. /\ engine' = [u \in Engines |-> engine'[u]] /\ worker' = [u \in Engines |-> worker'[u]]
        /\ engine'[e] = g /\ worker'[e] = w
        /\ \A u \in Engines \ {e} : engine'[u] = engine[u] /\ worker'[u] = worker[u]
    BY DEF WholeInv, KvType, SetEngine, SetWorker
  <1>4. cache' = [k \in StoreKeys |-> cache'[k]] /\ s3' = [k \in StoreKeys |-> s3'[k]]
    BY DEF WholeInv, KvType, tiers
  <1> QED BY <1>2, <1>3, <1>4, PairStep

\* No new call.
LEMMA SameCalls == calls \in Seq(Call) => Grows(calls, calls)
  BY SMTT(30) DEF Grows

\* A client at its j-th PUT, and its worker with that PUT.
LEMMA PutPair ==
  ASSUME NEW cs \in Seq(Call), NEW c \in 1..Len(cs), NEW j \in 1..(ChunkCount + 1), NEW x,
         cs[c].value \notin LargeValues => j = ChunkCount + 1,
         NEW g, g = [at |-> "put", call |-> c, left |-> Left(j)],
         NEW w, w = [at |-> "put", id |-> x, key |-> Put(cs[c].key, cs[c].value, Idx(j)).at,
                     data |-> Put(cs[c].key, cs[c].value, Idx(j)).data]
  PROVE  PairOK(cs, g, w)
  <1>1. Idx(j) \in 0..ChunkCount /\ (Idx(j) = 0 \/ cs[c].value \in LargeValues)
    BY KvServiceAssumption, SMTT(30) DEF Idx
  <1>2. PutBy(cs, w.key, w.data) BY <1>1 DEF PutBy
  <1>3. IsPut(w) BY DEF IsPut
  <1>4. PutAt(cs, g, j) BY DEF PutAt
  <1>5. WorkerOK(cs, w) BY <1>2, <1>3 DEF WorkerOK
  <1>6. ClientOK(cs, g, w) BY <1>4 DEF ClientOK
  <1> QED BY <1>5, <1>6 DEF PairOK, Whole

\* A client that is in no call, and a worker without a request.
LEMMA IdlePair ==
  ASSUME NEW cs, NEW g, NEW w, g.at \notin {"put", "get", "got"},
         w.at \notin {"put", "local", "object", "get", "fill"}
  PROVE  PairOK(cs, g, w)
  BY DEF PairOK, WorkerOK, ClientOK, Whole

\* A client's PUT begins.
LEMMA PutKvWhole ==
  ASSUME WholeInv, NEW e \in Engines, PutKv(e)
  PROVE  WholeInv'
  <1>1. PICK k \in KvKeys, v \in mode.values : calls' = Append(calls, [key |-> k, value |-> v])
    BY DEF PutKv
  <1>2. v \in KvValues /\ calls \in Seq(Call)
    BY KvServiceAssumption DEF WholeInv, KvType
  <1> DEFINE c == Len(calls) + 1
  <1>3. /\ calls' \in Seq(Call) /\ Grows(calls, calls') /\ c \in 1..Len(calls')
        /\ calls'[c].key = k /\ calls'[c].value = v
    <2>1. [key |-> k, value |-> v] \in Call BY <1>2 DEF Call
    <2> DEFINE x == [key |-> k, value |-> v]
    <2>2. x \in Call /\ x.key = k /\ x.value = v BY <2>1
    <2> HIDE DEF x
    <2>3. calls' = Append(calls, x) BY <1>1 DEF x
    <2> QED BY <1>2, <2>2, <2>3, SMTT(30) DEF Grows
  <1> DEFINE j == IF v \in LargeValues THEN 1 ELSE ChunkCount + 1
             g == [at |-> "put", call |-> c, left |-> Left(j)]
             w == [at |-> "put", id |-> <<c, Idx(j)>>, key |-> Put(calls'[c].key, calls'[c].value, Idx(j)).at,
                   data |-> Put(calls'[c].key, calls'[c].value, Idx(j)).data]
  <1>4. j \in 1..(ChunkCount + 1) /\ (v \notin LargeValues => j = ChunkCount + 1)
    BY KvServiceAssumption, SMTT(30)
  <1>5. PutOrder(v) = Left(j) /\ Head(Left(j)) = Idx(j)
    BY <1>4, LeftFacts
  <1>6. SetEngine(e, g) /\ SetWorker(e, w) /\ UNCHANGED <<mode, tiers, threads>>
    <2>1. SendPut(e, c, PutOrder(calls'[c].value)) /\ UNCHANGED <<mode, tiers, threads>> BY DEF PutKv
    <2>2. SendPut(e, c, Left(j)) BY <1>3, <1>5, <2>1
    <2> HIDE DEF c, j
    <2> QED BY <1>5, <2>1, <2>2 DEF SendPut, Request
  <1>7. PairOK(calls', g, w)
    <2> HIDE DEF j, c
    <2> QED BY <1>3, <1>4, PutPair DEF c
  <1> HIDE DEF g, w
  <1> QED BY <1>3, <1>6, <1>7, PairSet

\* A client reads the answer to a PUT and sends the next part.
LEMMA PutReplyWhole ==
  ASSUME WholeInv, NEW e \in Engines, PutReply(e)
  PROVE  WholeInv'
  <1> DEFINE g == engine[e]
             c == g.call
             rest == Tail(g.left)
  <1>1. g.at = "put" /\ UNCHANGED <<mode, tiers, threads, calls>> /\ calls \in Seq(Call)
    BY DEF PutReply, history, WholeInv, KvType
  <1>2. PICK j \in 1..(ChunkCount + 1) : PutAt(calls, g, j)
    BY <1>1 DEF WholeInv, PairOK, ClientOK
  <1>3. /\ c \in 1..Len(calls) /\ g.left = Left(j) /\ g = [at |-> "put", call |-> c, left |-> Left(j)]
        /\ calls[c].value \notin LargeValues => j = ChunkCount + 1
    BY <1>2, SMTT(30) DEF PutAt
  <1>4. CASE worker[e].status = "OK" /\ rest # <<>>
    <2>1. j \in 1..ChunkCount
      BY <1>3, <1>4, LeftFacts, KvServiceAssumption, SMTT(30)
    <2>2. rest = Left(j + 1) /\ Head(rest) = Idx(j + 1) /\ j + 1 \in 1..(ChunkCount + 1)
      <3>1. j + 1 \in 1..(ChunkCount + 1) BY <2>1, KvServiceAssumption, SMTT(30)
      <3> QED BY <1>3, <2>1, <3>1, LeftFacts
    <2> DEFINE h == [at |-> "put", call |-> c, left |-> Left(j + 1)]
               w == [at |-> "put", id |-> <<c, Idx(j + 1)>>,
                     key |-> Put(calls[c].key, calls[c].value, Idx(j + 1)).at,
                     data |-> Put(calls[c].key, calls[c].value, Idx(j + 1)).data]
    <2>3. [g EXCEPT !.left = rest] = h
      <3> HIDE DEF rest, c
      <3> QED BY <1>3, <2>2, SMTT(30)
    <2>4. SetEngine(e, h) /\ SetWorker(e, w)
      BY <1>4, <2>2, <2>3 DEF PutReply
    <2>5. calls[c].value \in LargeValues BY <1>3, <2>1, KvServiceAssumption, SMTT(30)
    <2>6. PairOK(calls', h, w)
      <3> HIDE DEF c
      <3> QED BY <1>1, <1>3, <2>2, <2>5, PutPair DEF c
    <2> HIDE DEF h, w
    <2> QED BY <1>1, <2>4, <2>6, SameCalls, PairSet
  <1>5. CASE ~(worker[e].status = "OK" /\ rest # <<>>)
    <2>1. SetEngine(e, Idle) /\ SetWorker(e, Idle) BY <1>5 DEF PutReply
    <2>2. PairOK(calls', Idle, Idle) BY IdlePair DEF Idle
    <2> QED BY <1>1, <2>1, <2>2, SameCalls, PairSet
  <1> QED BY <1>4, <1>5

\* A client's GET begins.
LEMMA GetKvWhole ==
  ASSUME WholeInv, NEW e \in Engines, GetKv(e)
  PROVE  WholeInv'
  <1>1. UNCHANGED <<mode, tiers, threads, calls>> /\ calls \in Seq(Call)
    BY DEF GetKv, history, WholeInv, KvType
  <1>2. PICK k \in KvKeys :
          /\ SetEngine(e, [at |-> "get", key |-> k, parts |-> <<>>, want |-> 0, id |-> None])
          /\ SetWorker(e, [at |-> "get", key |-> <<k>>])
    BY DEF GetKv, Request
  <1> DEFINE g == [at |-> "get", key |-> k, parts |-> <<>>, want |-> 0, id |-> None]
             w == [at |-> "get", key |-> <<k>>]
  <1>3. <<k>> \in StoreKeys BY SMTT(30) DEF StoreKeys
  <1>4. GetAt(calls, g) /\ Asked(g) = <<k>> BY DEF GetAt, Asked
  <1>5. PairOK(calls', g, w)
    BY <1>1, <1>3, <1>4 DEF PairOK, WorkerOK, ClientOK, Whole
  <1> HIDE DEF g, w
  <1>6. SetEngine(e, g) /\ SetWorker(e, w) BY <1>2 DEF g, w
  <1> QED BY <1>1, <1>5, <1>6, SameCalls, PairSet

\* A client that has got q chunks asks for the next one.
LEMMA ChunkPair ==
  ASSUME NEW cs \in Seq(Call), NEW c \in 1..Len(cs), NEW q \in 0..(ChunkCount - 1),
         cs[c].value \in LargeValues,
         NEW g, g = [at |-> "get", key |-> cs[c].key, parts |-> ChunksOf(cs[c].value, q),
                     want |-> ChunkCount, id |-> <<cs[c].key, cs[c].value>>],
         NEW w, w = [at |-> "get", key |-> LargeChunkKey(<<cs[c].key, cs[c].value>>, q + 1)]
  PROVE  PairOK(cs, g, w)
  <1> ChunkCount \in Nat \ {0} BY KvServiceAssumption
  <1>1. cs[c].key \in KvKeys /\ q + 1 \in 1..ChunkCount /\ q \in Nat BY CallFacts, SMTT(30)
  <1>2. GetAt(cs, g) BY <1>1 DEF GetAt, LargePayloadId
  <1>3. Asked(g) = w.key
    BY <1>1, ChunksOfFacts DEF Asked
  <1>4. w.key \in StoreKeys
    BY <1>1, SMTT(30) DEF StoreKeys, LargePayloadId
  <1> QED BY <1>2, <1>3, <1>4 DEF PairOK, WorkerOK, ClientOK, Whole

\* The fields of the requests of get_kv.
LEMMA MoveGet ==
  ASSUME NEW g, g = [at |-> "get", key |-> g.key, parts |-> g.parts, want |-> g.want, id |-> g.id],
         NEW x, NEW y
  PROVE  /\ [g EXCEPT !.want = x, !.id = y]
              = [at |-> "get", key |-> g.key, parts |-> g.parts, want |-> x, id |-> y]
         /\ [g EXCEPT !.parts = x]
              = [at |-> "get", key |-> g.key, parts |-> x, want |-> g.want, id |-> g.id]
  <1>1. [g EXCEPT !.parts = x] = [at |-> "get", key |-> g.key, parts |-> x, want |-> g.want, id |-> g.id]
    BY SMTT(30)
  <1> DEFINE h == [g EXCEPT !.want = x]
  <1>2. h = [at |-> "get", key |-> g.key, parts |-> g.parts, want |-> x, id |-> g.id]
    BY SMTT(30)
  <1>3. [h EXCEPT !.id = y] = [at |-> "get", key |-> g.key, parts |-> g.parts, want |-> x, id |-> y]
    <2> HIDE DEF h
    <2> QED BY <1>2, SMTT(30)
  <1> QED BY <1>1, <1>3

\* A client reads a part: a value, or the manifest and then its chunks.
LEMMA GetReplyWhole ==
  ASSUME WholeInv, NEW e \in Engines, GetReply(e)
  PROVE  WholeInv'
  <1> ChunkCount \in Nat \ {0} BY KvServiceAssumption
  <1> DEFINE g == engine[e]
             r == worker[e]
             parts == Append(g.parts, r.data)
  <1>1. /\ g.at = "get" /\ r.at = "reply" /\ UNCHANGED <<mode, tiers, threads, calls>>
        /\ calls \in Seq(Call) /\ PairOK(calls, g, r)
    BY DEF GetReply, history, WholeInv, KvType
  <1>2. GetAt(calls, g) /\ (r.status = "OK" => PutBy(calls, Asked(g), r.data))
    BY <1>1 DEF PairOK, ClientOK
  <1>3. g.key \in KvKeys
        /\ g = [at |-> "get", key |-> g.key, parts |-> g.parts, want |-> g.want, id |-> g.id]
    BY <1>2 DEF GetAt
  <1>4. CASE r.status # "OK"
    <2>1. SetEngine(e, Idle) /\ SetWorker(e, Idle) BY <1>4 DEF GetReply
    <2>2. PairOK(calls', Idle, Idle) BY IdlePair DEF Idle
    <2> QED BY <1>1, <2>1, <2>2, SameCalls, PairSet
  <1>5. CASE r.status = "OK" /\ g.want = 0
    <2>1. g.parts = <<>> /\ Asked(g) = <<g.key>> BY <1>2, <1>5 DEF GetAt, Asked
    <2>0. FromCall(calls, g.key, r.data)
      <3>1. PutBy(calls, <<g.key>>, r.data) BY <1>2, <1>5, <2>1
      <3>2. calls \in Seq(Call) /\ g.key \in KvKeys BY <1>1, <1>3
      <3> HIDE DEF g, r
      <3> QED BY <3>1, <3>2, PutByKey
    <2>2. PICK c \in 1..Len(calls) :
             calls[c].key = g.key /\ r.data = IF calls[c].value \in LargeValues
                                 THEN <<"manifest", <<g.key, calls[c].value>>, ChunkCount>>
                                 ELSE <<"whole", calls[c].value, 0>>
      BY <2>0 DEF FromCall
    <2>3. CASE calls[c].value \in LargeValues
      <3>1. ParseLargeManifest(r.data) /\ r.data[3] = ChunkCount /\ r.data[2] = <<g.key, calls[c].value>>
        BY <2>2, <2>3, SMTT(30) DEF ParseLargeManifest
      <3>2. /\ SetEngine(e, [g EXCEPT !.want = r.data[3], !.id = r.data[2]])
            /\ SetWorker(e, [at |-> "get", key |-> LargeChunkKey(r.data[2], 1)])
        BY <1>5, <3>1, SMTT(30) DEF GetReply
      <3> DEFINE h == [at |-> "get", key |-> calls[c].key, parts |-> ChunksOf(calls[c].value, 0),
                       want |-> ChunkCount, id |-> <<calls[c].key, calls[c].value>>]
                 w == [at |-> "get", key |-> LargeChunkKey(<<calls[c].key, calls[c].value>>, 0 + 1)]
      <3>3. [g EXCEPT !.want = r.data[3], !.id = r.data[2]] = h
        <4>1. [g EXCEPT !.want = r.data[3], !.id = r.data[2]] =
                [at |-> "get", key |-> g.key, parts |-> g.parts, want |-> r.data[3], id |-> r.data[2]]
          <5> HIDE DEF g, r
          <5> QED BY <1>3, MoveGet
        <4>2. ChunksOf(calls[c].value, 0) = <<>> BY ChunksOfFacts
        <4> QED BY <2>1, <2>2, <3>1, <4>1, <4>2
      <3>4. SetEngine(e, h) /\ SetWorker(e, w)
        BY <2>2, <3>1, <3>2, <3>3, SMTT(30)
      <3>5. PairOK(calls', h, w)
        <4>1. 0 \in 0..(ChunkCount - 1) BY SMTT(30)
        <4> QED BY <1>1, <2>3, <4>1, ChunkPair
      <3> HIDE DEF h, w
      <3> QED BY <1>1, <3>4, <3>5, SameCalls, PairSet
    <2>4. CASE calls[c].value \notin LargeValues
      <3>1. r.data = <<"whole", calls[c].value, 0>> /\ ~ParseLargeManifest(r.data)
        BY <2>2, <2>4, SMTT(30) DEF ParseLargeManifest
      <3>2. parts = << r.data >> /\ ~(Len(parts) < g.want)
        BY <1>5, <2>1, SMTT(30)
      <3>3. /\ SetEngine(e, [at |-> "got", key |-> g.key, parts |-> parts])
            /\ SetWorker(e, Idle)
        BY <1>5, <3>1, <3>2 DEF GetReply
      <3> DEFINE h == [at |-> "got", key |-> g.key, parts |-> parts]
      <3>4. PairOK(calls', h, Idle)
        BY <1>1, <2>2, <2>4, <3>1, <3>2 DEF PairOK, WorkerOK, ClientOK, Whole, Idle
      <3> HIDE DEF h
      <3>5. SetEngine(e, h) BY <3>3 DEF h
      <3> QED BY <1>1, <3>3, <3>4, <3>5, SameCalls, PairSet
    <2> QED BY <2>3, <2>4
  <1>6. CASE r.status = "OK" /\ g.want # 0
    <2>1. PICK c \in 1..Len(calls), q \in 0..(ChunkCount - 1) :
                /\ calls[c].key = g.key /\ calls[c].value \in LargeValues
                /\ g.id = <<g.key, calls[c].value>>
                /\ g.parts = ChunksOf(calls[c].value, q)
      BY <1>2, <1>6 DEF GetAt, LargePayloadId
    <2>2. g.want = ChunkCount /\ q \in Nat /\ q + 1 \in Nat /\ Len(g.parts) = q
      <3>1. g.want = ChunkCount BY <1>2, <1>6 DEF GetAt
      <3>2. q \in Nat /\ q + 1 \in Nat BY SMTT(30)
      <3>3. Len(ChunksOf(calls[c].value, q)) = q BY <3>2, ChunksOfFacts
      <3> QED BY <2>1, <3>1, <3>2, <3>3
    <2>3. Asked(g) = <<(<<g.key, calls[c].value>>), q + 1>>
      BY <1>6, <2>1, <2>2 DEF Asked, LargeChunkKey
    <2>4. r.data = <<"chunk", calls[c].value, q + 1>>
      BY <1>1, <1>2, <1>6, <2>2, <2>3, PutByChunk, SMTT(30)
    <2>5. parts = ChunksOf(calls[c].value, q + 1) /\ Len(parts) = q + 1
      <3>1. /\ Append(ChunksOf(calls[c].value, q), <<"chunk", calls[c].value, q + 1>>)
                 = ChunksOf(calls[c].value, q + 1)
            /\ Len(ChunksOf(calls[c].value, q + 1)) = q + 1
        BY <2>2, ChunksOfFacts
      <3> QED BY <2>1, <2>4, <3>1
    <2>6. CASE Len(parts) < g.want
      <3>1. /\ SetEngine(e, [g EXCEPT !.parts = parts])
            /\ SetWorker(e, [at |-> "get", key |-> LargeChunkKey(g.id, Len(parts) + 1)])
        BY <1>6, <2>6 DEF GetReply
      <3> DEFINE h == [at |-> "get", key |-> calls[c].key, parts |-> ChunksOf(calls[c].value, q + 1),
                       want |-> ChunkCount, id |-> <<calls[c].key, calls[c].value>>]
                 w == [at |-> "get", key |-> LargeChunkKey(<<calls[c].key, calls[c].value>>, (q + 1) + 1)]
      <3>2. [g EXCEPT !.parts = parts] =
              [at |-> "get", key |-> g.key, parts |-> parts, want |-> g.want, id |-> g.id]
        <4> HIDE DEF g, parts
        <4> QED BY <1>3, MoveGet
      <3>3. SetEngine(e, h) /\ SetWorker(e, w)
        BY <2>1, <2>2, <2>5, <3>1, <3>2
      <3>4. q + 1 \in 0..(ChunkCount - 1) BY <2>2, <2>5, <2>6, SMTT(30)
      <3>5. PairOK(calls', h, w)
        BY <1>1, <2>1, <3>4, ChunkPair
      <3> HIDE DEF h, w
      <3> QED BY <1>1, <3>3, <3>5, SameCalls, PairSet
    <2>7. CASE ~(Len(parts) < g.want)
      <3>1. /\ SetEngine(e, [at |-> "got", key |-> g.key, parts |-> parts])
            /\ SetWorker(e, Idle)
        BY <1>6, <2>7 DEF GetReply
      <3>2. q + 1 = ChunkCount BY <2>2, <2>5, <2>7, SMTT(30)
      <3> DEFINE h == [at |-> "got", key |-> g.key, parts |-> parts]
      <3>3. PairOK(calls', h, Idle)
        <4>1. Whole(calls, h) BY <2>1, <2>5, <3>2 DEF Whole
        <4> QED BY <1>1, <4>1 DEF PairOK, WorkerOK, ClientOK, Idle
      <3> HIDE DEF h
      <3>4. SetEngine(e, h) BY <3>1 DEF h
      <3> QED BY <1>1, <3>1, <3>3, <3>4, SameCalls, PairSet
    <2> QED BY <2>6, <2>7
  <1> QED BY <1>4, <1>5, <1>6

\* A client that dies, attaches again or loses its worker.
LEMMA LeaveWhole ==
  ASSUME WholeInv, NEW e \in Engines, Timeout(e) \/ Reattach(e) \/ WorkerExit(e)
  PROVE  WholeInv'
  <1>1. UNCHANGED <<mode, tiers, threads, calls>> /\ calls \in Seq(Call)
    BY DEF Timeout, Reattach, WorkerExit, history, WholeInv, KvType
  <1>2. CASE Timeout(e)
    <2> DEFINE g == [at |-> "dead"]
    <2>1. SetEngine(e, g) /\ SetWorker(e, worker[e])
      BY <1>2 DEF Timeout, SetWorker, WholeInv, KvType
    <2>2. PairOK(calls', g, worker[e])
      BY <1>1 DEF WholeInv, PairOK, ClientOK, Whole
    <2> HIDE DEF g
    <2> QED BY <1>1, <2>1, <2>2, SameCalls, PairSet
  <1>3. CASE Reattach(e)
    <2>1. SetEngine(e, Idle) /\ SetWorker(e, Idle) BY <1>3 DEF Reattach
    <2>2. PairOK(calls', Idle, Idle) BY IdlePair DEF Idle
    <2> QED BY <1>1, <2>1, <2>2, SameCalls, PairSet
  <1>4. CASE WorkerExit(e)
    <2> DEFINE g == [at |-> "dead"]
               w == [at |-> "gone"]
    <2>1. SetEngine(e, g) /\ SetWorker(e, w) BY <1>4 DEF WorkerExit
    <2>2. PairOK(calls', g, w) BY IdlePair
    <2> HIDE DEF g, w
    <2> QED BY <1>1, <2>1, <2>2, SameCalls, PairSet
  <1> QED BY <1>2, <1>3, <1>4

\* A tier keeps what calls put there when what a call put is written to it.
TierOK(cs, tier) ==
    tier = [k \in StoreKeys |-> tier[k]] /\ \A k \in StoreKeys : tier[k] # None => PutBy(cs, k, tier[k])

\* A tier that loses an object, or gains one that a call put, is still right.
LEMMA TierWrite ==
  ASSUME NEW cs, NEW tier, NEW tier1, TierOK(cs, tier), NEW key, NEW d,
         d = None \/ PutBy(cs, key, d), tier1 = [tier EXCEPT ![key] = d]
  PROVE  TierOK(cs, tier1)
  BY DEF TierOK

\* A step of a worker that leaves the clients alone.
LEMMA WorkerStep ==
  ASSUME WholeInv, NEW e \in Engines, NEW w, SetWorker(e, w), UNCHANGED <<mode, engine, calls>>,
         TierOK(calls, cache'), TierOK(calls, s3'),
         \A t \in threads' : t \in threads \/
            (IsPut(t) /\ t.at \in {"queued", "object"} /\ PutBy(calls, t.key, t.data)),
         WorkerOK(calls, w), ClientOK(calls, engine[e], w)
  PROVE  WholeInv'
  <1>1. /\ worker' = [u \in Engines |-> worker'[u]] /\ worker'[e] = w
        /\ engine' = [u \in Engines |-> engine'[u]]
        /\ \A u \in Engines \ {e} : engine'[u] = engine[u] /\ worker'[u] = worker[u]
        /\ calls' \in Seq(Call) /\ Grows(calls, calls')
    BY SameCalls DEF WholeInv, KvType, SetWorker
  <1>2. StoredByCall' BY DEF WholeInv, StoredByCall, TierOK
  <1>3. PairOK(calls', engine'[e], worker'[e])
    BY <1>1 DEF WholeInv, PairOK
  <1>4. cache' = [k \in StoreKeys |-> cache'[k]] /\ s3' = [k \in StoreKeys |-> s3'[k]]
    BY DEF TierOK
  <1> QED BY <1>1, <1>2, <1>3, <1>4, PairStep

\* Both tiers hold only what calls put.
LEMMA TiersOK ==
  ASSUME WholeInv
  PROVE  TierOK(calls, cache) /\ TierOK(calls, s3)
  BY DEF WholeInv, KvType, StoredByCall, TierOK

\* The local write keeps both tiers right.
LEMMA PutLocalTiers ==
  ASSUME WholeInv, NEW key, NEW d, PutBy(calls, key, d), PutLocal(key, d)
  PROVE  TierOK(calls, cache') /\ TierOK(calls, s3')
  <1>1. UNCHANGED s3 /\ (cache' = [cache EXCEPT ![key] = d] \/ UNCHANGED cache)
    BY DEF PutLocal
  <1>2. CASE UNCHANGED cache BY <1>1, <1>2, TiersOK
  <1>3. CASE cache' = [cache EXCEPT ![key] = d]
    BY <1>1, <1>3, TiersOK, TierWrite
  <1> QED BY <1>1, <1>2, <1>3

\* So does the write of the object.
LEMMA PutObjectTiers ==
  ASSUME WholeInv, NEW key, NEW d, PutBy(calls, key, d), PutObjectOk(key, d) \/ PutObjectErr,
         UNCHANGED cache
  PROVE  TierOK(calls, cache') /\ TierOK(calls, s3')
  <1>1. s3' = [s3 EXCEPT ![key] = d] \/ UNCHANGED s3
    BY DEF PutObjectOk, PutObjectErr
  <1>2. CASE UNCHANGED s3 BY <1>2, TiersOK
  <1>3. CASE s3' = [s3 EXCEPT ![key] = d]
    BY <1>3, TiersOK, TierWrite
  <1> QED BY <1>1, <1>2, <1>3

\* An asynchronous PUT is handed to a thread.
LEMMA SpawnPutWhole ==
  ASSUME WholeInv, NEW e \in Engines, SpawnPut(e)
  PROVE  WholeInv'
  <1>1. /\ worker[e].at = "put" /\ UNCHANGED <<mode, engine, calls, tiers>>
        /\ PairOK(calls, engine[e], worker[e])
    BY DEF SpawnPut, WholeInv
  <1>2. IsPut(worker[e]) /\ PutBy(calls, worker[e].key, worker[e].data) /\ engine[e].at # "get"
    BY <1>1 DEF PairOK, WorkerOK, ClientOK
  <1>3. TierOK(calls, cache') /\ TierOK(calls, s3') BY <1>1, TiersOK DEF tiers
  <1> DEFINE w == worker[e]
             t == [at |-> "queued", id |-> w.id, key |-> w.key, data |-> w.data]
             l == [at |-> "local", id |-> w.id, key |-> w.key, data |-> w.data]
  <1>4. [w EXCEPT !.at = "queued"] = t /\ [w EXCEPT !.at = "local"] = l
    <2> HIDE DEF w
    <2>1. IsPut(w) BY <1>2 DEF w
    <2> QED BY <2>1, MovePut
  <1>5. CASE threads' = threads \cup {t} /\ SetWorker(e, Reply("OK", None))
    <2>1. IsPut(t) /\ t.at \in {"queued", "object"} /\ PutBy(calls, t.key, t.data)
      BY <1>2 DEF IsPut
    <2>2. WorkerOK(calls, Reply("OK", None)) /\ ClientOK(calls, engine[e], Reply("OK", None))
      BY <1>1, <1>2 DEF PairOK, WorkerOK, ClientOK, Reply
    <2> HIDE DEF t
    <2> QED BY <1>1, <1>3, <1>5, <2>1, <2>2, WorkerStep
  <1>6. CASE threads' = threads /\ SetWorker(e, l)
    <2>1. WorkerOK(calls, l) /\ ClientOK(calls, engine[e], l)
      BY <1>1, <1>2 DEF PairOK, WorkerOK, ClientOK, IsPut
    <2> HIDE DEF l
    <2> QED BY <1>1, <1>3, <1>6, <2>1, WorkerStep
  <1> QED BY <1>4, <1>5, <1>6 DEF SpawnPut

\* The steps of a synchronous PUT.
LEMMA SyncPutWhole ==
  ASSUME WholeInv, NEW e \in Engines, SyncPut(e), UNCHANGED <<mode, engine, threads, calls>>
  PROVE  WholeInv'
  <1> DEFINE w == worker[e]
             o == [at |-> "object", id |-> w.id, key |-> w.key, data |-> w.data]
  <1>1. w.at \in {"put", "local", "object"} /\ PairOK(calls, engine[e], w)
    BY DEF SyncPut, WholeInv
  <1>2. IsPut(w) /\ PutBy(calls, w.key, w.data) /\ engine[e].at # "get"
    BY <1>1 DEF PairOK, WorkerOK, ClientOK
  <1>3. CASE PutLocal(w.key, w.data) /\ SetWorker(e, [w EXCEPT !.at = "object"])
    <2>1. [w EXCEPT !.at = "object"] = o
      <3> HIDE DEF w
      <3> QED BY <1>2, MovePut
    <2>2. WorkerOK(calls, o) /\ ClientOK(calls, engine[e], o)
      BY <1>1, <1>2 DEF PairOK, WorkerOK, ClientOK, IsPut
    <2>3. TierOK(calls, cache') /\ TierOK(calls, s3')
      BY <1>2, <1>3, PutLocalTiers
    <2>4. SetWorker(e, o) BY <1>3, <2>1
    <2> HIDE DEF o
    <2> QED BY <2>2, <2>3, <2>4, WorkerStep
  <1>4. ASSUME NEW status, PutObjectOk(w.key, w.data) \/ PutObjectErr, UNCHANGED cache,
               SetWorker(e, Reply(status, None))
        PROVE  WholeInv'
    <2>1. TierOK(calls, cache') /\ TierOK(calls, s3')
      BY <1>2, <1>4, PutObjectTiers
    <2>2. WorkerOK(calls, Reply(status, None)) /\ ClientOK(calls, engine[e], Reply(status, None))
      BY <1>1, <1>2 DEF PairOK, WorkerOK, ClientOK, Reply
    <2> QED BY <1>4, <2>1, <2>2, WorkerStep
  <1> QED BY <1>3, <1>4 DEF SyncPut

\* The steps of a GET in the daemon.
LEMMA ServeGetWhole ==
  ASSUME WholeInv, NEW e \in Engines, ServeGet(e), UNCHANGED <<mode, s3, engine, threads, calls>>
  PROVE  WholeInv'
  <1> DEFINE w == worker[e]
             g == engine[e]
  <1>1. w.at \in {"get", "fill"} /\ PairOK(calls, g, w)
    BY DEF ServeGet, WholeInv
  <1>2. /\ g.at # "put" /\ (w.at = "fill" => PutBy(calls, w.key, w.data)) /\ w.key \in StoreKeys
        /\ g.at = "get" => GetAt(calls, g) /\ w.key = Asked(g)
    <2>1. calls \in Seq(Call) BY DEF WholeInv, KvType
    <2> QED BY <1>1, <2>1, PutByFacts DEF PairOK, WorkerOK, ClientOK
  <1>3. ASSUME NEW d, PutBy(calls, w.key, d)
        PROVE  WorkerOK(calls, Reply("OK", d)) /\ ClientOK(calls, g, Reply("OK", d))
    BY <1>2, <1>3 DEF WorkerOK, ClientOK, Reply
  <1>4. ASSUME NEW status \in {"MISS", "ERROR"}
        PROVE  WorkerOK(calls, Reply(status, None)) /\ ClientOK(calls, g, Reply(status, None))
    BY <1>2 DEF WorkerOK, ClientOK, Reply
  <1>5. CASE cache[w.key] # None /\ SetWorker(e, Reply("OK", cache[w.key])) /\ UNCHANGED cache
    <2>1. PutBy(calls, w.key, cache[w.key]) BY <1>2, <1>5 DEF WholeInv, StoredByCall
    <2>2. WorkerOK(calls, Reply("OK", cache[w.key])) /\ ClientOK(calls, g, Reply("OK", cache[w.key]))
      BY <1>3, <2>1
    <2> QED BY <1>5, <2>2, TiersOK, WorkerStep
  <1>6. ASSUME NEW status \in {"MISS", "ERROR"}, SetWorker(e, Reply(status, None)), UNCHANGED cache
        PROVE  WholeInv'
    BY <1>4, <1>6, TiersOK, WorkerStep
  <1>7. CASE /\ s3[w.key] # None /\ UNCHANGED cache
             /\ SetWorker(e, [at |-> "fill", key |-> w.key, data |-> s3[w.key]])
    <2> DEFINE f == [at |-> "fill", key |-> w.key, data |-> s3[w.key]]
    <2>1. PutBy(calls, w.key, s3[w.key]) BY <1>2, <1>7 DEF WholeInv, StoredByCall
    <2>2. WorkerOK(calls, f) /\ ClientOK(calls, g, f)
      BY <1>2, <2>1 DEF WorkerOK, ClientOK
    <2> HIDE DEF f
    <2>3. SetWorker(e, f) BY <1>7 DEF f
    <2> QED BY <1>7, <2>2, <2>3, TiersOK, WorkerStep
  <1>8. CASE w.at = "fill" /\ cache' = [cache EXCEPT ![w.key] = w.data] /\ SetWorker(e, Reply("OK", w.data))
    <2>1. WorkerOK(calls, Reply("OK", w.data)) /\ ClientOK(calls, g, Reply("OK", w.data))
      BY <1>2, <1>3, <1>8
    <2>2. TierOK(calls, cache') BY <1>2, <1>8, TiersOK, TierWrite
    <2> QED BY <1>8, <2>1, <2>2, TiersOK, WorkerStep
  <1> QED BY <1>5, <1>6, <1>7, <1>8 DEF ServeGet

\* The steps that belong to no client: threads, lost entries, crash and shutdown.
LEMMA OtherWhole ==
  ASSUME WholeInv, UNCHANGED <<mode, calls>>, TierOK(calls, cache'), TierOK(calls, s3'),
         \A t \in threads' : t \in threads \/
            (IsPut(t) /\ t.at \in {"queued", "object"} /\ PutBy(calls, t.key, t.data)),
         engine' = [u \in Engines |-> engine'[u]], worker' = [u \in Engines |-> worker'[u]],
         \A u \in Engines : PairOK(calls, engine'[u], worker'[u])
  PROVE  WholeInv'
  <1>1. KvType' BY DEF WholeInv, KvType, TierOK
  <1>2. StoredByCall' BY DEF WholeInv, StoredByCall, TierOK
  <1> QED BY <1>1, <1>2 DEF WholeInv

\* The steps of an upload thread.
LEMMA RunThreadWhole ==
  ASSUME WholeInv, NEW t \in threads, RunThread(t)
  PROVE  WholeInv'
  <1>1. IsPut(t) /\ PutBy(calls, t.key, t.data) BY DEF WholeInv, StoredByCall
  <1>2. UNCHANGED <<mode, engine, worker, calls>> BY DEF RunThread
  <1>3. /\ engine' = [u \in Engines |-> engine'[u]] /\ worker' = [u \in Engines |-> worker'[u]]
        /\ \A u \in Engines : PairOK(calls, engine'[u], worker'[u])
    BY <1>2 DEF WholeInv, KvType
  <1>4. CASE PutLocal(t.key, t.data) /\ threads' = (threads \ {t}) \cup {[t EXCEPT !.at = "object"]}
    <2> DEFINE o == [at |-> "object", id |-> t.id, key |-> t.key, data |-> t.data]
    <2>1. [t EXCEPT !.at = "object"] = o BY <1>1, MovePut
    <2>2. IsPut(o) /\ o.at \in {"queued", "object"} /\ PutBy(calls, o.key, o.data)
      BY <1>1 DEF IsPut
    <2>3. TierOK(calls, cache') /\ TierOK(calls, s3') BY <1>1, <1>4, PutLocalTiers
    <2> HIDE DEF o
    <2> QED BY <1>2, <1>3, <1>4, <2>1, <2>2, <2>3, OtherWhole
  <1>5. CASE (PutObjectOk(t.key, t.data) \/ PutObjectErr) /\ threads' = threads \ {t} /\ UNCHANGED cache
    <2>1. TierOK(calls, cache') /\ TierOK(calls, s3') BY <1>1, <1>5, PutObjectTiers
    <2> QED BY <1>2, <1>3, <1>5, <2>1, OtherWhole
  <1> QED BY <1>4, <1>5 DEF RunThread

\* Eviction, crash, signal, drain and exit.
LEMMA ProcessWhole ==
  ASSUME WholeInv, (\E k \in StoreKeys : Forget(k)) \/ KvCrash \/ Signal \/ Drain \/ ExitRemote
                   \/ UNCHANGED kvVars
  PROVE  WholeInv'
  <1>1. UNCHANGED <<mode, s3, calls>> /\ threads' \subseteq threads
    BY DEF Forget, KvCrash, Signal, Drain, ExitRemote, kvVars, tiers, history
  <1>2. TierOK(calls, cache')
    <2>1. UNCHANGED cache \/ \E k \in StoreKeys : cache' = [cache EXCEPT ![k] = None]
      BY DEF Forget, KvCrash, Signal, Drain, ExitRemote, kvVars, tiers
    <2> QED BY <2>1, TiersOK, TierWrite
  <1>3. engine' = [u \in Engines |-> engine'[u]] /\ worker' = [u \in Engines |-> worker'[u]]
    <2>1. CASE (\E k \in StoreKeys : Forget(k)) \/ Signal \/ Drain \/ UNCHANGED kvVars
      BY <2>1 DEF Forget, Signal, Drain, kvVars, WholeInv, KvType
    <2>2. CASE KvCrash \/ ExitRemote BY <2>2 DEF KvCrash, ExitRemote
    <2> QED BY <2>1, <2>2
  <1>4. ASSUME NEW u \in Engines PROVE PairOK(calls, engine'[u], worker'[u])
    <2>0. PairOK(calls, engine[u], worker[u]) BY DEF WholeInv
    <2>1. CASE (\E k \in StoreKeys : Forget(k)) \/ Signal \/ Drain \/ UNCHANGED kvVars
      BY <2>0, <2>1 DEF Forget, Signal, Drain, kvVars
    <2>2. CASE ExitRemote
      <3>1. engine'[u].at = "dead" /\ worker'[u].at = "gone" BY <2>2 DEF ExitRemote
      <3> QED BY <3>1, IdlePair
    <2>3. CASE KvCrash
      <3>1. /\ worker'[u].at = "idle" /\ engine'[u].at \notin {"put", "get"}
            /\ engine'[u].at = "got" => engine'[u] = engine[u]
        BY <2>3 DEF KvCrash, Idle
      <3> QED BY <2>0, <3>1 DEF PairOK, WorkerOK, ClientOK, Whole
    <2> QED BY <2>1, <2>2, <2>3
  <1> QED BY <1>1, <1>2, <1>3, <1>4, TiersOK, OtherWhole

\* WholeInv is inductive.
LEMMA WholeInductive == (KvInit => WholeInv) /\ (WholeInv /\ [KvNext]_kvVars => WholeInv')
  <1>1. ASSUME KvInit PROVE WholeInv
    <2> USE <1>1
    <2>1. KvType BY SMTT(30) DEF KvInit, KvType
    <2>2. StoredByCall BY DEF KvInit, StoredByCall
    <2>3. \A e \in Engines : PairOK(calls, engine[e], worker[e])
      BY IdlePair DEF KvInit, Idle
    <2> QED BY <2>1, <2>2, <2>3 DEF WholeInv
  <1>2. ASSUME WholeInv, [KvNext]_kvVars PROVE WholeInv'
    <2> USE <1>2
    <2>1. ASSUME NEW e \in Engines, Serve(e) PROVE WholeInv'
      BY <2>1, SpawnPutWhole, SyncPutWhole, ServeGetWhole DEF Serve, history
    <2>2. ASSUME NEW e \in Engines,
                 \/ PutKv(e) \/ PutReply(e) \/ GetKv(e) \/ GetReply(e)
                 \/ Timeout(e) \/ Reattach(e) \/ Serve(e) \/ WorkerExit(e)
          PROVE  WholeInv'
      BY <2>1, <2>2, PutKvWhole, PutReplyWhole, GetKvWhole, GetReplyWhole, LeaveWhole
    <2> QED BY <2>2, RunThreadWhole, ProcessWhole DEF KvNext
  <1> QED BY <1>1, <1>2

\* What a client gets for a key is one payload that some call put under that key,
\* never chunks of two, however calls, reads, retries, crashes and the shutdown
\* interleave: the id of a large payload depends on the payload.
THEOREM GetsAreWholeHolds == KvSpec => []GetsAreWhole
  <1>1. WholeInv => GetsAreWhole
    BY DEF WholeInv, PairOK, Whole, GetsAreWhole, ChunksOf
  <1> QED BY <1>1, WholeInductive, PTL DEF KvSpec

-----------------------------------------------------------------------------
\* Objects are replaced, never removed.
Keeps(o, o1) == \A k \in StoreKeys : o[k] # None => o1[k] # None

\* What is stored stays stored, so a covered manifest stays covered.
LEMMA CoverGrowth ==
  ASSUME NEW cs \in Seq(Call), NEW ds \in Seq(Call), Grows(cs, ds), NEW o, NEW o1, Keeps(o, o1)
  PROVE  /\ \A d : Covered(o, d) => Covered(o1, d)
         /\ \A g, w : PairCovered(cs, o, g, w) => PairCovered(ds, o1, g, w)
  <1>1. \A k : Stored(o, k) => Stored(o1, k) BY DEF Stored, Keeps
  <1>2. \A d : Covered(o, d) => Covered(o1, d) BY <1>1 DEF Covered
  <1>3. ASSUME NEW g, NEW w, PutCovered(cs, o, g, w) PROVE PutCovered(ds, o1, g, w)
    <2> DEFINE k == cs[g.call].key
               v == cs[g.call].value
    <2>1. PICK j \in 1..(ChunkCount + 1) :
             /\ PutAt(cs, g, j)
             /\ v \in LargeValues => \A i \in 1..(j - 1) : Stored(o, LargeChunkKey(LargePayloadId(k, v), i))
             /\ w.at \in {"put", "object"} => w.key = Put(k, v, Idx(j)).at
             /\ w.at = "reply" /\ w.status = "OK" => Stored(o, Put(k, v, Idx(j)).at)
      BY <1>3 DEF PutCovered
    <2>2. ds[g.call] = cs[g.call] BY <2>1 DEF PutAt, Grows
    <2>3. PutAt(ds, g, j) BY <2>1, Growth
    <2> QED BY <1>1, <2>1, <2>2, <2>3 DEF PutCovered
  <1>4. \A g, w : PairCovered(cs, o, g, w) => PairCovered(ds, o1, g, w)
    BY <1>2, <1>3 DEF PairCovered
  <1> QED BY <1>2, <1>4

\* A step of one client or its worker.
LEMMA CoverStep ==
  ASSUME WholeInv, CoveredInv, ~mode.async, NEW e \in Engines, threads' = {},
         \A u \in Engines \ {e} : engine'[u] = engine[u] /\ worker'[u] = worker[u],
         calls' \in Seq(Call), Grows(calls, calls'), Keeps(s3, s3'),
         \A k \in StoreKeys : Covered(s3', cache'[k]) /\ Covered(s3', s3'[k]),
         PairCovered(calls', s3', engine'[e], worker'[e])
  PROVE  CoveredInv'
  <1>1. calls \in Seq(Call) BY DEF WholeInv, KvType
  <1>2. ASSUME NEW u \in Engines PROVE PairCovered(calls', s3', engine'[u], worker'[u])
    <2>1. CASE u = e BY <2>1
    <2>2. CASE u # e
      <3>1. PairCovered(calls, s3, engine[u], worker[u]) BY DEF CoveredInv
      <3>2. PairCovered(calls', s3', engine[u], worker[u]) BY <1>1, <3>1, CoverGrowth
      <3> QED BY <2>2, <3>2
    <2> QED BY <2>1, <2>2
  <1> QED BY <1>2 DEF CoveredInv

\* The same, when the step touches neither tiers nor threads.
LEMMA CoverSet ==
  ASSUME WholeInv, CoveredInv, ~mode.async, NEW e \in Engines, NEW g, NEW w,
         SetEngine(e, g), SetWorker(e, w), UNCHANGED <<tiers, threads>>,
         calls' \in Seq(Call), Grows(calls, calls'), PairCovered(calls', s3, g, w)
  PROVE  CoveredInv'
  <1>1. /\ engine'[e] = g /\ worker'[e] = w
        /\ \A u \in Engines \ {e} : engine'[u] = engine[u] /\ worker'[u] = worker[u]
    BY DEF WholeInv, KvType, SetEngine, SetWorker
  <1>2. UNCHANGED <<cache, s3>> /\ Keeps(s3, s3') /\ threads' = {}
    BY DEF tiers, Keeps, CoveredInv
  <1>3. \A k \in StoreKeys : Covered(s3', cache'[k]) /\ Covered(s3', s3'[k])
    BY <1>2 DEF CoveredInv
  <1>4. PairCovered(calls', s3', engine'[e], worker'[e]) BY <1>1, <1>2
  <1> QED BY <1>1, <1>2, <1>3, <1>4, CoverStep

\* The payload of a PUT is covered: a manifest goes after its chunks.
LEMMA PutData ==
  ASSUME NEW k \in KvKeys, NEW v \in KvValues, NEW i \in 0..ChunkCount, i = 0 \/ v \in LargeValues,
         NEW o,
         i = 0 /\ v \in LargeValues =>
            \A n \in 1..ChunkCount : Stored(o, LargeChunkKey(LargePayloadId(k, v), n))
  PROVE  Covered(o, Put(k, v, i).data)
  <1> DEFINE d == Put(k, v, i).data
  <1>1. CASE i # 0
    <2>1. d = <<"chunk", v, i>> BY <1>1, PutFacts
    <2>2. d[1] = "chunk" BY <2>1, SMTT(30)
    <2> QED BY <2>2 DEF Covered, ParseLargeManifest
  <1>2. CASE i = 0 /\ v \notin LargeValues
    <2>1. d = <<"whole", v, 0>> BY <1>2, PutFacts
    <2>2. d[1] = "whole" BY <2>1, SMTT(30)
    <2> QED BY <2>2 DEF Covered, ParseLargeManifest
  <1>3. CASE i = 0 /\ v \in LargeValues
    <2>1. d = <<"manifest", <<k, v>>, ChunkCount>> BY <1>3, PutFacts
    <2>2. d[2] = LargePayloadId(k, v) /\ d[3] = ChunkCount BY <2>1, SMTT(30) DEF LargePayloadId
    <2> QED BY <1>3, <2>2 DEF Covered
  <1> QED BY <1>1, <1>2, <1>3

\* A client that puts, with the request for its j-th PUT.
LEMMA PutPairCovered ==
  ASSUME NEW cs \in Seq(Call), NEW c \in 1..Len(cs), NEW j \in 1..(ChunkCount + 1), NEW x, NEW o,
         cs[c].value \notin LargeValues => j = ChunkCount + 1,
         cs[c].value \in LargeValues =>
            \A i \in 1..(j - 1) : Stored(o, LargeChunkKey(LargePayloadId(cs[c].key, cs[c].value), i)),
         NEW g, g = [at |-> "put", call |-> c, left |-> Left(j)],
         NEW w, w = [at |-> "put", id |-> x, key |-> Put(cs[c].key, cs[c].value, Idx(j)).at,
                     data |-> Put(cs[c].key, cs[c].value, Idx(j)).data]
  PROVE  PairCovered(cs, o, g, w)
  <1> ChunkCount \in Nat \ {0} BY KvServiceAssumption
  <1>1. Idx(j) \in 0..ChunkCount /\ (Idx(j) = 0 \/ cs[c].value \in LargeValues)
        /\ (Idx(j) = 0 => j - 1 = ChunkCount)
    BY SMTT(30) DEF Idx
  <1>2. cs[c].key \in KvKeys /\ cs[c].value \in KvValues BY CallFacts
  <1>3. Covered(o, w.data) BY <1>1, <1>2, PutData
  <1>4. PutAt(cs, g, j) BY DEF PutAt
  <1>5. PutCovered(cs, o, g, w) BY <1>4 DEF PutCovered
  <1> QED BY <1>3, <1>5 DEF PairCovered

\* A client's PUT begins.
LEMMA PutKvCovered ==
  ASSUME WholeInv, CoveredInv, ~mode.async, NEW e \in Engines, PutKv(e)
  PROVE  CoveredInv'
  <1>1. PICK k \in KvKeys, v \in mode.values : calls' = Append(calls, [key |-> k, value |-> v])
    BY DEF PutKv
  <1>2. v \in KvValues /\ calls \in Seq(Call)
    BY KvServiceAssumption DEF WholeInv, KvType
  <1> DEFINE c == Len(calls) + 1
  <1>3. /\ calls' \in Seq(Call) /\ Grows(calls, calls') /\ c \in 1..Len(calls')
        /\ calls'[c].key = k /\ calls'[c].value = v
    <2>1. [key |-> k, value |-> v] \in Call BY <1>2 DEF Call
    <2> DEFINE x == [key |-> k, value |-> v]
    <2>2. x \in Call /\ x.key = k /\ x.value = v BY <2>1
    <2> HIDE DEF x
    <2>3. calls' = Append(calls, x) BY <1>1 DEF x
    <2> QED BY <1>2, <2>2, <2>3, SMTT(30) DEF Grows
  <1> DEFINE j == IF v \in LargeValues THEN 1 ELSE ChunkCount + 1
             g == [at |-> "put", call |-> c, left |-> Left(j)]
             w == [at |-> "put", id |-> <<c, Idx(j)>>, key |-> Put(calls'[c].key, calls'[c].value, Idx(j)).at,
                   data |-> Put(calls'[c].key, calls'[c].value, Idx(j)).data]
  <1>4. j \in 1..(ChunkCount + 1) /\ (v \notin LargeValues => j = ChunkCount + 1)
        /\ (v \in LargeValues => 1..(j - 1) = {})
    BY KvServiceAssumption, SMTT(30)
  <1>5. PutOrder(v) = Left(j) /\ Head(Left(j)) = Idx(j)
    BY <1>4, LeftFacts
  <1>6. SetEngine(e, g) /\ SetWorker(e, w) /\ UNCHANGED <<tiers, threads>>
    <2>1. SendPut(e, c, PutOrder(calls'[c].value)) /\ UNCHANGED <<tiers, threads>> BY DEF PutKv
    <2>2. SendPut(e, c, Left(j)) BY <1>3, <1>5, <2>1
    <2> HIDE DEF c, j
    <2> QED BY <1>5, <2>1, <2>2 DEF SendPut, Request
  <1>7. PairCovered(calls', s3, g, w)
    <2> HIDE DEF j, c
    <2> QED BY <1>3, <1>4, PutPairCovered DEF c
  <1> HIDE DEF g, w
  <1> QED BY <1>3, <1>6, <1>7, CoverSet

\* The chunks answered so far are in the bucket.
LEMMA PutReplyCovered ==
  ASSUME WholeInv, CoveredInv, ~mode.async, NEW e \in Engines, PutReply(e)
  PROVE  CoveredInv'
  <1> ChunkCount \in Nat \ {0} BY KvServiceAssumption
  <1> DEFINE g == engine[e]
             c == g.call
             k == calls[c].key
             v == calls[c].value
             rest == Tail(g.left)
  <1>1. /\ g.at = "put" /\ worker[e].at = "reply" /\ UNCHANGED <<mode, tiers, threads, calls>>
        /\ calls \in Seq(Call)
    BY DEF PutReply, history, WholeInv, KvType
  <1>2. PICK j \in 1..(ChunkCount + 1) :
           /\ PutAt(calls, g, j)
           /\ v \in LargeValues => \A i \in 1..(j - 1) : Stored(s3, LargeChunkKey(LargePayloadId(k, v), i))
           /\ worker[e].status = "OK" => Stored(s3, Put(k, v, Idx(j)).at)
    BY <1>1 DEF CoveredInv, PairCovered, PutCovered
  <1>3. /\ c \in 1..Len(calls) /\ g.left = Left(j) /\ g = [at |-> "put", call |-> c, left |-> Left(j)]
        /\ v \notin LargeValues => j = ChunkCount + 1
    <2>1. g.left = Left(j) /\ g = [at |-> "put", call |-> c, left |-> Left(j)]
      <3>1. g = [at |-> "put", call |-> g.call, left |-> Left(j)] BY <1>2 DEF PutAt
      <3> HIDE DEF g
      <3> QED BY <3>1, SMTT(30)
    <2>2. c \in 1..Len(calls) /\ (v \notin LargeValues => j = ChunkCount + 1) BY <1>2 DEF PutAt
    <2> QED BY <2>1, <2>2
  <1>4. CASE worker[e].status = "OK" /\ rest # <<>>
    <2>1. j \in 1..ChunkCount
      BY <1>3, <1>4, LeftFacts, SMTT(30)
    <2>2. rest = Left(j + 1) /\ Head(rest) = Idx(j + 1) /\ j + 1 \in 1..(ChunkCount + 1)
      <3>1. j + 1 \in 1..(ChunkCount + 1) BY <2>1, SMTT(30)
      <3> QED BY <1>3, <2>1, <3>1, LeftFacts
    <2> DEFINE h == [at |-> "put", call |-> c, left |-> Left(j + 1)]
               w == [at |-> "put", id |-> <<c, Idx(j + 1)>>,
                     key |-> Put(calls[c].key, calls[c].value, Idx(j + 1)).at,
                     data |-> Put(calls[c].key, calls[c].value, Idx(j + 1)).data]
    <2>3. [g EXCEPT !.left = rest] = h
      <3> HIDE DEF rest, c
      <3> QED BY <1>3, <2>2, SMTT(30)
    <2>4. SetEngine(e, h) /\ SetWorker(e, w)
      BY <1>4, <2>2, <2>3 DEF PutReply
    <2>5. v \in LargeValues BY <1>3, <2>1, SMTT(30)
    <2>6. ASSUME NEW i \in 1..((j + 1) - 1)
          PROVE  Stored(s3, LargeChunkKey(LargePayloadId(k, v), i))
      <3>1. CASE i = j
        <4>1. Idx(j) = j /\ j # 0 /\ j \in 0..ChunkCount BY <2>1, SMTT(30) DEF Idx
        <4>2. k \in KvKeys /\ v \in KvValues BY <1>1, <1>3, CallFacts
        <4>3. Put(k, v, j).at = LargeChunkKey(LargePayloadId(k, v), j)
          <5> HIDE DEF k, v
          <5> QED BY <2>5, <4>1, <4>2, PutFacts DEF LargeChunkKey, LargePayloadId
        <4> QED BY <1>2, <1>4, <3>1, <4>1, <4>3
      <3>2. CASE i # j
        <4>1. i \in 1..(j - 1) BY <3>2, SMTT(30)
        <4> QED BY <1>2, <2>5, <4>1
      <3> QED BY <3>1, <3>2
    <2>7. PairCovered(calls', s3, h, w)
      <3> HIDE DEF c
      <3> QED BY <1>1, <1>3, <2>2, <2>5, <2>6, PutPairCovered DEF c
    <2> HIDE DEF h, w
    <2> QED BY <1>1, <2>4, <2>7, SameCalls, CoverSet
  <1>5. CASE ~(worker[e].status = "OK" /\ rest # <<>>)
    <2>1. SetEngine(e, Idle) /\ SetWorker(e, Idle) BY <1>5 DEF PutReply
    <2>2. PairCovered(calls', s3, Idle, Idle) BY DEF PairCovered, Idle
    <2> QED BY <1>1, <2>1, <2>2, SameCalls, CoverSet
  <1> QED BY <1>4, <1>5

\* Reads, and clients that leave.
LEMMA ClientCovered ==
  ASSUME WholeInv, CoveredInv, ~mode.async, NEW e \in Engines,
         GetKv(e) \/ GetReply(e) \/ Timeout(e) \/ Reattach(e) \/ WorkerExit(e)
  PROVE  CoveredInv'
  <1>1. UNCHANGED <<tiers, threads, calls>> /\ calls \in Seq(Call)
    BY DEF GetKv, GetReply, Timeout, Reattach, WorkerExit, history, WholeInv, KvType
  <1>2. ASSUME NEW g, NEW w, SetEngine(e, g), SetWorker(e, w), g.at # "put",
               w.at \notin {"local", "put", "object", "fill"}
        PROVE  CoveredInv'
    <2>1. PairCovered(calls', s3, g, w) BY <1>2 DEF PairCovered
    <2> QED BY <1>1, <1>2, <2>1, SameCalls, CoverSet
  <1>3. CASE GetKv(e)
    <2>1. PICK k \in KvKeys :
            /\ SetEngine(e, [at |-> "get", key |-> k, parts |-> <<>>, want |-> 0, id |-> None])
            /\ SetWorker(e, [at |-> "get", key |-> <<k>>])
      BY <1>3 DEF GetKv, Request
    <2> DEFINE g == [at |-> "get", key |-> k, parts |-> <<>>, want |-> 0, id |-> None]
               w == [at |-> "get", key |-> <<k>>]
    <2>2. g.at = "get" /\ w.at = "get" OBVIOUS
    <2>3. SetEngine(e, g) /\ SetWorker(e, w) BY <2>1
    <2> HIDE DEF g, w
    <2> QED BY <1>2, <2>2, <2>3
  <1>4. CASE GetReply(e)
    <2>1. PICK g, w : SetEngine(e, g) /\ SetWorker(e, w) /\ g.at \in {"idle", "get", "got"}
                      /\ w.at \in {"idle", "get"}
      <3> DEFINE r == worker[e]
                 h == engine[e]
                 parts == Append(h.parts, r.data)
      <3>0. h = [at |-> "get", key |-> h.key, parts |-> h.parts, want |-> h.want, id |-> h.id]
        <4>1. PairOK(calls, h, r) /\ h.at = "get" BY <1>4 DEF WholeInv, GetReply
        <4>2. GetAt(calls, h) BY <4>1 DEF PairOK, ClientOK
        <4> QED BY <4>2 DEF GetAt
      <3>1. CASE SetEngine(e, Idle) /\ SetWorker(e, Idle)
        BY <3>1, SMTT(30) DEF Idle
      <3>2. CASE /\ SetEngine(e, [h EXCEPT !.want = r.data[3], !.id = r.data[2]])
                 /\ SetWorker(e, [at |-> "get", key |-> LargeChunkKey(r.data[2], 1)])
        <4> DEFINE g1 == [h EXCEPT !.want = r.data[3], !.id = r.data[2]]
                   w1 == [at |-> "get", key |-> LargeChunkKey(r.data[2], 1)]
        <4>1. g1 = [at |-> "get", key |-> h.key, parts |-> h.parts, want |-> r.data[3], id |-> r.data[2]]
          <5> HIDE DEF h, r
          <5> QED BY <3>0, MoveGet
        <4>2. g1.at = "get" /\ w1.at = "get" BY <4>1
        <4> HIDE DEF g1, w1
        <4>3. SetEngine(e, g1) /\ SetWorker(e, w1) BY <3>2 DEF g1, w1
        <4> QED BY <4>2, <4>3
      <3>3. CASE /\ SetEngine(e, [h EXCEPT !.parts = parts])
                 /\ SetWorker(e, [at |-> "get", key |-> LargeChunkKey(h.id, Len(parts) + 1)])
        <4> DEFINE g1 == [h EXCEPT !.parts = parts]
                   w1 == [at |-> "get", key |-> LargeChunkKey(h.id, Len(parts) + 1)]
        <4>1. g1 = [at |-> "get", key |-> h.key, parts |-> parts, want |-> h.want, id |-> h.id]
          <5> HIDE DEF h, parts
          <5> QED BY <3>0, MoveGet
        <4>2. g1.at = "get" /\ w1.at = "get" BY <4>1
        <4> HIDE DEF g1, w1
        <4>3. SetEngine(e, g1) /\ SetWorker(e, w1) BY <3>3 DEF g1, w1
        <4> QED BY <4>2, <4>3
      <3>4. CASE /\ SetEngine(e, [at |-> "got", key |-> h.key, parts |-> parts])
                 /\ SetWorker(e, Idle)
        <4> DEFINE g1 == [at |-> "got", key |-> h.key, parts |-> parts]
        <4>1. g1.at = "got" OBVIOUS
        <4> HIDE DEF g1
        <4>2. SetEngine(e, g1) BY <3>4 DEF g1
        <4> QED BY <3>4, <4>1, <4>2, SMTT(30) DEF Idle
      <3> QED BY <1>4, <3>1, <3>2, <3>3, <3>4 DEF GetReply
    <2> QED BY <1>2, <2>1
  <1>5. CASE Timeout(e)
    <2> DEFINE g == [at |-> "dead"]
    <2>1. SetEngine(e, g) /\ SetWorker(e, worker[e])
      BY <1>5 DEF Timeout, SetWorker, WholeInv, KvType
    <2>2. PairCovered(calls', s3, g, worker[e])
      BY <1>1 DEF CoveredInv, PairCovered
    <2> HIDE DEF g
    <2> QED BY <1>1, <2>1, <2>2, SameCalls, CoverSet
  <1>6. CASE Reattach(e) BY <1>2, <1>6 DEF Reattach, Idle
  <1>7. CASE WorkerExit(e) BY <1>2, <1>7 DEF WorkerExit
  <1> QED BY <1>3, <1>4, <1>5, <1>6, <1>7

\* A step of a worker that leaves the clients alone.
LEMMA WorkerCovered ==
  ASSUME WholeInv, CoveredInv, ~mode.async, NEW e \in Engines, NEW w, SetWorker(e, w),
         UNCHANGED <<engine, calls, threads>>, Keeps(s3, s3'),
         \A k \in StoreKeys : Covered(s3', cache'[k]) /\ Covered(s3', s3'[k]),
         PairCovered(calls, s3', engine[e], w)
  PROVE  CoveredInv'
  <1>1. worker'[e] = w /\ \A u \in Engines \ {e} : worker'[u] = worker[u]
    BY DEF WholeInv, KvType, SetWorker
  <1>2. threads' = {} BY DEF CoveredInv
  <1>3. calls' \in Seq(Call) /\ Grows(calls, calls') BY SameCalls DEF WholeInv, KvType
  <1>4. PairCovered(calls', s3', engine'[e], worker'[e]) BY <1>1
  <1> QED BY <1>1, <1>2, <1>3, <1>4, CoverStep

\* A synchronous PUT answers only after the bucket has the object.
LEMMA SyncPutCovered ==
  ASSUME WholeInv, CoveredInv, ~mode.async, NEW e \in Engines, SyncPut(e),
         UNCHANGED <<mode, engine, threads, calls>>
  PROVE  CoveredInv'
  <1> DEFINE w == worker[e]
             g == engine[e]
             o == [at |-> "object", id |-> w.id, key |-> w.key, data |-> w.data]
  <1>1. /\ w.at \in {"put", "object"} /\ PairOK(calls, g, w) /\ PairCovered(calls, s3, g, w)
        /\ calls \in Seq(Call)
    BY DEF SyncPut, WholeInv, CoveredInv, KvType
  <1>2. /\ IsPut(w) /\ PutBy(calls, w.key, w.data) /\ Covered(s3, w.data)
        /\ g.at = "put" => PutCovered(calls, s3, g, w)
    BY <1>1 DEF PairOK, WorkerOK, PairCovered
  <1>3. w.key \in StoreKeys /\ w.data # None BY <1>1, <1>2, PutByFacts
  <1>4. CASE PutLocal(w.key, w.data) /\ SetWorker(e, [w EXCEPT !.at = "object"])
    <2>1. [w EXCEPT !.at = "object"] = o
      <3> HIDE DEF w
      <3> QED BY <1>2, MovePut
    <2>2. SetWorker(e, o) BY <1>4, <2>1
    <2>3. UNCHANGED s3 /\ Keeps(s3, s3') BY <1>4 DEF PutLocal, Keeps
    <2>4. \A k \in StoreKeys : cache'[k] \in {cache[k], w.data}
      BY <1>4, TiersOK DEF PutLocal, TierOK
    <2>5. \A k \in StoreKeys : Covered(s3', cache'[k]) /\ Covered(s3', s3'[k])
      BY <1>2, <2>3, <2>4 DEF CoveredInv
    <2>6. o.at = "object" /\ o.key = w.key /\ o.data = w.data OBVIOUS
    <2> HIDE DEF o
    <2>7. g.at = "put" => PutCovered(calls, s3, g, o)
      BY <1>1, <1>2, <2>6 DEF PutCovered
    <2>8. PairCovered(calls, s3', g, o)
      BY <1>2, <2>3, <2>6, <2>7 DEF PairCovered
    <2> QED BY <2>2, <2>3, <2>5, <2>8, WorkerCovered
  <1>5. CASE PutObjectOk(w.key, w.data) /\ UNCHANGED cache /\ SetWorker(e, Reply("OK", None))
    <2>1. /\ \A k \in StoreKeys : s3'[k] = IF k = w.key THEN w.data ELSE s3[k]
          /\ Stored(s3', w.key)
      BY <1>3, <1>5, TiersOK DEF PutObjectOk, TierOK, Stored
    <2>2. Keeps(s3, s3') BY <1>3, <2>1 DEF Keeps
    <2>3. \A d : Covered(s3, d) => Covered(s3', d) BY <1>1, <2>2, SameCalls, CoverGrowth
    <2>4. \A k \in StoreKeys : Covered(s3', cache'[k]) /\ Covered(s3', s3'[k])
      BY <1>2, <1>5, <2>1, <2>3 DEF CoveredInv
    <2>5. PairCovered(calls, s3', g, w) BY <1>1, <2>2, SameCalls, CoverGrowth
    <2> DEFINE r == Reply("OK", None)
    <2>6. r.at = "reply" BY DEF Reply
    <2> HIDE DEF r
    <2>7. g.at = "put" => PutCovered(calls, s3', g, r)
      BY <1>1, <2>1, <2>5, <2>6 DEF PutCovered, PairCovered
    <2>8. PairCovered(calls, s3', g, r) BY <2>6, <2>7 DEF PairCovered
    <2>9. SetWorker(e, r) BY <1>5 DEF r
    <2> QED BY <2>2, <2>4, <2>8, <2>9, WorkerCovered
  <1>6. CASE PutObjectErr /\ UNCHANGED cache /\ SetWorker(e, Reply("ERROR", None))
    <2> DEFINE r == Reply("ERROR", None)
    <2>1. r.at = "reply" /\ r.status = "ERROR" BY DEF Reply
    <2> HIDE DEF r
    <2>2. UNCHANGED s3 /\ Keeps(s3, s3') BY <1>6 DEF PutObjectErr, Keeps
    <2>3. \A k \in StoreKeys : Covered(s3', cache'[k]) /\ Covered(s3', s3'[k])
      BY <1>6, <2>2 DEF CoveredInv
    <2>4. g.at = "put" => PutCovered(calls, s3, g, r)
      BY <1>2, <2>1 DEF PutCovered
    <2>5. PairCovered(calls, s3', g, r) BY <2>1, <2>2, <2>4 DEF PairCovered
    <2>6. SetWorker(e, r) BY <1>6 DEF r
    <2> QED BY <2>2, <2>3, <2>5, <2>6, WorkerCovered
  <1> QED BY <1>4, <1>5, <1>6 DEF SyncPut

\* A GET stores only what the bucket has.
LEMMA ServeGetCovered ==
  ASSUME WholeInv, CoveredInv, ~mode.async, NEW e \in Engines, ServeGet(e),
         UNCHANGED <<mode, s3, engine, threads, calls>>
  PROVE  CoveredInv'
  <1> DEFINE w == worker[e]
             g == engine[e]
  <1>1. /\ w.at \in {"get", "fill"} /\ PairOK(calls, g, w) /\ PairCovered(calls, s3, g, w)
        /\ calls \in Seq(Call)
    BY DEF ServeGet, WholeInv, CoveredInv, KvType
  <1>2. g.at # "put" /\ w.key \in StoreKeys
    BY <1>1, PutByFacts DEF PairOK, WorkerOK, ClientOK
  <1>3. Keeps(s3, s3') BY DEF Keeps
  <1>4. ASSUME NEW x, SetWorker(e, x), x.at \in {"reply", "fill"}, x.at = "fill" => Covered(s3, x.data),
               \A k \in StoreKeys : Covered(s3, cache'[k])
        PROVE  CoveredInv'
    <2>1. PairCovered(calls, s3', g, x) BY <1>2, <1>4 DEF PairCovered
    <2>2. \A k \in StoreKeys : Covered(s3', cache'[k]) /\ Covered(s3', s3'[k])
      BY <1>4 DEF CoveredInv
    <2> QED BY <1>3, <1>4, <2>1, <2>2, WorkerCovered
  <1>5. ASSUME NEW status, NEW d PROVE Reply(status, d).at = "reply" BY DEF Reply
  <1>6. CASE UNCHANGED cache /\ \E status, d : SetWorker(e, Reply(status, d))
    BY <1>4, <1>5, <1>6 DEF CoveredInv
  <1>7. CASE /\ UNCHANGED cache
             /\ SetWorker(e, [at |-> "fill", key |-> w.key, data |-> s3[w.key]])
    <2> DEFINE x == [at |-> "fill", key |-> w.key, data |-> s3[w.key]]
    <2>1. x.at = "fill" /\ x.data = s3[w.key] OBVIOUS
    <2> HIDE DEF x
    <2>2. SetWorker(e, x) BY <1>7 DEF x
    <2>3. Covered(s3, x.data) BY <1>2, <2>1 DEF CoveredInv
    <2> QED BY <1>4, <1>7, <2>1, <2>2, <2>3 DEF CoveredInv
  <1>8. CASE w.at = "fill" /\ cache' = [cache EXCEPT ![w.key] = w.data] /\ SetWorker(e, Reply("OK", w.data))
    <2>1. Covered(s3, w.data) BY <1>1, <1>8 DEF PairCovered
    <2>2. \A k \in StoreKeys : cache'[k] \in {cache[k], w.data}
      BY <1>8, TiersOK DEF TierOK
    <2>3. \A k \in StoreKeys : Covered(s3, cache'[k]) BY <2>1, <2>2 DEF CoveredInv
    <2> QED BY <1>4, <1>5, <1>8, <2>3
  <1> QED BY <1>6, <1>7, <1>8 DEF ServeGet

\* Nothing the process does removes an object.
LEMMA ProcessCovered ==
  ASSUME WholeInv, CoveredInv, ~mode.async,
         \/ \E k \in StoreKeys : Forget(k)
         \/ KvCrash \/ Signal \/ Drain \/ ExitRemote \/ UNCHANGED kvVars
  PROVE  CoveredInv'
  <1>1. UNCHANGED <<mode, s3, calls>> /\ threads' = {}
    BY DEF Forget, KvCrash, Signal, Drain, ExitRemote, kvVars, tiers, history, CoveredInv
  <1>2. \A k \in StoreKeys : cache'[k] \in {cache[k], None}
    <2>1. UNCHANGED cache \/ \E k \in StoreKeys : cache' = [cache EXCEPT ![k] = None]
      BY DEF Forget, KvCrash, Signal, Drain, ExitRemote, kvVars, tiers
    <2> QED BY <2>1, TiersOK DEF TierOK
  <1>3. \A k \in StoreKeys : Covered(s3', cache'[k]) /\ Covered(s3', s3'[k])
    BY <1>1, <1>2 DEF CoveredInv, Covered
  <1>4. ASSUME NEW u \in Engines PROVE PairCovered(calls', s3', engine'[u], worker'[u])
    <2>1. CASE (\E k \in StoreKeys : Forget(k)) \/ Signal \/ Drain \/ UNCHANGED kvVars
      <3>1. UNCHANGED <<engine, worker>> BY <2>1 DEF Forget, Signal, Drain, kvVars
      <3> QED BY <1>1, <3>1 DEF CoveredInv
    <2>2. CASE ExitRemote
      <3>1. engine'[u].at = "dead" /\ worker'[u].at = "gone" BY <2>2 DEF ExitRemote
      <3> QED BY <3>1 DEF PairCovered
    <2>3. CASE KvCrash
      <3>1. worker'[u].at = "idle" /\ engine'[u].at # "put" BY <2>3 DEF KvCrash, Idle
      <3> QED BY <3>1 DEF PairCovered
    <2> QED BY <2>1, <2>2, <2>3
  <1> QED BY <1>1, <1>3, <1>4 DEF CoveredInv

\* The mode is chosen when the daemon starts.
LEMMA ModeFixed == ASSUME [KvNext]_kvVars PROVE UNCHANGED mode
  BY DEF KvNext, PutKv, PutReply, GetKv, GetReply, Timeout, Reattach, Serve, SpawnPut, WorkerExit,
         RunThread, Forget, KvCrash, Signal, Drain, ExitRemote, kvVars

\* ManifestInv is inductive.
LEMMA ManifestInductive == (KvInit => ManifestInv) /\ (ManifestInv /\ [KvNext]_kvVars => ManifestInv')
  <1>1. ASSUME KvInit PROVE ManifestInv
    <2>1. CoveredInv BY <1>1 DEF KvInit, CoveredInv, Covered, PairCovered, Idle
    <2> QED BY <1>1, <2>1, WholeInductive DEF ManifestInv
  <1>2. ASSUME ManifestInv, [KvNext]_kvVars PROVE ManifestInv'
    <2> USE <1>2
    <2>1. WholeInv /\ CoveredInv /\ WholeInv' BY WholeInductive DEF ManifestInv
    <2>2. CASE mode.async BY <2>1, <2>2, ModeFixed DEF ManifestInv, CoveredInv
    <2>3. CASE ~mode.async
      <3> USE <2>1, <2>3
      <3>1. ASSUME NEW e \in Engines, Serve(e) PROVE CoveredInv'
        BY <3>1, SyncPutCovered, ServeGetCovered DEF Serve, SpawnPut, history
      <3>2. ASSUME NEW e \in Engines,
                   \/ PutKv(e) \/ PutReply(e) \/ GetKv(e) \/ GetReply(e)
                   \/ Timeout(e) \/ Reattach(e) \/ Serve(e) \/ WorkerExit(e)
            PROVE  CoveredInv'
        BY <3>1, <3>2, PutKvCovered, PutReplyCovered, ClientCovered
      <3>3. threads = {} BY DEF CoveredInv
      <3>4. CoveredInv' BY <3>2, <3>3, ProcessCovered DEF KvNext
      <3> QED BY <3>4 DEF ManifestInv
    <2> QED BY <2>2, <2>3
  <1> QED BY <1>1, <1>2

\* While PUTs are synchronous, a manifest that a tier holds names chunks that are
\* all in the object store, whatever call failed, timed out or was cut off by a
\* crash: put_large_kv goes on to the manifest only after each chunk's OK, the
\* worker answers OK only after the object store, and no object is removed.
THEOREM ManifestHasChunksHolds == KvSpec => []ManifestHasChunks
  <1>1. ManifestInv => ManifestHasChunks
    <2> SUFFICES ASSUME ManifestInv, ~mode.async, NEW k \in KvKeys, NEW d \in Held(<<k>>),
                        ParseLargeManifest(d), NEW i \in 1..d[3]
                 PROVE  s3[LargeChunkKey(d[2], i)] # None
      BY DEF ManifestHasChunks
    <2>1. <<k>> \in StoreKeys BY SMTT(30) DEF StoreKeys
    <2>2. d # None /\ Covered(s3, d) BY <2>1 DEF Held, ManifestInv, CoveredInv
    <2> QED BY <2>2 DEF Covered, Stored
  <1> QED BY <1>1, ManifestInductive, PTL DEF KvSpec

-----------------------------------------------------------------------------
\* The threads of asynchronous PUTs and the counter the drain waits for.
LEMMA OneThread ==
  ASSUME NEW S, IsFiniteSet(S), NEW x, NEW y
  PROVE  /\ Cardinality(S) \in Nat /\ (Cardinality(S) = 0 => S = {})
         /\ IsFiniteSet(S \cup {x}) /\ Cardinality(S \cup {x}) <= Cardinality(S) + 1
         /\ x \in S => /\ IsFiniteSet(S \ {x}) /\ Cardinality(S \ {x}) = Cardinality(S) - 1
                       /\ IsFiniteSet((S \ {x}) \cup {y})
                       /\ Cardinality((S \ {x}) \cup {y}) <= Cardinality(S)
  <1>1. Cardinality(S) \in Nat BY FS_CardinalityType
  <1>2. IsFiniteSet(S \cup {x}) /\ Cardinality(S \cup {x}) <= Cardinality(S) + 1
    BY <1>1, FS_AddElement, SMTT(30)
  <1>3. ASSUME x \in S
        PROVE  /\ IsFiniteSet(S \ {x}) /\ Cardinality(S \ {x}) = Cardinality(S) - 1
               /\ IsFiniteSet((S \ {x}) \cup {y})
               /\ Cardinality((S \ {x}) \cup {y}) <= Cardinality(S)
    <2>1. IsFiniteSet(S \ {x}) /\ Cardinality(S \ {x}) = Cardinality(S) - 1
      BY <1>3, FS_RemoveElement
    <2> DEFINE T == S \ {x}
    <2>2. IsFiniteSet(T) /\ Cardinality(T) = Cardinality(S) - 1 BY <2>1
    <2> HIDE DEF T
    <2>3. IsFiniteSet(T \cup {y}) /\ Cardinality(T \cup {y}) <= Cardinality(T) + 1
      BY <1>1, <2>2, FS_AddElement, SMTT(30)
    <2> QED BY <1>1, <2>2, <2>3, SMTT(30) DEF T
  <1> QED BY <1>1, <1>2, <1>3, FS_EmptySet

\* The in-flight count against the threads it counts.
LEMMA CountedStep ==
  ASSUME NEW S, NEW n, Counted(S, n), NEW x, NEW y
  PROVE  /\ Counted(S \cup {x}, n + 1) /\ (n = 0 => S = {}) /\ Counted({}, n)
         /\ x \in S => Counted(S \ {x}, n - 1) /\ Counted((S \ {x}) \cup {y}, n)
  <1>1. /\ Cardinality(S) \in Nat /\ (Cardinality(S) = 0 => S = {})
        /\ IsFiniteSet(S \cup {x}) /\ Cardinality(S \cup {x}) <= Cardinality(S) + 1
        /\ x \in S => /\ IsFiniteSet(S \ {x}) /\ Cardinality(S \ {x}) = Cardinality(S) - 1
                      /\ IsFiniteSet((S \ {x}) \cup {y})
                      /\ Cardinality((S \ {x}) \cup {y}) <= Cardinality(S)
    BY OneThread DEF Counted
  <1>2. Cardinality(S \cup {x}) \in Nat BY <1>1, FS_CardinalityType
  <1>3. x \in S => Cardinality(S \ {x}) \in Nat /\ Cardinality((S \ {x}) \cup {y}) \in Nat
    BY <1>1, FS_CardinalityType
  <1>4. Counted({}, n) BY FS_EmptySet, SMTT(30) DEF Counted
  <1> QED BY <1>1, <1>2, <1>3, <1>4, SMTT(30) DEF Counted

\* A spawn counts its thread.
LEMMA SpawnDrain ==
  ASSUME WholeInv, DrainInv, Running, NEW e \in Engines, SpawnPut(e)
  PROVE  DrainInv'
  <1> DEFINE w == worker[e]
             t == [at |-> "queued", id |-> w.id, key |-> w.key, data |-> w.data]
  <1>1. IsPut(w) BY DEF SpawnPut, WholeInv, PairOK, WorkerOK
  <1>2. [w EXCEPT !.at = "queued"] = t /\ t.id = w.id
    <2> HIDE DEF w
    <2> QED BY <1>1, MovePut
  <1>3. mode.async /\ UNCHANGED <<mode, phase, tried>> /\ phase # "exited" BY DEF SpawnPut, Running
  <1> HIDE DEF t
  <1>4. CASE inflight' = inflight + 1 /\ threads' = threads \cup {t} /\ acked' = acked \cup {w.id}
    <2>1. Counted(threads', inflight') BY <1>4, CountedStep DEF DrainInv
    <2>2. phase' # "drain timeout" => acked' \subseteq tried' \cup {u.id : u \in threads'}
      BY <1>2, <1>3, <1>4 DEF DrainInv
    <2> QED BY <1>3, <2>1, <2>2 DEF DrainInv
  <1>5. CASE UNCHANGED <<threads, inflight, acked>> BY <1>3, <1>5 DEF DrainInv
  <1> QED BY <1>2, <1>4, <1>5 DEF SpawnPut

\* A thread leaves the count when its object is stored or failed.
LEMMA RunThreadDrain ==
  ASSUME WholeInv, DrainInv, Running, NEW t \in threads, RunThread(t)
  PROVE  DrainInv'
  <1> DEFINE o == [at |-> "object", id |-> t.id, key |-> t.key, data |-> t.data]
  <1>1. IsPut(t) BY DEF WholeInv, StoredByCall
  <1>2. [t EXCEPT !.at = "object"] = o /\ o.id = t.id BY <1>1, MovePut
  <1>3. UNCHANGED <<mode, phase, acked>> /\ phase # "exited" /\ mode.async
    BY DEF RunThread, Running, DrainInv
  <1> HIDE DEF o
  <1>4. CASE threads' = (threads \ {t}) \cup {o} /\ UNCHANGED <<inflight, tried>>
    <2>1. Counted(threads', inflight') BY <1>4, CountedStep DEF DrainInv
    <2>2. phase' # "drain timeout" => acked' \subseteq tried' \cup {u.id : u \in threads'}
      BY <1>2, <1>3, <1>4 DEF DrainInv
    <2> QED BY <1>3, <2>1, <2>2 DEF DrainInv
  <1>5. CASE threads' = threads \ {t} /\ inflight' = inflight - 1 /\ tried' = tried \cup {t.id}
    <2>1. Counted(threads', inflight') BY <1>5, CountedStep DEF DrainInv
    <2>2. phase' # "drain timeout" => acked' \subseteq tried' \cup {u.id : u \in threads'}
      BY <1>3, <1>5 DEF DrainInv
    <2> QED BY <1>3, <2>1, <2>2 DEF DrainInv
  <1> QED BY <1>2, <1>4, <1>5 DEF RunThread

\* A daemon that only serves remote addresses exits without a drain: such a daemon
\* must not be asynchronous.
AsyncDrains == \A m \in Modes : m.async => ~m.remote

\* The exit waits until the count is zero.
LEMMA ProcessDrain ==
  ASSUME AsyncDrains, WholeInv, DrainInv,
         (\E k \in StoreKeys : Forget(k)) \/ KvCrash \/ Signal \/ Drain \/ ExitRemote \/ UNCHANGED kvVars
  PROVE  DrainInv'
  <1>0. mode \in Modes BY DEF WholeInv, KvType
  <1>1. CASE (\E k \in StoreKeys : Forget(k)) \/ Signal \/ UNCHANGED kvVars
    BY <1>1 DEF Forget, Signal, kvVars, history, DrainInv
  <1>2. CASE KvCrash
    <2>1. threads' = {} /\ inflight' = 0 BY <1>2 DEF KvCrash
    <2>2. Counted({}, 0) BY FS_EmptySet, SMTT(30) DEF Counted
    <2> QED BY <1>2, <2>1, <2>2 DEF KvCrash, DrainInv
  <1>3. CASE Drain
    <2>1. Counted(threads', inflight') /\ (inflight = 0 => threads = {})
      BY <1>3, CountedStep DEF Drain, DrainInv, Counted
    <2> QED BY <1>3, <2>1 DEF Drain, DrainInv, Counted, history
  <1>4. CASE ExitRemote
    <2>1. threads = {} /\ UNCHANGED <<mode, inflight, acked, tried>> /\ threads' = {} /\ phase = "stopping"
      BY <1>0, <1>4 DEF ExitRemote, DrainInv, AsyncDrains, history
    <2> QED BY <2>1 DEF DrainInv
  <1> QED BY <1>1, <1>2, <1>3, <1>4

\* The invariant of the drain is inductive.
LEMMA DrainInductive ==
  ASSUME AsyncDrains
  PROVE  /\ KvInit => WholeInv /\ DrainInv
         /\ WholeInv /\ DrainInv /\ [KvNext]_kvVars => (WholeInv /\ DrainInv)'
  <1>1. ASSUME KvInit PROVE WholeInv /\ DrainInv
    BY <1>1, WholeInductive, FS_EmptySet, SMTT(30) DEF KvInit, DrainInv, Counted
  <1>2. ASSUME WholeInv, DrainInv, [KvNext]_kvVars PROVE (WholeInv /\ DrainInv)'
    <2> USE <1>2
    <2>2. ASSUME NEW e \in Engines, SyncPut(e), UNCHANGED <<mode, threads, inflight, phase>>
          PROVE  DrainInv'
      <3>1. CASE UNCHANGED <<acked, tried>> BY <2>2, <3>1 DEF DrainInv
      <3>2. CASE acked' \in {acked, acked \cup {worker[e].id}} /\ tried' = tried \cup {worker[e].id}
        BY <2>2, <3>2 DEF DrainInv
      <3> QED BY <2>2, <3>1, <3>2 DEF SyncPut
    <2>3. ASSUME NEW e \in Engines, Running, Serve(e) PROVE DrainInv'
      <3>1. CASE SpawnPut(e) BY <2>3, <3>1, SpawnDrain
      <3>2. CASE SyncPut(e) /\ UNCHANGED <<mode, threads, inflight, phase>> BY <2>2, <3>2
      <3>3. CASE UNCHANGED <<mode, threads, inflight, phase, acked, tried>>
        BY <3>3 DEF DrainInv
      <3> QED BY <2>3, <3>1, <3>2, <3>3 DEF Serve, history
    <2>4. ASSUME NEW e \in Engines, Running,
                 \/ PutKv(e) \/ PutReply(e) \/ GetKv(e) \/ GetReply(e)
                 \/ Timeout(e) \/ Reattach(e) \/ Serve(e) \/ WorkerExit(e)
          PROVE  DrainInv'
      <3>1. CASE Serve(e) BY <2>3, <2>4, <3>1
      <3>2. CASE \/ PutKv(e) \/ PutReply(e) \/ GetKv(e) \/ GetReply(e)
                 \/ Timeout(e) \/ Reattach(e) \/ WorkerExit(e)
        <4>1. UNCHANGED <<mode, threads, inflight, phase, acked, tried>>
          BY <3>2 DEF PutKv, PutReply, GetKv, GetReply, Timeout, Reattach, WorkerExit, history
        <4> QED BY <4>1 DEF DrainInv
      <3> QED BY <2>4, <3>1, <3>2
    <2>5. DrainInv' BY <2>4, RunThreadDrain, ProcessDrain DEF KvNext
    <2> QED BY <2>5, WholeInductive
  <1> QED BY <1>1, <1>2

\* When the process ends without a drain timeout, put_kv has ended for every PUT
\* that was acknowledged: async_put_inflight is counted up before the answer and
\* down only when put_kv has ended, and main reads it after the join of every worker.
THEOREM NoAckedPutLostHolds == ASSUME AsyncDrains PROVE KvSpec => []NoAckedPutLost
  <1>1. DrainInv => NoAckedPutLost BY DEF DrainInv, NoAckedPutLost
  <1> QED BY <1>1, DrainInductive, PTL DEF KvSpec
============================================================================
