--------------------------- MODULE MemoryProofs ---------------------------
(***************************************************************************)
(* What is reached by a pointer or an offset stays what it was.            *)
(*                                                                         *)
(* Arena, of any size with any keys and payloads, and one worker           *)
(* (SlabsOwnBytes): the slabs the daemon remembers lie below next_offset,  *)
(* which the writer only moves up until it wraps, and wrapping forgets them*)
(* all. With one worker no write comes between a slab's write and its      *)
(* remembering.                                                            *)
(*                                                                         *)
(* C interface, any number of threads (BorrowsIntact, MissIsReal): what a  *)
(* borrow points at is held until its release, and a batched GET answers   *)
(* "miss" only when a key was absent during the call.                      *)
(*                                                                         *)
(* The in-memory prefix store: a block is there exactly if its prefix was  *)
(* published, with the payload of the latest publication (PrefixInv).      *)
(***************************************************************************)
EXTENDS Arena, CabiHandle, PrefixIndex, SequenceTheorems, FiniteSetTheorems, WellFoundedInduction, TLAPS

\* A leaf that names no prover is left to Zenon.
USE ZenonT(30)

Slab == [off : Nat, len : Nat \ {0}, key : ArenaKeys, value : ArenaValues]

\* Below next_offset, and with the bytes it was written with.
Placed(slab) == slab.off + slab.len <= nextOffset /\ Holds(slab, <<slab.key, slab.value>>)

WriteTask == [at : {"write"}, op : {"PUT", "GET"}, key : ArenaKeys, value : ArenaValues]
RememberTask == [at : {"remember"}, op : {"PUT", "GET"}, slab : Slab]

ArenaType ==
    /\ stored \in [ArenaKeys -> ArenaValues \cup {Nothing}]
    /\ nextOffset \in 0..ArenaSize /\ wrapEpoch \in Nat
    /\ slabs \in [ArenaKeys -> Slab \cup {NoSlab}]
    /\ task \in [ArenaWorkers -> {Waiting} \cup WriteTask \cup RememberTask]

\* A worker materializes what is stored under its key.
TaskCurrent(w) ==
    /\ task[w].at = "write" => task[w].value = stored[task[w].key]
    /\ task[w].at = "remember" =>
        Placed(task[w].slab) /\ task[w].slab.value = stored[task[w].slab.key]

\* The worker is about to replace the slab of the key.
Pending(k, w) ==
    \/ task[w].at = "write" /\ task[w].key = k
    \/ task[w].at = "remember" /\ task[w].slab.key = k

SlabInv(k) ==
    slabs[k] # NoSlab =>
        /\ slabs[k].key = k /\ Placed(slabs[k])
        /\ \/ slabs[k].value = stored[k]
           \/ \E w \in ArenaWorkers : Pending(k, w)
           \/ SizeOf[stored[k]] \notin MinBytes .. ArenaSize

ArenaInv ==
    /\ ArenaType
    /\ \A w \in ArenaWorkers : TaskCurrent(w)
    /\ \A k \in ArenaKeys : SlabInv(k)

-----------------------------------------------------------------------------
\* The three states of a worker, told apart by at.
LEMMA TaskStates ==
  ASSUME ArenaType, NEW w \in ArenaWorkers
  PROVE  \/ task[w] = Waiting /\ task[w].at = "idle"
         \/ task[w] \in WriteTask /\ task[w].at = "write"
         \/ task[w] \in RememberTask /\ task[w].at = "remember"
  <1>1. task[w] \in {Waiting} \cup WriteTask \cup RememberTask
    BY DEF ArenaType
  <1>2. Waiting.at = "idle"
    BY DEF Waiting
  <1>3. ASSUME NEW x \in WriteTask PROVE x.at = "write"
    BY DEF WriteTask
  <1>4. ASSUME NEW x \in RememberTask PROVE x.at = "remember"
    BY DEF RememberTask
  <1> QED BY <1>1, <1>2, <1>3, <1>4

\* A write puts its payload below the new next_offset, and every slab that is
\* still remembered stays placed.
LEMMA WriteKeeps ==
  ASSUME ArenaType, NEW len \in 0..ArenaSize, NEW content, WriteArenaPayload(len, content)
  PROVE  /\ nextOffset' \in 0..ArenaSize /\ wrapEpoch' \in Nat
         /\ SlabOffset(len) \in Nat /\ SlabOffset(len) + len = nextOffset'
         /\ \A u \in SlabOffset(len) + 1 .. SlabOffset(len) + len : bytes'[u] = content
         /\ slabs' \in [ArenaKeys -> Slab \cup {NoSlab}]
         /\ \A k \in ArenaKeys : slabs'[k] # NoSlab =>
                slabs'[k] = slabs[k] /\ (Placed(slabs[k]) => Placed(slabs[k])')
  <1> DEFINE off == SlabOffset(len)
  <1>1. ArenaSize \in Nat /\ nextOffset \in 0..ArenaSize /\ wrapEpoch \in Nat
    BY ArenaAssumption DEF ArenaType
  <1>2. off \in Nat /\ off + len \in 0..ArenaSize /\ nextOffset' = off + len
    BY <1>1, SMTT(30) DEF SlabOffset, Wraps, WriteArenaPayload, WritePayload
  <1>3. bytes' = [u \in 1..ArenaSize |-> IF u \in off + 1 .. off + len THEN content ELSE bytes[u]]
    BY DEF WriteArenaPayload, WritePayload
  <1>4. wrapEpoch' \in Nat /\ (Wraps(len) => wrapEpoch' # wrapEpoch) /\ (~Wraps(len) => wrapEpoch' = wrapEpoch)
    BY <1>1, SMTT(30) DEF WriteArenaPayload, WritePayload
  <1>5. \A u \in off + 1 .. off + len : bytes'[u] = content
    BY <1>1, <1>2, <1>3, SMTT(30)
  <1>6. CASE Wraps(len)
    <2>1. slabs' = [k \in ArenaKeys |-> NoSlab]
      BY <1>4, <1>6 DEF WriteArenaPayload
    <2> QED BY <2>1, <1>2, <1>4, <1>5
  <1>7. CASE ~Wraps(len)
    <2>1. slabs' = slabs /\ off = nextOffset
      BY <1>4, <1>7 DEF WriteArenaPayload, SlabOffset
    <2>2. \A u \in 1..nextOffset : bytes'[u] = bytes[u]
      BY <1>1, <1>2, <1>3, <2>1, SMTT(30)
    <2>3. ASSUME NEW k \in ArenaKeys, slabs[k] # NoSlab, Placed(slabs[k])
          PROVE  Placed(slabs[k])'
      <3>1. slabs[k] \in Slab
        BY <2>3 DEF ArenaType
      <3>2. slabs[k].off \in Nat /\ slabs[k].len \in Nat
        BY <3>1 DEF Slab
      <3>3. slabs[k].off + slabs[k].len <= nextOffset /\ nextOffset <= nextOffset'
        BY <2>3, <1>1, <1>2, <2>1, SMTT(30) DEF Placed
      <3>4. \A u \in slabs[k].off + 1 .. slabs[k].off + slabs[k].len : u \in 1..nextOffset
        BY <3>2, <3>3, <1>1, SMTT(30)
      <3>5. Holds(slabs[k], <<slabs[k].key, slabs[k].value>>)'
        BY <2>1, <2>2, <2>3, <3>4 DEF Placed, Holds
      <3>6. slabs'[k].off + slabs'[k].len <= nextOffset'
        BY <2>1, <3>2, <3>3, <1>1, <1>2, SMTT(30)
      <3> QED BY <3>5, <3>6 DEF Placed
    <2> QED BY <2>1, <2>3, <1>2, <1>4, <1>5 DEF ArenaType
  <1> QED BY <1>6, <1>7

\* The empty arena satisfies the invariant.
LEMMA ArenaInitInv == ArenaInit => ArenaInv
  BY ArenaAssumption, SMTT(30) DEF ArenaInit, ArenaInv, ArenaType, TaskCurrent, SlabInv, Waiting

\* ArenaPut keeps the invariant.
LEMMA ArenaPutInv ==
  ASSUME NEW w, ArenaWorkers = {w}, ArenaInv, ArenaPut(w)
  PROVE  ArenaInv'
  <1> USE DEF ArenaInv
  <1>1. PICK k \in ArenaKeys, v \in ArenaValues :
            /\ stored' = [stored EXCEPT ![k] = v]
            /\ task' = [task EXCEPT ![w] = [at |-> "write", op |-> "PUT", key |-> k, value |-> v]]
    BY DEF ArenaPut
  <1>2. UNCHANGED <<bytes, nextOffset, wrapEpoch, slabs>>
    BY DEF ArenaPut
  <1>3. /\ task'[w] = [at |-> "write", op |-> "PUT", key |-> k, value |-> v]
        /\ task'[w] \in WriteTask /\ stored'[k] = v
        /\ \A j \in ArenaKeys \ {k} : stored'[j] = stored[j]
    BY <1>1 DEF ArenaType, WriteTask
  <1>4. ArenaType'
    BY <1>1, <1>2, <1>3 DEF ArenaType
  <1>5. TaskCurrent(w)'
    BY <1>3, SMTT(30) DEF TaskCurrent
  <1>6. ASSUME NEW j \in ArenaKeys
        PROVE  SlabInv(j)'
    <2>1. CASE j = k
      <3>1. Pending(j, w)'
        BY <2>1, <1>3, SMTT(30) DEF Pending
      <3> QED BY <3>1, <1>2 DEF SlabInv, Placed, Holds
    <2>2. CASE j # k
      <3>1. \A v1 \in ArenaWorkers : ~Pending(j, v1)
        BY SMTT(30) DEF ArenaPut, Pending, Waiting
      <3> QED BY <2>2, <3>1, <1>2, <1>3 DEF SlabInv, Placed, Holds
    <2> QED BY <2>1, <2>2
  <1> QED BY <1>4, <1>5, <1>6

\* ArenaGet keeps the invariant.
LEMMA ArenaGetInv ==
  ASSUME NEW w, ArenaWorkers = {w}, ArenaInv, ArenaGet(w)
  PROVE  ArenaInv'
  <1> USE DEF ArenaInv
  <1>1. UNCHANGED <<stored, bytes, nextOffset, wrapEpoch, slabs>> /\ task[w] = Waiting
    BY DEF ArenaGet
  <1>2. \A k \in ArenaKeys : ~Pending(k, w)
    BY <1>1, SMTT(30) DEF Pending, Waiting
  <1>3. \A k \in ArenaKeys : SlabInv(k)'
    BY <1>1, <1>2, SMTT(30) DEF SlabInv, Placed, Holds
  <1>4. CASE UNCHANGED task
    BY <1>1, <1>3, <1>4, SMTT(30) DEF ArenaType, TaskCurrent, Waiting
  <1>5. CASE \E k \in ArenaKeys :
                /\ stored[k] # Nothing
                /\ task' = [task EXCEPT ![w] = [at |-> "write", op |-> "GET", key |-> k, value |-> stored[k]]]
    <2>1. PICK k \in ArenaKeys :
                /\ stored[k] # Nothing
                /\ task' = [task EXCEPT ![w] = [at |-> "write", op |-> "GET", key |-> k, value |-> stored[k]]]
      BY <1>5
    <2>2. /\ task'[w] = [at |-> "write", op |-> "GET", key |-> k, value |-> stored[k]]
          /\ task'[w] \in WriteTask
      BY <2>1 DEF ArenaType, WriteTask
    <2>3. ArenaType'
      BY <1>1, <2>1, <2>2 DEF ArenaType
    <2>4. TaskCurrent(w)'
      BY <1>1, <2>2, SMTT(30) DEF TaskCurrent
    <2> QED BY <1>3, <2>3, <2>4
  <1> QED BY <1>4, <1>5 DEF ArenaGet

\* Writing the payload of an entry keeps the invariant.
LEMMA MaterializeInv ==
  ASSUME NEW w, ArenaWorkers = {w}, ArenaInv, MaterializeEntry(w)
  PROVE  ArenaInv'
  <1> USE DEF ArenaInv
  <1> DEFINE t == task[w]
             len == SizeOf[t.value]
             slab == [off |-> SlabOffset(len), len |-> len, key |-> t.key, value |-> t.value]
  <1>1. /\ t \in WriteTask /\ t.at = "write" /\ t.key \in ArenaKeys /\ t.value \in ArenaValues
        /\ t.op \in {"PUT", "GET"} /\ t.value = stored[t.key]
    BY TaskStates DEF MaterializeEntry, WriteTask, TaskCurrent
  <1>2. len \in Nat \ {0} /\ MinBytes \in Nat /\ ArenaSize \in Nat
    BY <1>1, ArenaAssumption
  <1>3. UNCHANGED stored
    BY DEF MaterializeEntry
  <1>4. \A k \in ArenaKeys \ {t.key} : ~Pending(k, w)
    BY <1>1 DEF Pending
  <1>5. CASE len < MinBytes \/ len > ArenaSize
    <2>1. task' = [task EXCEPT ![w] = Waiting] /\ UNCHANGED <<bytes, nextOffset, wrapEpoch, slabs>>
      BY <1>5 DEF MaterializeEntry
    <2>2. ArenaType'
      BY <1>3, <2>1 DEF ArenaType
    <2>3. TaskCurrent(w)'
      BY <2>1 DEF TaskCurrent, ArenaType, Waiting
    <2>4. SizeOf[stored[t.key]] \notin MinBytes .. ArenaSize
      BY <1>1, <1>2, <1>5, SMTT(30)
    <2>5. \A k \in ArenaKeys : SlabInv(k)'
      BY <1>3, <1>4, <2>1, <2>4, SMTT(30) DEF SlabInv, Placed, Holds
    <2> QED BY <2>2, <2>3, <2>5
  <1>6. CASE ~(len < MinBytes \/ len > ArenaSize)
    <2>1. /\ WriteArenaPayload(len, <<t.key, t.value>>)
          /\ task' = [task EXCEPT ![w] = [at |-> "remember", op |-> t.op, slab |-> slab]]
      BY <1>6 DEF MaterializeEntry
    <2>2. len \in 0..ArenaSize
      BY <1>2, <1>6, SMTT(30)
    <2>3. /\ nextOffset' \in 0..ArenaSize /\ wrapEpoch' \in Nat
          /\ SlabOffset(len) \in Nat /\ SlabOffset(len) + len = nextOffset'
          /\ \A u \in SlabOffset(len) + 1 .. SlabOffset(len) + len : bytes'[u] = <<t.key, t.value>>
          /\ slabs' \in [ArenaKeys -> Slab \cup {NoSlab}]
          /\ \A k \in ArenaKeys : slabs'[k] # NoSlab =>
                 slabs'[k] = slabs[k] /\ (Placed(slabs[k]) => Placed(slabs[k])')
      BY <2>1, <2>2, WriteKeeps
    <2>4. slab \in Slab
      BY <1>1, <1>2, <2>3 DEF Slab
    <2>5. /\ task'[w] = [at |-> "remember", op |-> t.op, slab |-> slab]
          /\ task'[w] \in RememberTask
      BY <1>1, <2>1, <2>4 DEF ArenaType, RememberTask
    <2>6. ArenaType'
      BY <1>3, <2>1, <2>3, <2>5 DEF ArenaType
    <2>7. TaskCurrent(w)'
      <3>1. task'[w].slab = slab /\ task'[w].at = "remember"
        BY <2>5, SMTT(30)
      <3>2. /\ task'[w].slab.off = SlabOffset(len) /\ task'[w].slab.len = len
            /\ task'[w].slab.key = t.key /\ task'[w].slab.value = t.value
        BY <3>1, SMTT(30)
      <3>3. Placed(task[w].slab)'
        BY <2>3, <3>2, <1>2, SMTT(30) DEF Placed, Holds
      <3> QED BY <3>1, <3>2, <3>3, <1>1, <1>3 DEF TaskCurrent
    <2>8. task'[w].at = "remember" /\ task'[w].slab.key = t.key
      BY <2>5, SMTT(30)
    <2>9. ASSUME NEW k \in ArenaKeys, slabs'[k] # NoSlab
          PROVE  /\ slabs'[k].key = k /\ Placed(slabs[k])'
                 /\ \/ slabs'[k].value = stored'[k]
                    \/ \E v \in ArenaWorkers : Pending(k, v)'
                    \/ SizeOf[stored'[k]] \notin MinBytes .. ArenaSize
      <3>1. slabs'[k] = slabs[k] /\ slabs[k].key = k /\ Placed(slabs[k])'
        BY <2>3, <2>9 DEF SlabInv
      <3>2. CASE k = t.key
        BY <3>1, <3>2, <2>8 DEF Pending
      <3>3. CASE k # t.key
        BY <3>1, <3>3, <1>3, <1>4, <2>9 DEF SlabInv
      <3> QED BY <3>1, <3>2, <3>3
    <2> QED BY <2>6, <2>7, <2>9 DEF SlabInv
  <1> QED BY <1>5, <1>6

\* A slab that is remembered is the one just written.
LEMMA RememberInv ==
  ASSUME NEW w, ArenaWorkers = {w}, ArenaInv, RememberSlab(w)
  PROVE  ArenaInv'
  <1> USE DEF ArenaInv
  <1> DEFINE slab == task[w].slab
  <1>1. /\ task[w].at = "remember" /\ slab \in Slab /\ slab.key \in ArenaKeys
        /\ Placed(slab) /\ slab.value = stored[slab.key]
    BY TaskStates DEF RememberSlab, RememberTask, TaskCurrent, Slab
  <1>2. /\ slabs' = [slabs EXCEPT ![slab.key] = slab] /\ task' = [task EXCEPT ![w] = Waiting]
        /\ UNCHANGED <<stored, bytes, nextOffset, wrapEpoch>>
    BY DEF RememberSlab
  <1>3. \A k \in ArenaKeys \ {slab.key} : ~Pending(k, w)
    BY <1>1 DEF Pending
  <1> HIDE DEF slab
  <1>4. slabs'[slab.key] = slab /\ \A k \in ArenaKeys \ {slab.key} : slabs'[k] = slabs[k]
    BY <1>1, <1>2 DEF ArenaType
  <1>5. ArenaType'
    BY <1>1, <1>2 DEF ArenaType
  <1>6. TaskCurrent(w)'
    BY <1>2 DEF TaskCurrent, ArenaType, Waiting
  <1>7. ASSUME NEW k \in ArenaKeys
        PROVE  SlabInv(k)'
    <2>1. CASE k = slab.key
      BY <2>1, <1>1, <1>2, <1>4, SMTT(30) DEF SlabInv, Placed, Holds
    <2>2. CASE k # slab.key
      BY <2>2, <1>2, <1>3, <1>4, SMTT(30) DEF SlabInv, Placed, Holds
    <2> QED BY <2>1, <2>2
  <1> QED BY <1>5, <1>6, <1>7

\* A batch takes room as one payload does.
LEMMA ArenaGetManyInv ==
  ASSUME NEW w, ArenaWorkers = {w}, ArenaInv, ArenaGetMany(w)
  PROVE  ArenaInv'
  <1> USE DEF ArenaInv
  <1>1. /\ WriteArenaPayload(BatchSize, <<"batch">>) /\ BatchSize \in 0..ArenaSize
        /\ task[w] = Waiting /\ UNCHANGED <<stored, task>>
    BY ArenaAssumption, SMTT(30) DEF ArenaGetMany
  <1>2. /\ nextOffset' \in 0..ArenaSize /\ wrapEpoch' \in Nat
        /\ slabs' \in [ArenaKeys -> Slab \cup {NoSlab}]
        /\ \A k \in ArenaKeys : slabs'[k] # NoSlab =>
               slabs'[k] = slabs[k] /\ (Placed(slabs[k]) => Placed(slabs[k])')
    BY <1>1, WriteKeeps
  <1>3. ArenaType'
    BY <1>1, <1>2 DEF ArenaType
  <1>4. TaskCurrent(w)' /\ \A k \in ArenaKeys : ~Pending(k, w)
    BY <1>1, SMTT(30) DEF TaskCurrent, Pending, Waiting
  <1>5. \A k \in ArenaKeys : SlabInv(k)'
    BY <1>1, <1>2, <1>4 DEF SlabInv
  <1> QED BY <1>3, <1>4, <1>5

\* A clear forgets the slabs with the entries.
LEMMA ArenaClearInv ==
  ASSUME NEW w, ArenaWorkers = {w}, ArenaInv, ArenaClear(w)
  PROVE  ArenaInv'
  <1> USE DEF ArenaInv
  <1>1. /\ slabs' = [k \in ArenaKeys |-> NoSlab] /\ task[w] = Waiting
        /\ UNCHANGED <<stored, bytes, nextOffset, wrapEpoch, task>>
    BY DEF ArenaClear
  <1>2. ArenaType'
    BY <1>1 DEF ArenaType
  <1>3. TaskCurrent(w)'
    BY <1>1, SMTT(30) DEF TaskCurrent, Waiting
  <1>4. \A k \in ArenaKeys : SlabInv(k)'
    BY <1>1 DEF SlabInv
  <1> QED BY <1>2, <1>3, <1>4

\* A daemon that runs dispatch on one thread never remembers a slab whose bytes
\* another payload took over, or one older than what put_kv stored last, but for
\* a put that stays out of the arena: for arenas, keys and payloads of any size.
THEOREM OneWorkerSlabs ==
  ASSUME NEW w, ArenaWorkers = {w}
  PROVE  ArenaSpec => []SlabsOwnBytes
  <1>1. ArenaInv /\ [ArenaNext]_arenaVars => ArenaInv'
    <2> SUFFICES ASSUME ArenaInv, [ArenaNext]_arenaVars
                 PROVE  ArenaInv'
      OBVIOUS
    <2>1. CASE UNCHANGED arenaVars
      <3>1. ArenaType' BY <2>1 DEF arenaVars, ArenaInv, ArenaType
      <3>2. \A v \in ArenaWorkers : TaskCurrent(v)'
        BY <2>1 DEF arenaVars, ArenaInv, TaskCurrent, Placed, Holds
      <3>3. \A k \in ArenaKeys : SlabInv(k)'
        BY <2>1, SMTT(30) DEF arenaVars, ArenaInv, SlabInv, Pending, Placed, Holds
      <3> QED BY <3>1, <3>2, <3>3 DEF ArenaInv
    <2>2. CASE ArenaNext
      BY <2>2, ArenaPutInv, ArenaGetInv, MaterializeInv, RememberInv, ArenaGetManyInv, ArenaClearInv
         DEF ArenaNext
    <2> QED BY <2>1, <2>2
  <1>2. ArenaInv => SlabsOwnBytes
    BY DEF ArenaInv, SlabInv, Placed, Pending, SlabsOwnBytes
  <1> QED BY <1>1, <1>2, ArenaInitInv, PTL DEF ArenaSpec

-----------------------------------------------------------------------------
\* A running batch: an answer and a pointer for every key.
FanOf(fn, keys, saw, out, ptrs, held) ==
    [at |-> "fan", fn |-> fn, keys |-> keys, sawMiss |-> saw, out |-> out, ptrs |-> ptrs, held |-> held]

IsFan(c) ==
    /\ c = FanOf(c.fn, c.keys, c.sawMiss, c.out, c.ptrs, c.held)
    /\ c.out = [i \in DOMAIN c.keys |-> c.out[i]] /\ c.ptrs = [i \in DOMAIN c.keys |-> c.ptrs[i]]
    /\ \A i \in DOMAIN c.keys : c.keys[i] \in CabiKeys

\* A hit holds its payload; a miss that was seen is the absence of a key.
HitsHeld(c) == \A i \in DOMAIN c.keys : c.out[i] = "hit" => <<c.keys[i], c.ptrs[i]>> \in c.held
SawMiss(c) == c.sawMiss \/ \E i \in DOMAIN c.keys : c.out[i] = "miss"
MissSeen(c, m) == SawMiss(c) => \E i \in DOMAIN c.keys : c.keys[i] \in m

\* A call whose thread has the history m, when the keys in abs are absent.
CallOK(c, m, abs) ==
    c = NoCall \/ (IsFan(c) /\ HitsHeld(c) /\ MissSeen(c, m) /\ abs \subseteq m)

BorrowsHeld == \A b \in borrows : \A i \in DOMAIN b.ptrs : <<b.keys[i], b.ptrs[i]>> \in b.held

CabiShape ==
    /\ cached = [k \in CabiKeys |-> cached[k]]
    /\ cabi = [t \in Threads |-> cabi[t]]
    /\ missing = [t \in Threads |-> missing[t]]

\* The inductive invariant.
CabiInv ==
    /\ CabiShape /\ BorrowsHeld
    /\ \A t \in Threads : CallOK(cabi[t], missing[t], Absents)
-----------------------------------------------------------------------------
\* Batches
LEMMA FanFields ==
  ASSUME NEW fn, NEW keys, NEW saw, NEW out, NEW ptrs, NEW held,
         NEW d, d = FanOf(fn, keys, saw, out, ptrs, held)
  PROVE  /\ d.at = "fan" /\ d.fn = fn /\ d.keys = keys /\ d.sawMiss = saw /\ d.out = out
         /\ d.ptrs = ptrs /\ d.held = held /\ d # NoCall
  BY DEF FanOf, NoCall

\* A call that begins holds nothing and has missed nothing.
LEMMA FanBegins ==
  ASSUME NEW fn, NEW keys, keys \in Seq(CabiKeys), NEW m, NEW abs, abs \subseteq m
  PROVE  CallOK(Fan(fn, keys), m, abs)
  <1> DEFINE out == [i \in 1..Len(keys) |-> "-"]
             ptrs == [i \in 1..Len(keys) |-> 0]
             c == Fan(fn, keys)
  <1>1. c = FanOf(fn, keys, FALSE, out, ptrs, {}) BY DEF Fan, FanOf
  <1>2. DOMAIN keys = 1..Len(keys) /\ \A i \in DOMAIN keys : keys[i] \in CabiKeys BY SMTT(30)
  <1>3. /\ out = [i \in DOMAIN keys |-> out[i]] /\ ptrs = [i \in DOMAIN keys |-> ptrs[i]]
        /\ \A i \in DOMAIN keys : out[i] = "-"
    BY <1>2
  <1> HIDE DEF out, ptrs, c
  <1>4. /\ c.fn = fn /\ c.keys = keys /\ c.sawMiss = FALSE /\ c.out = out /\ c.ptrs = ptrs /\ c.held = {}
    BY <1>1 DEF FanOf
  <1>5. IsFan(c) BY <1>1, <1>2, <1>3, <1>4 DEF IsFan
  <1>6. HitsHeld(c) /\ MissSeen(c, m) BY <1>3, <1>4 DEF HitsHeld, MissSeen, SawMiss
  <1> QED BY <1>5, <1>6 DEF CallOK, c

\* An answer that is no hit.
LEMMA OutStep ==
  ASSUME NEW c, NEW m, IsFan(c), HitsHeld(c), MissSeen(c, m), NEW i \in DOMAIN c.keys,
         NEW x \in {"miss", "err", "ok"}, NEW saw,
         \/ \E n \in DOMAIN c.keys : c.keys[n] \in m
         \/ x # "miss" /\ saw = c.sawMiss,
         NEW d, d = FanOf(c.fn, c.keys, saw, [c.out EXCEPT ![i] = x], c.ptrs, c.held)
  PROVE  IsFan(d) /\ HitsHeld(d) /\ MissSeen(d, m)
  <1> DEFINE out == [c.out EXCEPT ![i] = x]
  <1>1. /\ out = [n \in DOMAIN c.keys |-> out[n]]
        /\ \A n \in DOMAIN c.keys : out[n] = IF n = i THEN x ELSE c.out[n]
    BY DEF IsFan
  <1> HIDE DEF out
  <1>2. d = FanOf(c.fn, c.keys, saw, out, c.ptrs, c.held) BY DEF out
  <1>3. /\ d.fn = c.fn /\ d.keys = c.keys /\ d.sawMiss = saw /\ d.out = out
        /\ d.ptrs = c.ptrs /\ d.held = c.held
    BY <1>2, FanFields, SMTT(30)
  <1>4. IsFan(d) BY <1>1, <1>2, <1>3 DEF IsFan
  <1>5. HitsHeld(d) BY <1>1, <1>3 DEF HitsHeld
  <1>6. MissSeen(d, m) BY <1>1, <1>3 DEF MissSeen, SawMiss
  <1> QED BY <1>4, <1>5, <1>6

WithOut(c, i, x) == [c EXCEPT !.out[i] = x]
WithSeen(c, b) == [c EXCEPT !.sawMiss = b]

\* One field of a call changes at a time.
LEMMA SetOut ==
  ASSUME NEW fn, NEW keys, NEW saw, NEW out, NEW ptrs, NEW held, NEW c, NEW i, NEW x, NEW b,
         c = FanOf(fn, keys, saw, out, ptrs, held)
  PROVE  /\ WithOut(c, i, x) = FanOf(fn, keys, saw, [out EXCEPT ![i] = x], ptrs, held)
         /\ WithSeen(c, b) = FanOf(fn, keys, b, out, ptrs, held)
  BY SMTT(30) DEF FanOf, WithOut, WithSeen

\* What a hit changes in a call.
LEMMA HitFields ==
  ASSUME NEW c, NEW fn, NEW keys, NEW saw, NEW out, NEW ptrs, NEW held, NEW i, NEW n,
         c = FanOf(fn, keys, saw, out, ptrs, held)
  PROVE  Hit(c, i, n) = FanOf(fn, keys, saw, [out EXCEPT ![i] = "hit"], [ptrs EXCEPT ![i] = n],
                              held \cup {<<keys[i], n>>})
  <1> DEFINE out1 == [out EXCEPT ![i] = "hit"]
             ptrs1 == [ptrs EXCEPT ![i] = n]
             c1 == [c EXCEPT !.out = [@ EXCEPT ![i] = "hit"]]
             c2 == [c1 EXCEPT !.ptrs = [@ EXCEPT ![i] = n]]
             c3 == [c2 EXCEPT !.held = @ \cup {<<c.keys[i], n>>}]
  <1>1. Hit(c, i, n) = c3 BY DEF Hit
  <1>2. c1 = FanOf(fn, keys, saw, out1, ptrs, held) BY SMTT(30) DEF FanOf
  <1> HIDE DEF c1, out1
  <1>3. c2 = FanOf(fn, keys, saw, out1, ptrs1, held) BY <1>2, SMTT(30) DEF FanOf
  <1> HIDE DEF c2, ptrs1
  <1>4. c.keys = keys BY DEF FanOf
  <1>5. c3 = FanOf(fn, keys, saw, out1, ptrs1, held \cup {<<keys[i], n>>}) BY <1>3, <1>4, SMTT(30) DEF FanOf
  <1> QED BY <1>1, <1>5 DEF out1, ptrs1

\* A hit holds the copy it points to.
LEMMA HitStep ==
  ASSUME NEW c, NEW m, IsFan(c), HitsHeld(c), MissSeen(c, m), NEW i \in DOMAIN c.keys, NEW n
  PROVE  IsFan(Hit(c, i, n)) /\ HitsHeld(Hit(c, i, n)) /\ MissSeen(Hit(c, i, n), m)
  <1> DEFINE out == [c.out EXCEPT ![i] = "hit"]
             ptrs == [c.ptrs EXCEPT ![i] = n]
             held == c.held \cup {<<c.keys[i], n>>}
             d == Hit(c, i, n)
  <1>1. d = FanOf(c.fn, c.keys, c.sawMiss, out, ptrs, held)
    <2>1. c = FanOf(c.fn, c.keys, c.sawMiss, c.out, c.ptrs, c.held) BY DEF IsFan
    <2> QED BY <2>1, HitFields, SMTT(30)
  <1>2. /\ out = [j \in DOMAIN c.keys |-> out[j]] /\ ptrs = [j \in DOMAIN c.keys |-> ptrs[j]]
        /\ \A j \in DOMAIN c.keys : out[j] = IF j = i THEN "hit" ELSE c.out[j]
        /\ \A j \in DOMAIN c.keys : ptrs[j] = IF j = i THEN n ELSE c.ptrs[j]
        /\ c.held \subseteq held /\ <<c.keys[i], n>> \in held
    BY DEF IsFan
  <1> HIDE DEF out, ptrs, held, d
  <1>3. /\ d.fn = c.fn /\ d.keys = c.keys /\ d.sawMiss = c.sawMiss /\ d.out = out
        /\ d.ptrs = ptrs /\ d.held = held
    BY <1>1, FanFields, SMTT(30)
  <1>4. IsFan(d) BY <1>1, <1>2, <1>3 DEF IsFan
  <1>5. HitsHeld(d) BY <1>2, <1>3 DEF HitsHeld
  <1>6. MissSeen(d, m) BY <1>2, <1>3 DEF MissSeen, SawMiss
  <1> QED BY <1>4, <1>5, <1>6 DEF d

\* A call stays right as more keys are seen missing.
LEMMA CallGrowth ==
  ASSUME NEW c, NEW m, NEW m1, NEW abs, NEW abs1, CallOK(c, m, abs),
         c # NoCall => m \subseteq m1 /\ abs1 \subseteq m1
  PROVE  CallOK(c, m1, abs1)
  BY DEF CallOK, MissSeen

-----------------------------------------------------------------------------
\* A step of one call that makes no key absent.
LEMMA CallStep ==
  ASSUME CabiInv, NEW t \in Threads, NEW c, cabi' = [cabi EXCEPT ![t] = c],
         missing' = [u \in Threads |-> missing'[u]],
         \A u \in Threads \ {t} : missing'[u] = missing[u],
         cached' = [k \in CabiKeys |-> cached'[k]], Absents' \subseteq Absents,
         CallOK(c, missing'[t], Absents'), BorrowsHeld'
  PROVE  CabiInv'
  <1>1. /\ cabi' = [u \in Threads |-> cabi'[u]] /\ cabi'[t] = c
        /\ \A u \in Threads \ {t} : cabi'[u] = cabi[u]
    BY DEF CabiInv, CabiShape
  <1>2. CabiShape' BY <1>1 DEF CabiShape
  <1>3. ASSUME NEW u \in Threads PROVE CallOK(cabi'[u], missing'[u], Absents')
    <2>1. CASE u = t BY <1>1, <2>1
    <2>2. CASE u # t
      <3>1. CallOK(cabi[u], missing[u], Absents) BY DEF CabiInv
      <3>2. cabi[u] # NoCall => Absents' \subseteq missing[u] BY <3>1 DEF CallOK
      <3>3. CallOK(cabi[u], missing[u], Absents') BY <3>1, <3>2, CallGrowth
      <3> QED BY <1>1, <2>2, <3>3
    <2> QED BY <2>1, <2>2
  <1> QED BY <1>2, <1>3 DEF CabiInv

\* A call that returns keeps the invariant.
LEMMA ReturnStep ==
  ASSUME CabiInv, NEW t \in Threads, NEW fn, NEW rc, Return(t, fn, rc),
         cached' = [k \in CabiKeys |-> cached'[k]], Absents' \subseteq Absents, BorrowsHeld'
  PROVE  CabiInv'
  <1>1. /\ cabi' = [cabi EXCEPT ![t] = NoCall]
        /\ missing' = [u \in Threads |-> missing'[u]]
        /\ \A u \in Threads \ {t} : missing'[u] = missing[u]
    BY DEF Return, CabiInv, CabiShape
  <1>2. CallOK(NoCall, missing'[t], Absents') BY DEF CallOK
  <1> QED BY <1>1, <1>2, CallStep

\* A call that begins keeps the invariant.
LEMMA EnterStep ==
  ASSUME CabiInv, NEW t \in Threads, NEW fn, NEW keys, keys \in Seq(CabiKeys),
         Enter(t, Fan(fn, keys)), UNCHANGED <<cached, objects, borrows>>
  PROVE  CabiInv'
  <1>1. /\ cabi' = [cabi EXCEPT ![t] = Fan(fn, keys)]
        /\ missing' = [u \in Threads |-> missing'[u]] /\ missing'[t] = Absents
        /\ \A u \in Threads \ {t} : missing'[u] = missing[u]
    BY DEF Enter, CabiInv, CabiShape
  <1>2. Absents' = Absents BY DEF Absents, Absent
  <1>3. CallOK(Fan(fn, keys), missing'[t], Absents') BY <1>1, <1>2, FanBegins
  <1>4. cached' = [k \in CabiKeys |-> cached'[k]] /\ BorrowsHeld'
    BY DEF CabiInv, CabiShape, BorrowsHeld
  <1> QED BY <1>1, <1>2, <1>3, <1>4, CallStep

\* The keys of a chain are keys of the store.
LEMMA ChainKeys ==
  ASSUME NEW ns \in Spaces, NEW chain \in Chains
  PROVE  KeysOf(ns, chain) \in Seq(CabiKeys)
  <1>1. chain \in Seq(Blocks) BY CabiAssumption
  <1>2. Len(chain) \in Nat /\ \A i \in 1..Len(chain) : BlockKey(ns, chain[i]) \in CabiKeys
    BY <1>1, SMTT(30) DEF CabiKeys
  <1> QED BY <1>2, SMTT(30) DEF KeysOf

\* The calls that fan out over blocks begin.
LEMMA GetBegins ==
  ASSUME CabiInv, NEW t \in Threads, NEW ns \in Spaces,
         \/ \E chain \in Chains : GetBlocks(t, ns, chain) \/ PutBlocks(t, ns, chain)
         \/ \E tip \in Tips : GetRawTail(t, ns, tip)
  PROVE  CabiInv'
  <1>1. ASSUME NEW chain \in Chains, GetBlocks(t, ns, chain) \/ PutBlocks(t, ns, chain)
        PROVE  CabiInv'
    <2>1. \E fn : Enter(t, Fan(fn, KeysOf(ns, chain))) BY <1>1 DEF GetBlocks, PutBlocks
    <2>2. UNCHANGED <<cached, objects, borrows>> BY <1>1 DEF GetBlocks, PutBlocks
    <2> QED BY <2>1, <2>2, ChainKeys, EnterStep
  <1>2. ASSUME NEW tip \in Tips, GetRawTail(t, ns, tip) PROVE CabiInv'
    <2>1. <<TailKey(ns, tip)>> \in Seq(CabiKeys)
      <3>1. TailKey(ns, tip) \in CabiKeys BY SMTT(30) DEF CabiKeys
      <3> QED BY <3>1, SMTT(30)
    <2>2. Enter(t, Fan("get_tail", <<TailKey(ns, tip)>>)) /\ UNCHANGED <<cached, objects, borrows>>
      BY <1>2 DEF GetRawTail
    <2> QED BY <2>1, <2>2, EnterStep
  <1> QED BY <1>1, <1>2

\* A set of natural numbers has a least one.
LEMMA LeastNatural ==
  ASSUME NEW R, IsWellFoundedOn(R, Nat), \A x, y \in Nat : y < x => <<y, x>> \in R,
         NEW S, S \subseteq Nat, S # {}
  PROVE  \E x \in S : \A y \in S : x <= y
  <1>1. PICK x \in S : \A y \in S : ~(<<y, x>> \in R) BY WFMin
  <1>2. ASSUME NEW y \in S, ~(x <= y) PROVE FALSE
    <2>1. x \in Nat /\ y \in Nat /\ y < x BY <1>2, SMTT(30)
    <2>2. <<y, x>> \in R BY <2>1
    <2> QED BY <1>1, <2>2
  <1> QED BY <1>2

\* The buffer that is chosen is a free one.
LEMMA BufferChosen ==
  ASSUME NEW k, FreeBuffers(k) # {}
  PROVE  NewBuffer(k) \in FreeBuffers(k) /\ NewBuffer(k) # 0
  <1>1. FreeBuffers(k) \subseteq Nat /\ 0 \notin FreeBuffers(k)
    BY CabiAssumption, SMTT(30) DEF FreeBuffers
  <1> DEFINE S == FreeBuffers(k)
  <1>2. S \subseteq Nat /\ S # {} /\ 0 \notin S BY <1>1
  <1> HIDE DEF S
  <1> DEFINE R == OpToRel(<, Nat)
  <1>3. \A x, y \in Nat : y < x => <<y, x>> \in R BY DEF OpToRel
  <1>4. IsWellFoundedOn(R, Nat) BY NatLessThanWellFounded
  <1> HIDE DEF R
  <1>6. \E x \in S : \A y \in S : x <= y BY <1>2, <1>3, <1>4, LeastNatural
  <1>7. Min(S) \in S BY <1>6 DEF Min
  <1> QED BY <1>2, <1>7 DEF NewBuffer, S

\* A cache entry that is written makes no key absent.
LEMMA FillPresent ==
  ASSUME CabiInv, NEW k, FreeBuffers(k) # {}, cached' = [cached EXCEPT ![k] = NewBuffer(k)],
         objects \subseteq objects'
  PROVE  cached' = [x \in CabiKeys |-> cached'[x]] /\ Absents' \subseteq Absents
  <1>1. NewBuffer(k) # 0 BY BufferChosen
  <1>2. /\ cached' = [x \in CabiKeys |-> cached'[x]]
        /\ \A x \in CabiKeys : cached'[x] = IF x = k THEN NewBuffer(k) ELSE cached[x]
    BY DEF CabiInv, CabiShape
  <1> HIDE DEF NewBuffer
  <1> QED BY <1>1, <1>2 DEF Absents, Absent
\* One thread of a batched GET: it gives up, finds the key absent, hits or fails.
LEMMA ReadStep ==
  ASSUME CabiInv, NEW t \in Threads, cabi[t].at = "fan", NEW i \in DOMAIN cabi[t].out, ReadBlock(t, i)
  PROVE  CabiInv'
  <1> DEFINE c == cabi[t]
             k == c.keys[i]
             m == missing[t]
  <1>1. /\ IsFan(c) /\ HitsHeld(c) /\ MissSeen(c, m) /\ Absents \subseteq m
        /\ UNCHANGED <<objects, borrows, missing>> /\ BorrowsHeld'
        /\ missing' = [u \in Threads |-> missing'[u]]
    <2>1. CallOK(c, m, Absents) /\ c # NoCall BY SMTT(30) DEF CabiInv, NoCall
    <2>2. UNCHANGED <<objects, borrows, missing>> BY DEF ReadBlock
    <2> QED BY <2>1, <2>2 DEF CallOK, CabiInv, CabiShape, BorrowsHeld
  <1>2. /\ c = FanOf(c.fn, c.keys, c.sawMiss, c.out, c.ptrs, c.held)
        /\ i \in DOMAIN c.keys /\ k \in CabiKeys
    BY <1>1 DEF IsFan
  <1>3. ASSUME NEW d, IsFan(d), HitsHeld(d), MissSeen(d, m), cabi' = [cabi EXCEPT ![t] = d],
               cached' = [x \in CabiKeys |-> cached'[x]], Absents' \subseteq Absents
        PROVE  CabiInv'
    <2>1. CallOK(d, missing'[t], Absents') BY <1>1, <1>3 DEF CallOK
    <2> QED BY <1>1, <1>3, <2>1, CallStep
  <1>4. ASSUME UNCHANGED cached
        PROVE  cached' = [x \in CabiKeys |-> cached'[x]] /\ Absents' \subseteq Absents
    BY <1>1, <1>4 DEF CabiInv, CabiShape, Absents, Absent
  <1>5. ASSUME NEW x \in {"miss", "err"}, NEW saw,
               \/ \E n \in DOMAIN c.keys : c.keys[n] \in m
               \/ x # "miss" /\ saw = c.sawMiss,
               cabi' = [cabi EXCEPT ![t] = FanOf(c.fn, c.keys, saw, [c.out EXCEPT ![i] = x], c.ptrs, c.held)],
               UNCHANGED cached
        PROVE  CabiInv'
    <2> DEFINE d == FanOf(c.fn, c.keys, saw, [c.out EXCEPT ![i] = x], c.ptrs, c.held)
    <2>1. IsFan(d) /\ HitsHeld(d) /\ MissSeen(d, m)
      <3> HIDE DEF c, m
      <3> QED BY <1>1, <1>2, <1>5, OutStep
    <2>2. cabi' = [cabi EXCEPT ![t] = d] BY <1>5
    <2> HIDE DEF d, c, m
    <2> QED BY <1>3, <1>4, <1>5, <2>1, <2>2
  <1>6. CASE c.sawMiss /\ UNCHANGED cached /\ cabi' = [cabi EXCEPT ![t].out[i] = "miss"]
    <2>1. \E n \in DOMAIN c.keys : c.keys[n] \in m BY <1>1, <1>6 DEF MissSeen, SawMiss
    <2>2. WithOut(c, i, "miss")
             = FanOf(c.fn, c.keys, c.sawMiss, [c.out EXCEPT ![i] = "miss"], c.ptrs, c.held)
      <3> HIDE DEF c
      <3> QED BY <1>2, SetOut, SMTT(30)
    <2>3. cabi' = [cabi EXCEPT ![t] = WithOut(c, i, "miss")] BY <1>6 DEF WithOut
    <2> QED BY <1>5, <1>6, <2>1, <2>2, <2>3
  <1>7. CASE Absent(k) /\ UNCHANGED cached
             /\ cabi' = [cabi EXCEPT ![t].out[i] = "miss", ![t].sawMiss = TRUE]
    <2>1. \E n \in DOMAIN c.keys : c.keys[n] \in m BY <1>1, <1>2, <1>7 DEF Absents
    <2>2. WithSeen(WithOut(c, i, "miss"), TRUE)
             = FanOf(c.fn, c.keys, TRUE, [c.out EXCEPT ![i] = "miss"], c.ptrs, c.held)
      <3> HIDE DEF c
      <3>1. WithOut(c, i, "miss")
               = FanOf(c.fn, c.keys, c.sawMiss, [c.out EXCEPT ![i] = "miss"], c.ptrs, c.held)
        BY <1>2, SetOut, SMTT(30)
      <3>2. \A b : WithSeen(WithOut(c, i, "miss"), b)
                      = FanOf(c.fn, c.keys, b, [c.out EXCEPT ![i] = "miss"], c.ptrs, c.held)
        BY <3>1, SetOut, SMTT(30)
      <3> QED BY <3>2
    <2>3. cabi' = [cabi EXCEPT ![t] = WithSeen(WithOut(c, i, "miss"), TRUE)]
      BY <1>7 DEF CabiInv, CabiShape, WithSeen, WithOut
    <2> QED BY <1>5, <1>7, <2>1, <2>2, <2>3
  <1>8. CASE UNCHANGED cached /\ cabi' = [cabi EXCEPT ![t] = Failed(c, i)]
    <2>1. WithOut(c, i, "err") = FanOf(c.fn, c.keys, c.sawMiss, [c.out EXCEPT ![i] = "err"], c.ptrs, c.held)
      <3> HIDE DEF c
      <3> QED BY <1>2, SetOut, SMTT(30)
    <2>2. Failed(c, i) = WithOut(c, i, "err") BY DEF Failed, WithOut
    <2> QED BY <1>5, <1>8, <2>1, <2>2
  <1>9. ASSUME NEW n, cabi' = [cabi EXCEPT ![t] = Hit(c, i, n)],
               cached' = [x \in CabiKeys |-> cached'[x]], Absents' \subseteq Absents
        PROVE  CabiInv'
    <2> HIDE DEF c, m
    <2>1. IsFan(Hit(c, i, n)) /\ HitsHeld(Hit(c, i, n)) /\ MissSeen(Hit(c, i, n), m)
      BY <1>1, <1>2, HitStep
    <2> QED BY <1>3, <1>9, <2>1
  <1>10. CASE UNCHANGED cached /\ cabi' = [cabi EXCEPT ![t] = Hit(c, i, cached[k])]
    BY <1>4, <1>9, <1>10
  <1>11. CASE /\ FreeBuffers(k) # {} /\ cached' = [cached EXCEPT ![k] = NewBuffer(k)]
              /\ cabi' = [cabi EXCEPT ![t] = Hit(c, i, NewBuffer(k))]
    <2>1. cached' = [x \in CabiKeys |-> cached'[x]] /\ Absents' \subseteq Absents
      BY <1>1, <1>11, FillPresent
    <2> QED BY <1>9, <1>11, <2>1
  <1> QED BY <1>6, <1>7, <1>8, <1>10, <1>11 DEF ReadBlock
\* One thread of a batched PUT.
LEMMA WriteStep ==
  ASSUME CabiInv, NEW t \in Threads, cabi[t].at = "fan", NEW i \in DOMAIN cabi[t].out, WriteBlock(t, i)
  PROVE  CabiInv'
  <1> DEFINE c == cabi[t]
             m == missing[t]
  <1>1. /\ IsFan(c) /\ HitsHeld(c) /\ MissSeen(c, m) /\ Absents \subseteq m
        /\ UNCHANGED <<borrows, missing>> /\ objects \subseteq objects' /\ BorrowsHeld'
        /\ missing' = [u \in Threads |-> missing'[u]]
    <2>1. CallOK(c, m, Absents) /\ c # NoCall BY SMTT(30) DEF CabiInv, NoCall
    <2>2. UNCHANGED <<borrows, missing>> /\ objects \subseteq objects' BY DEF WriteBlock
    <2> QED BY <2>1, <2>2 DEF CallOK, CabiInv, CabiShape, BorrowsHeld
  <1>2. /\ c = FanOf(c.fn, c.keys, c.sawMiss, c.out, c.ptrs, c.held)
        /\ i \in DOMAIN c.keys
    BY <1>1 DEF IsFan
  <1>3. cached' = [x \in CabiKeys |-> cached'[x]] /\ Absents' \subseteq Absents
    <2>1. \E k : FreeBuffers(k) # {} /\ cached' = [cached EXCEPT ![k] = NewBuffer(k)]
      BY DEF WriteBlock, Fill
    <2> QED BY <1>1, <2>1, FillPresent
  <1>4. PICK x \in {"ok", "err"} : cabi' = [cabi EXCEPT ![t] = WithOut(c, i, x)]
    BY DEF WriteBlock, WithOut
  <1> DEFINE d == WithOut(c, i, x)
  <1>5. IsFan(d) /\ HitsHeld(d) /\ MissSeen(d, m)
    <2> HIDE DEF c, m
    <2>1. d = FanOf(c.fn, c.keys, c.sawMiss, [c.out EXCEPT ![i] = x], c.ptrs, c.held)
      BY <1>2, SetOut, SMTT(30)
    <2> HIDE DEF d
    <2> QED BY <1>1, <1>2, <2>1, OutStep
  <1>6. CallOK(d, missing'[t], Absents') BY <1>1, <1>3, <1>5 DEF CallOK
  <1> HIDE DEF d
  <1>7. cabi' = [cabi EXCEPT ![t] = d] BY <1>4 DEF d
  <1> QED BY <1>1, <1>3, <1>6, <1>7, CallStep

\* The answers are collected; a borrow takes over what the hits hold.
LEMMA CollectStep ==
  ASSUME CabiInv, NEW t \in Threads, CollectGet(t) \/ CollectPut(t)
  PROVE  CabiInv'
  <1>1. UNCHANGED <<objects, cached>> BY DEF CollectGet, CollectPut, cabiStore
  <1>2. cached' = [x \in CabiKeys |-> cached'[x]] /\ Absents' \subseteq Absents
    BY <1>1 DEF CabiInv, CabiShape, Absents, Absent
  <1>3. \E fn, rc : Return(t, fn, rc) BY DEF CollectGet, CollectPut
  <1>4. BorrowsHeld'
    <2>1. CASE UNCHANGED borrows BY <2>1 DEF CabiInv, BorrowsHeld
    <2>2. CASE /\ cabi[t].at = "fan" /\ Decided(cabi[t]) /\ NotHit(cabi[t]) = {}
               /\ borrows' = borrows \cup {Lend(cabi[t])}
      <3> DEFINE c == cabi[t]
                 b == Lend(c)
      <3>1. CallOK(c, missing[t], Absents) /\ c # NoCall BY <2>2, SMTT(30) DEF CabiInv, NoCall
      <3>2. IsFan(c) /\ HitsHeld(c) BY <3>1 DEF CallOK
      <3>3. \A i \in DOMAIN c.out : c.out[i] = "hit"
        BY <2>2 DEF Decided, NotHit
      <3>4. b.keys = c.keys /\ b.ptrs = c.ptrs /\ b.held = c.held BY DEF Lend
      <3> HIDE DEF b, c
      <3>5. \A i \in DOMAIN b.ptrs : <<b.keys[i], b.ptrs[i]>> \in b.held
        BY <3>2, <3>3, <3>4 DEF IsFan, HitsHeld
      <3>6. borrows' = borrows \cup {b} BY <2>2 DEF b, c
      <3> QED BY <3>5, <3>6 DEF CabiInv, BorrowsHeld
    <2> QED BY <2>1, <2>2 DEF CollectGet, CollectPut
  <1> QED BY <1>2, <1>3, <1>4, ReturnStep

\* Calls that run in one step.
LEMMA ShortCallStep ==
  ASSUME CabiInv, NEW t \in Threads,
         \/ Open(t) \/ Refuse(t) \/ \E chain \in Chains : Lookup(t, chain)
         \/ \E ns \in Spaces, tip \in Tips : PutRawTail(t, ns, tip)
  PROVE  CabiInv'
  <1>1. UNCHANGED borrows /\ BorrowsHeld'
    BY DEF Open, Refuse, Lookup, PutRawTail, CabiInv, BorrowsHeld
  <1>2. \E fn, rc : Return(t, fn, rc) BY DEF Open, Refuse, Lookup, PutRawTail
  <1>3. cached' = [x \in CabiKeys |-> cached'[x]] /\ Absents' \subseteq Absents
    <2>1. CASE UNCHANGED <<cached, objects>>
      BY <2>1 DEF CabiInv, CabiShape, Absents, Absent
    <2>2. CASE \E ns \in Spaces, tip \in Tips : PutRawTail(t, ns, tip)
      <3>1. /\ objects \subseteq objects'
            /\ \E k : FreeBuffers(k) # {} /\ cached' = [cached EXCEPT ![k] = NewBuffer(k)]
        BY <2>2 DEF PutRawTail, BackendPut, Fill
      <3> QED BY <3>1, FillPresent
    <2> QED BY <2>1, <2>2 DEF Open, Refuse, Lookup, cabiStore
  <1> QED BY <1>1, <1>2, <1>3, ReturnStep

\* The store's side: no call moves, and what becomes absent enters the histories.
LEMMA StoreStep ==
  ASSUME CabiInv, UNCHANGED cabi, borrows' \subseteq borrows,
         cached' = [k \in CabiKeys |-> cached'[k]], missing' = [t \in Threads |-> missing'[t]],
         \A t \in Threads : cabi[t] # NoCall =>
            missing[t] \subseteq missing'[t] /\ Absents' \subseteq Absents \cup missing'[t]
  PROVE  CabiInv'
  <1>1. CabiShape' BY DEF CabiInv, CabiShape
  <1>2. BorrowsHeld' BY DEF CabiInv, BorrowsHeld
  <1>3. ASSUME NEW t \in Threads PROVE CallOK(cabi'[t], missing'[t], Absents')
    <2>1. CallOK(cabi[t], missing[t], Absents) BY DEF CabiInv
    <2>2. cabi[t] # NoCall => missing[t] \subseteq missing'[t] /\ Absents' \subseteq missing'[t]
      BY <2>1 DEF CallOK
    <2> QED BY <2>1, <2>2, CallGrowth
  <1> QED BY <1>1, <1>2, <1>3 DEF CabiInv

\* The steps that belong to no call of a thread.
LEMMA OtherStep ==
  ASSUME CabiInv,
         \/ FreeHandle
         \/ \E b \in borrows : ReleaseBorrow(b)
         \/ \E k \in pending : FlushTail(k)
         \/ \E k \in CabiKeys : ForgetPayload(k)
         \/ \E ns \in Spaces, b \in Blocks : EvictBlock(ns, b)
         \/ UNCHANGED cabiVars
  PROVE  CabiInv'
  <1>0. CabiShape BY DEF CabiInv
  <1>1. UNCHANGED cabi /\ borrows' \subseteq borrows
    BY DEF FreeHandle, ReleaseBorrow, FlushTail, ForgetPayload, EvictBlock, cabiVars
  <1>2. CASE (\E b \in borrows : ReleaseBorrow(b)) \/ (\E k \in pending : FlushTail(k)) \/ UNCHANGED cabiVars
    <2>1. UNCHANGED <<cached, missing>> /\ objects \subseteq objects'
      BY <1>2 DEF ReleaseBorrow, FlushTail, cabiVars, cabiStore
    <2>2. Absents' \subseteq Absents BY <2>1 DEF Absents, Absent
    <2> QED BY <1>0, <1>1, <2>1, <2>2, StoreStep DEF CabiShape
  <1>3. CASE FreeHandle
    <2>1. UNCHANGED missing /\ \A t \in Threads : cabi[t] = NoCall BY <1>3 DEF FreeHandle
    <2>2. cached' = [k \in CabiKeys |-> cached'[k]] BY <1>0, <1>3 DEF FreeHandle, CabiShape
    <2> QED BY <1>0, <1>1, <2>1, <2>2, StoreStep DEF CabiShape
  <1>4. ASSUME NEW k, cached' = [cached EXCEPT ![k] = 0], objects' \in {objects, objects \ {k}},
               \/ UNCHANGED missing /\ k \in objects'
               \/ BecomeAbsent({k})
        PROVE  CabiInv'
    <2>1. /\ cached' = [x \in CabiKeys |-> cached'[x]]
          /\ \A x \in CabiKeys \ {k} : cached'[x] = cached[x]
      BY <1>0, <1>4 DEF CabiShape
    <2>2. Absents' \subseteq Absents \cup {k} /\ (k \in objects' => Absents' \subseteq Absents)
      BY <1>4, <2>1 DEF Absents, Absent
    <2>3. missing' = [t \in Threads |-> missing'[t]]
      BY <1>0, <1>4 DEF CabiShape, BecomeAbsent
    <2>4. ASSUME NEW t \in Threads, cabi[t] # NoCall
          PROVE  missing[t] \subseteq missing'[t] /\ Absents' \subseteq Absents \cup missing'[t]
      BY <1>4, <2>2, <2>4 DEF BecomeAbsent
    <2> QED BY <1>1, <2>1, <2>3, <2>4, StoreStep
  <1>5. CASE \E k \in CabiKeys : ForgetPayload(k)
    BY <1>4, <1>5 DEF ForgetPayload
  <1>6. CASE \E ns \in Spaces, b \in Blocks : EvictBlock(ns, b)
    BY <1>4, <1>6 DEF EvictBlock
  <1> QED BY <1>2, <1>3, <1>5, <1>6

\* CabiInv is inductive.
LEMMA CabiInductive == (CabiInit => CabiInv) /\ (CabiInv /\ [CabiNext]_cabiVars => CabiInv')
  <1>1. ASSUME CabiInit PROVE CabiInv
    BY <1>1 DEF CabiInit, CabiInv, CabiShape, BorrowsHeld, CallOK
  <1>2. ASSUME CabiInv, [CabiNext]_cabiVars PROVE CabiInv'
    <2> USE <1>2
    <2>1. ASSUME NEW t \in Threads, NEW i \in (IF cabi[t].at = "fan" THEN DOMAIN cabi[t].out ELSE {}),
                 ReadBlock(t, i) \/ WriteBlock(t, i)
          PROVE  CabiInv'
      BY <2>1, ReadStep, WriteStep
    <2> QED BY <2>1, ShortCallStep, CollectStep, GetBegins, OtherStep DEF CabiNext
  <1> QED BY <1>1, <1>2

\* A batched GET that has seen a miss had a key that was absent at some time of the
\* call: a thread of the fan-out gives up only on a flag raised by one that found its
\* key absent, and what is evicted or dropped meanwhile counts as absent.
THEOREM MissIsRealHolds == CabiSpec => []MissIsReal
  <1>1. ASSUME CabiInv PROVE MissIsReal
    <2> SUFFICES ASSUME NEW t \in Threads, cabi[t].at = "fan",
                        \E i \in DOMAIN cabi[t].out : cabi[t].out[i] = "miss"
                 PROVE  \E i \in DOMAIN cabi[t].keys : cabi[t].keys[i] \in missing[t]
      BY DEF MissIsReal
    <2>1. CallOK(cabi[t], missing[t], Absents) /\ cabi[t] # NoCall BY <1>1, SMTT(30) DEF CabiInv, NoCall
    <2>2. IsFan(cabi[t]) /\ MissSeen(cabi[t], missing[t]) BY <2>1 DEF CallOK
    <2> QED BY <2>2 DEF IsFan, MissSeen, SawMiss
  <1> QED BY <1>1, CabiInductive, PTL DEF CabiSpec

\* What is borrowed is among the copies held.
LEMMA BorrowsIn == ASSUME CabiInv PROVE BorrowsIntact
  <1> SUFFICES ASSUME NEW r \in borrows, NEW i \in DOMAIN r.ptrs
               PROVE  <<r.keys[i], r.ptrs[i]>> \in HeldCopies
    BY DEF BorrowsIntact
  <1> DEFINE x == <<r.keys[i], r.ptrs[i]>>
             lent == UNION {b.held : b \in borrows}
             used == {<<k, cached[k]>> : k \in CabiKeys}
                        \cup (UNION {cabi[t].held : t \in {u \in Threads : cabi[u].at = "fan"}})
  <1>1. x \in r.held BY DEF CabiInv, BorrowsHeld
  <1>2. HeldCopies = used \cup lent BY DEF HeldCopies
  <1> HIDE DEF x, used
  <1>3. x \in lent BY <1>1
  <1> HIDE DEF lent
  <1>4. x \in HeldCopies BY <1>2, <1>3
  <1> QED BY <1>4 DEF x

\* The copies behind the pointers of a borrow are held, and so not written to, until
\* its release: whatever the cache drops or evicts, whatever is put again, and also
\* after the handle is freed.
THEOREM BorrowsIntactHolds == CabiSpec => []BorrowsIntact
  BY BorrowsIn, CabiInductive, PTL DEF CabiSpec

\* The copy that enters the cache is a free one.
LEMMA CopyFree ==
  ASSUME CabiInv, [CabiNext]_cabiVars, NEW k \in CabiKeys, cached'[k] # cached[k], cached'[k] # 0
  PROVE  <<k, cached'[k]>> \notin HeldCopies
  <1>1. ASSUME NEW x, FreeBuffers(x) # {}, cached' = [cached EXCEPT ![x] = NewBuffer(x)]
        PROVE  <<k, cached'[k]>> \notin HeldCopies
    <2>1. x = k /\ cached'[k] = NewBuffer(k) BY <1>1 DEF CabiInv, CabiShape
    <2>2. NewBuffer(k) \in FreeBuffers(k) BY <1>1, <2>1, BufferChosen
    <2> HIDE DEF NewBuffer
    <2> QED BY <2>1, <2>2 DEF FreeBuffers
  <1>2. \/ \E x : FreeBuffers(x) # {} /\ cached' = [cached EXCEPT ![x] = NewBuffer(x)]
        \/ \E x : cached' = [cached EXCEPT ![x] = 0]
        \/ cached' = [x \in CabiKeys |-> 0]
        \/ UNCHANGED cached
    <2>1. ASSUME NEW t \in Threads, NEW i, ReadBlock(t, i) \/ WriteBlock(t, i)
          PROVE  \/ \E x : FreeBuffers(x) # {} /\ cached' = [cached EXCEPT ![x] = NewBuffer(x)]
                 \/ UNCHANGED cached
      BY <2>1 DEF ReadBlock, WriteBlock, Fill
    <2>2. ASSUME NEW t \in Threads, NEW ns \in Spaces, NEW tip \in Tips, PutRawTail(t, ns, tip)
          PROVE  \E x : FreeBuffers(x) # {} /\ cached' = [cached EXCEPT ![x] = NewBuffer(x)]
      BY <2>2 DEF PutRawTail, BackendPut, Fill
    <2>3. ASSUME NEW t \in Threads,
                 \/ Open(t) \/ Refuse(t) \/ CollectGet(t) \/ CollectPut(t)
                 \/ \E chain \in Chains : Lookup(t, chain)
                 \/ \E ns \in Spaces, chain \in Chains : GetBlocks(t, ns, chain) \/ PutBlocks(t, ns, chain)
                 \/ \E ns \in Spaces, tip \in Tips : GetRawTail(t, ns, tip)
          PROVE  UNCHANGED cached
      BY <2>3 DEF Open, Refuse, CollectGet, CollectPut, Lookup, GetBlocks, PutBlocks, GetRawTail, cabiStore
    <2>4. ASSUME \/ \E b \in borrows : ReleaseBorrow(b)
                 \/ \E x \in pending : FlushTail(x)
                 \/ UNCHANGED cabiVars
          PROVE  UNCHANGED cached
      BY <2>4 DEF ReleaseBorrow, FlushTail, cabiVars, cabiStore
    <2>5. ASSUME \/ \E x \in CabiKeys : ForgetPayload(x)
                 \/ \E ns \in Spaces, b \in Blocks : EvictBlock(ns, b)
          PROVE  \E x : cached' = [cached EXCEPT ![x] = 0]
      BY <2>5 DEF ForgetPayload, EvictBlock
    <2>6. ASSUME FreeHandle PROVE cached' = [x \in CabiKeys |-> 0] \/ UNCHANGED cached
      BY <2>6 DEF FreeHandle
    <2> QED BY <2>1, <2>2, <2>3, <2>4, <2>5, <2>6 DEF CabiNext
  <1>3. CASE \E x : cached' = [cached EXCEPT ![x] = 0] BY <1>3 DEF CabiInv, CabiShape
  <1>4. CASE cached' = [x \in CabiKeys |-> 0] BY <1>4
  <1> QED BY <1>1, <1>2, <1>3, <1>4

\* What enters the cache is never written over a payload that a borrow points at.
NoCopyOverBorrow ==
    \A k \in CabiKeys : cached'[k] # cached[k] /\ cached'[k] # 0 =>
        \A b \in borrows : \A i \in DOMAIN b.ptrs : <<b.keys[i], b.ptrs[i]>> # <<k, cached'[k]>>

\* A payload that a read or a put brings into the cache is a copy of its own, never one
\* that the engine still borrows.
THEOREM NoCopyOverBorrowHolds == CabiSpec => [][NoCopyOverBorrow]_cabiVars
  <1>2. ASSUME CabiInv, [CabiNext]_cabiVars PROVE [NoCopyOverBorrow]_cabiVars
    <2>1. NoCopyOverBorrow
      <3> SUFFICES ASSUME NEW k \in CabiKeys, cached'[k] # cached[k], cached'[k] # 0,
                          NEW b \in borrows, NEW i \in DOMAIN b.ptrs,
                          <<b.keys[i], b.ptrs[i]>> = <<k, cached'[k]>>
                   PROVE  FALSE
        BY DEF NoCopyOverBorrow
      <3>1. <<k, cached'[k]>> \notin HeldCopies BY <1>2, CopyFree
      <3>2. <<b.keys[i], b.ptrs[i]>> \in HeldCopies BY <1>2, BorrowsIn DEF BorrowsIntact
      <3> QED BY <3>1, <3>2
    <2> QED BY <2>1
  <1> QED BY <1>2, CabiInductive, PTL DEF CabiSpec

-----------------------------------------------------------------------------
\* What publish_prefix keeps: calls are sequences, and a block has the payload of
\* the latest publication of the chain up to it.
PayloadLists == UNION {[1 .. n -> PxPayloads] : n \in 0 .. MaxChain}
CallsTyped == publishedCalls \in Seq([tenant : PxTenants, tokens : PxChains, payloads : PayloadLists])
BlockLatest(t, c, i) ==
    /\ ChainKey(t, c, i) \in DOMAIN kvBlocks <=> CallsWith(t, c, i) # {}
    /\ CallsWith(t, c, i) # {} =>
        \E n \in CallsWith(t, c, i) :
            /\ \A m \in CallsWith(t, c, i) : m <= n
            /\ kvBlocks[ChainKey(t, c, i)] = publishedCalls[n].payloads[i]
PrefixInv == CallsTyped /\ \A t \in PxTenants, c \in PxChains : \A i \in DOMAIN c : BlockLatest(t, c, i)

\* Chains are sequences.
LEMMA ChainSeq == ASSUME NEW c \in PxChains PROVE c \in Seq(PxTokens) /\ DOMAIN c = 1 .. Len(c) /\ Len(c) \in Nat
<1>1. PICK n \in 0 .. MaxChain : c \in [1 .. n -> PxTokens]
  BY DEF PxChains
<1>2. n \in Nat
  BY <1>1, SMTT(30)
<1> QED  BY <1>1, <1>2, SMTT(30)

\* The key of a block tells the tenant and the prefix that it ends.
LEMMA KeyFields ==
  ASSUME NEW t \in PxTenants, NEW c \in PxChains, NEW i \in DOMAIN c
  PROVE  /\ ChainKey(t, c, i) = [hash |-> <<t, SubSeq(c, 1, i)>>, index |-> i - 1]
         /\ ChainKey(t, c, i).hash = <<t, SubSeq(c, 1, i)>>
         /\ i \in Nat /\ ChainKey(t, c, i).index + 1 = i
<1>1. i \in Nat
  BY ChainSeq, SMTT(30)
<1>2. ChainKey(t, c, i) = [hash |-> <<t, SubSeq(c, 1, i)>>, index |-> i - 1]
  BY DEF ChainKey, ChainedPrefixHashes
<1>3. ChainKey(t, c, i).hash = <<t, SubSeq(c, 1, i)>> /\ ChainKey(t, c, i).index = i - 1
  BY <1>2, SMTT(30)
<1> QED  BY <1>1, <1>2, <1>3, SMTT(30)

\* A call that is not publish_prefix.
LEMMA StoreSame == ASSUME PrefixInv, UNCHANGED <<kvBlocks, publishedCalls>> PROVE PrefixInv'
<1>1. \A t, c, i : CallsWith(t, c, i)' = CallsWith(t, c, i)
  BY DEF CallsWith
<1>2. ASSUME NEW t \in PxTenants, NEW c \in PxChains, NEW i \in DOMAIN c PROVE BlockLatest(t, c, i)'
  <2>1. BlockLatest(t, c, i)
    BY DEF PrefixInv
  <2> QED  BY <1>1, <2>1 DEF BlockLatest
<1> QED  BY <1>2 DEF PrefixInv, CallsTyped

\* publish_prefix: the new call is the latest one of the blocks it has.
LEMMA PublishKeeps ==
  ASSUME PrefixInv, NEW u \in PxTenants, NEW d \in PxChains,
         NEW p \in PayloadLists, PublishPrefix(u, d, p)
  PROVE  PrefixInv'
<1> DEFINE new == [tenant |-> u, tokens |-> d, payloads |-> p]
           last == Len(publishedCalls) + 1
           keys == {ChainKey(u, d, i) : i \in DOMAIN d}
<1>1. CASE UNCHANGED <<kvBlocks, publishedCalls>>
  BY <1>1, StoreSame
<1>2. CASE kvBlocks' = PutChain(u, d, p) /\ publishedCalls' = Append(publishedCalls, new)
  <2>1. /\ DOMAIN kvBlocks' = DOMAIN kvBlocks \cup keys
        /\ \A k \in keys : kvBlocks'[k] = p[k.index + 1]
        /\ \A k \in DOMAIN kvBlocks : k \notin keys => kvBlocks'[k] = kvBlocks[k]
    BY <1>2 DEF PutChain
  <2>2. new \in [tenant : PxTenants, tokens : PxChains, payloads : PayloadLists]
    OBVIOUS
  <2>3. new.tenant = u /\ new.tokens = d /\ new.payloads = p
    OBVIOUS
  <2> HIDE DEF new
  <2>4. /\ CallsTyped' /\ last \in Nat /\ last \notin DOMAIN publishedCalls
        /\ DOMAIN publishedCalls' = DOMAIN publishedCalls \cup {last} /\ publishedCalls'[last] = new
        /\ \A n \in DOMAIN publishedCalls : publishedCalls'[n] = publishedCalls[n] /\ n <= last
    BY <1>2, <2>2, SMTT(30) DEF CallsTyped, PrefixInv
  <2> HIDE DEF last
  <2>5. last <= last
    BY <2>4, SMTT(30)
  <2>6. ASSUME NEW t \in PxTenants, NEW c \in PxChains, NEW i \in DOMAIN c PROVE BlockLatest(t, c, i)'
    <3> DEFINE key == ChainKey(t, c, i)
               calls == CallsWith(t, c, i)
    <3>1. BlockLatest(t, c, i)
      BY DEF PrefixInv
    <3>2. i \in Nat /\ (i <= Len(d) <=> i \in DOMAIN d)
      BY ChainSeq, SMTT(30)
    <3>3. key \in keys <=> t = u /\ i <= Len(d) /\ SubSeq(d, 1, i) = SubSeq(c, 1, i)
      <4>1. ASSUME key \in keys PROVE t = u /\ i \in DOMAIN d /\ SubSeq(d, 1, i) = SubSeq(c, 1, i)
        <5>1. PICK j \in DOMAIN d : key = ChainKey(u, d, j)
          BY <4>1
        <5>2. t = u /\ i = j /\ SubSeq(c, 1, i) = SubSeq(d, 1, j)
          <6>1. key.hash = <<t, SubSeq(c, 1, i)>> /\ key.index + 1 = i
            BY KeyFields
          <6>2. ChainKey(u, d, j).hash = <<u, SubSeq(d, 1, j)>> /\ ChainKey(u, d, j).index + 1 = j
            BY KeyFields
          <6> HIDE DEF key
          <6>3. <<t, SubSeq(c, 1, i)>> = <<u, SubSeq(d, 1, j)>> /\ i = j
            BY <5>1, <6>1, <6>2
          <6> QED  BY <6>3
        <5> QED  BY <5>2
      <4>2. ASSUME t = u, i \in DOMAIN d, SubSeq(d, 1, i) = SubSeq(c, 1, i) PROVE key \in keys
        <5>1. key = ChainKey(u, d, i)
          <6>1. key = [hash |-> <<t, SubSeq(c, 1, i)>>, index |-> i - 1]
            BY KeyFields
          <6>2. ChainKey(u, d, i) = [hash |-> <<u, SubSeq(d, 1, i)>>, index |-> i - 1]
            BY <4>2, KeyFields
          <6> HIDE DEF key
          <6> QED  BY <4>2, <6>1, <6>2
        <5> QED  BY <4>2, <5>1
      <4> QED  BY <3>2, <4>1, <4>2
    <3>4. key.index + 1 = i
      BY KeyFields
    <3> HIDE DEF key, keys
    <3>5. CASE key \in keys
      <4>1. CallsWith(t, c, i)' = calls \cup {last}
        BY <2>3, <2>4, <3>3, <3>5 DEF CallsWith
      <4>2. kvBlocks'[key] = p[i] /\ key \in DOMAIN kvBlocks'
        BY <2>1, <3>4, <3>5
      <4>3. \A m \in calls : m <= last
        BY <2>4 DEF CallsWith
      <4> HIDE DEF calls
      <4> QED  BY <2>3, <2>4, <2>5, <4>1, <4>2, <4>3 DEF BlockLatest, key
    <3>6. CASE key \notin keys
      <4>1. CallsWith(t, c, i)' = calls
        BY <2>3, <2>4, <3>3, <3>6 DEF CallsWith
      <4>2. /\ (key \in DOMAIN kvBlocks' <=> key \in DOMAIN kvBlocks)
            /\ (key \in DOMAIN kvBlocks => kvBlocks'[key] = kvBlocks[key])
        BY <2>1, <3>6
      <4>3. \A n \in calls : publishedCalls'[n] = publishedCalls[n]
        BY <2>4 DEF CallsWith
      <4> HIDE DEF calls
      <4>4. /\ key \in DOMAIN kvBlocks <=> calls # {}
            /\ calls # {} =>
                \E n \in calls : (\A m \in calls : m <= n) /\ kvBlocks[key] = publishedCalls[n].payloads[i]
        BY <3>1 DEF BlockLatest, key, calls
      <4>5. /\ key \in DOMAIN kvBlocks' <=> calls # {}
            /\ calls # {} =>
                \E n \in calls : (\A m \in calls : m <= n) /\ kvBlocks'[key] = publishedCalls'[n].payloads[i]
        BY <4>2, <4>3, <4>4
      <4> QED  BY <4>1, <4>5 DEF BlockLatest, key
    <3> QED  BY <3>5, <3>6
  <2> QED  BY <2>4, <2>6 DEF PrefixInv
<1> QED  BY <1>1, <1>2 DEF PublishPrefix

\* A set of positions that has, with a position, all before it.
LEMMA FrontSet ==
  ASSUME NEW len \in Nat, NEW S \in SUBSET (1 .. len), \A i \in S : \A j \in 1 .. i : j \in S
  PROVE  \E m \in 0 .. len : S = 1 .. m
<1> DEFINE m == Cardinality(S)
<1>1. ASSUME NEW n \in Nat PROVE IsFiniteSet(1 .. n) /\ Cardinality(1 .. n) = n
  <2>1. n \in Int /\ 1 \in Int
    BY SMTT(30)
  <2>2. IsFiniteSet(1 .. n) /\ Cardinality(1 .. n) = IF 1 > n THEN 0 ELSE n - 1 + 1
    BY <2>1, FS_Interval
  <2> QED  BY <2>2, SMTT(30)
<1>2. IsFiniteSet(S) /\ m <= len
  <2>1. IsFiniteSet(1 .. len) /\ Cardinality(1 .. len) = len
    BY <1>1
  <2>2. IsFiniteSet(S) /\ Cardinality(S) <= Cardinality(1 .. len)
    BY <2>1, FS_Subset
  <2> QED  BY <2>1, <2>2
<1>3. m \in Nat
  BY <1>2, FS_CardinalityType
<1>4. ASSUME NEW i \in S PROVE i \in 1 .. m
  <2>1. i \in Nat /\ 1 <= i
    BY SMTT(30)
  <2>2. 1 .. i \in SUBSET S
    OBVIOUS
  <2>3. Cardinality(1 .. i) <= m
    BY <1>2, <2>2, FS_Subset
  <2>4. i <= m
    BY <1>1, <2>1, <2>3
  <2> HIDE DEF m
  <2> QED  BY <1>3, <2>1, <2>4, SMTT(30)
<1>5. S \in SUBSET (1 .. m)
  BY <1>4
<1>6. IsFiniteSet(1 .. m) /\ Cardinality(1 .. m) = Cardinality(S)
  BY <1>1, <1>3
<1>7. S = 1 .. m
  BY <1>5, <1>6, FS_Subset
<1> HIDE DEF m
<1>8. m \in 0 .. len
  BY <1>2, <1>3, SMTT(30)
<1> QED  BY <1>7, <1>8

\* lookup_prefix finds the latest publications.
LEMMA PrefixInvLatest == ASSUME PrefixInv PROVE LookupLatest
<1>1. ASSUME NEW t \in PxTenants, NEW c \in PxChains
      PROVE  LET Latest(i) == CHOOSE n \in CallsWith(t, c, i) : \A m \in CallsWith(t, c, i) : m <= n
                 found == LookupPrefix(t, c)
             IN /\ \A i \in DOMAIN c : i <= found.matched <=> \A j \in 1 .. i : CallsWith(t, c, j) # {}
                /\ found.payloads = [i \in 1 .. found.matched |-> publishedCalls[Latest(i)].payloads[i]]
                /\ found.matched + Len(found.missing) = Len(c)
  <2> DEFINE Latest(i) == CHOOSE n \in CallsWith(t, c, i) : \A m \in CallsWith(t, c, i) : m <= n
             found == LookupPrefix(t, c)
             S == {i \in DOMAIN c : \A j \in 1 .. i : ChainKey(t, c, j) \in DOMAIN kvBlocks}
  <2>1. DOMAIN c = 1 .. Len(c) /\ Len(c) \in Nat
    BY ChainSeq
  <2>2. \A i \in DOMAIN c : \A j \in 1 .. i : j \in DOMAIN c /\ \A k \in 1 .. j : k \in 1 .. i
    BY <2>1, SMTT(30)
  <2>3. S \in SUBSET (1 .. Len(c)) /\ \A i \in S : \A j \in 1 .. i : j \in S
    BY <2>1, <2>2
  <2>4. PICK m \in 0 .. Len(c) : S = 1 .. m
    <3> HIDE DEF S
    <3> QED  BY <2>1, <2>3, FrontSet
  <2>5. Cardinality(S) = m /\ m \in Nat
    <3>1. m \in Int /\ 1 \in Int /\ m \in Nat
      BY <2>1, SMTT(30)
    <3>2. Cardinality(1 .. m) = IF 1 > m THEN 0 ELSE m - 1 + 1
      BY <3>1, FS_Interval
    <3>3. Cardinality(1 .. m) = m
      BY <3>1, <3>2, SMTT(30)
    <3> QED  BY <2>4, <3>1, <3>3
  <2>6. found = [matched |-> Cardinality(S),
                 payloads |-> [i \in 1 .. Cardinality(S) |-> kvBlocks[ChainKey(t, c, i)]],
                 missing |-> [i \in 1 .. Len(c) - Cardinality(S) |-> ChainKey(t, c, Cardinality(S) + i)]]
    BY DEF LookupPrefix
  <2>7. /\ found.matched = m
        /\ found.payloads = [i \in 1 .. m |-> kvBlocks[ChainKey(t, c, i)]]
        /\ found.missing = [i \in 1 .. Len(c) - m |-> ChainKey(t, c, m + i)]
    <3> HIDE DEF S, found
    <3> QED  BY <2>5, <2>6
  <2> HIDE DEF found
  <2>8. \A i \in DOMAIN c : ChainKey(t, c, i) \in DOMAIN kvBlocks <=> CallsWith(t, c, i) # {}
    BY DEF PrefixInv, BlockLatest
  <2>9. ASSUME NEW i \in DOMAIN c PROVE i <= m <=> \A j \in 1 .. i : CallsWith(t, c, j) # {}
    <3>1. i \in S <=> \A j \in 1 .. i : CallsWith(t, c, j) # {}
      BY <2>2, <2>8
    <3>2. i \in 1 .. m <=> i <= m
      BY <2>1, <2>5, SMTT(30)
    <3> HIDE DEF S
    <3> QED  BY <2>4, <3>1, <3>2
  <2>10. ASSUME NEW i \in 1 .. m PROVE kvBlocks[ChainKey(t, c, i)] = publishedCalls[Latest(i)].payloads[i]
    <3>1. i \in S
      <4> HIDE DEF S
      <4> QED  BY <2>4
    <3>2. i \in DOMAIN c /\ i \in 1 .. i
      BY <2>1, <3>1, SMTT(30)
    <3>3. CallsWith(t, c, i) # {} /\ BlockLatest(t, c, i)
      BY <2>8, <3>1, <3>2 DEF PrefixInv
    <3>4. PICK n \in CallsWith(t, c, i) :
            (\A k \in CallsWith(t, c, i) : k <= n) /\ kvBlocks[ChainKey(t, c, i)] = publishedCalls[n].payloads[i]
      BY <3>3 DEF BlockLatest
    <3>5. Latest(i) \in CallsWith(t, c, i) /\ \A k \in CallsWith(t, c, i) : k <= Latest(i)
      BY <3>4
    <3>6. \A k \in CallsWith(t, c, i) : k \in Nat
      BY SMTT(30) DEF CallsWith, PrefixInv, CallsTyped
    <3> HIDE DEF Latest
    <3>7. Latest(i) = n
      <4>1. Latest(i) <= n /\ n <= Latest(i) /\ Latest(i) \in Nat /\ n \in Nat
        BY <3>4, <3>5, <3>6
      <4> QED  BY <4>1, SMTT(30)
    <3> QED  BY <3>4, <3>7
  <2>11. m + Len(found.missing) = Len(c)
    <3>1. Len(c) - m \in Nat /\ m + (Len(c) - m) = Len(c)
      BY <2>1, <2>4, SMTT(30)
    <3>2. Len(found.missing) = Len(c) - m
      BY <2>7, <3>1, SMTT(30)
    <3> QED  BY <3>1, <3>2
  <2>12. found.payloads = [i \in 1 .. m |-> publishedCalls[Latest(i)].payloads[i]]
    BY <2>7, <2>10
  <2> QED  BY <2>7, <2>9, <2>11, <2>12 DEF found
<1> QED  BY <1>1 DEF LookupLatest

\* A lookup in the in-memory store returns the latest publication of every block
\* of the deepest published prefix, for any tenants, tokens, payloads, chain
\* lengths and calls (publish_prefix, lookup_prefix, chained_prefix_hashes).
THEOREM LookupLatestHolds == PrefixInit /\ [][PrefixNext]_prefixVars => []LookupLatest
<1>1. PrefixInit => PrefixInv
  <2> SUFFICES ASSUME PrefixInit PROVE PrefixInv
    OBVIOUS
  <2>1. kvBlocks = <<>> /\ publishedCalls = <<>>
    BY DEF PrefixInit
  <2>2. DOMAIN kvBlocks = {} /\ DOMAIN publishedCalls = {} /\ CallsTyped
    BY <2>1, SMTT(30) DEF CallsTyped
  <2> QED  BY <2>2 DEF PrefixInv, BlockLatest, CallsWith
<1>2. PrefixInv /\ [PrefixNext]_prefixVars => PrefixInv'
  <2> SUFFICES ASSUME PrefixInv, [PrefixNext]_prefixVars PROVE PrefixInv'
    OBVIOUS
  <2>1. ASSUME UNCHANGED <<kvBlocks, publishedCalls>> PROVE PrefixInv'
    BY <2>1, StoreSame
  <2>2. ASSUME NEW k \in Depths, NEW r \in {"Ram", "RemoteOnly"}, UpsertPlain(k, k, r) \/ UpsertGuarded(k, k, r)
        PROVE  UNCHANGED <<kvBlocks, publishedCalls>>
    BY <2>2 DEF UpsertPlain, UpsertGuarded
  <2>3. CASE Acquire \/ Release
    BY <2>1, <2>3 DEF Acquire, Release
  <2>4. ASSUME NEW c \in DepthChains, LookupBlocksInto(c) PROVE UNCHANGED <<kvBlocks, publishedCalls>>
    BY <2>4 DEF LookupBlocksInto
  <2>5. CASE UNCHANGED prefixVars
    BY <2>1, <2>5 DEF prefixVars
  <2> QED  BY <2>1, <2>2, <2>3, <2>4, <2>5, PublishKeeps DEF PrefixNext, PayloadLists
<1>3. PrefixInv => LookupLatest
  BY PrefixInvLatest
<1> QED  BY <1>1, <1>2, <1>3, PTL
=============================================================================
