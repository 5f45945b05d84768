------------------------------- MODULE Arena -------------------------------
(***************************************************************************)
(* The arena: a file the daemon writes payloads to and its clients map, so *)
(* that a reply carries an offset instead of the bytes. The writer is a    *)
(* bump allocator that wraps; the daemon remembers a slab per key under a  *)
(* mutex that it takes once to write and once more to remember.            *)
(***************************************************************************)
EXTENDS Naturals, FiniteSets

CONSTANTS
    ArenaWorkers,   \* threads that run dispatch with the arena
    ArenaKeys,
    ArenaValues,
    SizeOf,         \* units each value takes
    ArenaSize,      \* units of the payload area
    MinBytes,       \* payloads below stay out of the arena
    BatchSize,      \* units of a GET_MANY answer
    MaxWrites       \* bound: payloads written to the arena

ASSUME ArenaAssumption ==
    /\ SizeOf \in [ArenaValues -> Nat \ {0}]
    /\ {ArenaSize, MinBytes, BatchSize, MaxWrites} \subseteq Nat

VARIABLES
    stored,     \* what put_kv stored last under each key
    bytes,      \* what each unit of the payload area holds
    nextOffset, wrapEpoch,
    slabs,      \* ArenaState.slabs: key to offset, length and the value meant
    task,       \* what each worker does
    replied,    \* the last GET answer that named a slab
    writes

arenaVars == <<stored, bytes, nextOffset, wrapEpoch, slabs, task, replied, writes>>

NoSlab == [len |-> 0]
Nothing == "none"
Waiting == [at |-> "idle"]

ArenaInit ==
    /\ stored = [k \in ArenaKeys |-> Nothing]
    /\ bytes = [u \in 1..ArenaSize |-> <<Nothing>>]
    /\ nextOffset = 0 /\ wrapEpoch = 0
    /\ slabs = [k \in ArenaKeys |-> NoSlab]
    /\ task = [w \in ArenaWorkers |-> Waiting]
    /\ replied = NoSlab
    /\ writes = 0

Holds(slab, content) == \A u \in slab.off + 1 .. slab.off + slab.len : bytes[u] = content

\* ArenaWriter::write_payload: where a payload goes, and whether that wraps.
Wraps(len) == nextOffset + len > ArenaSize
SlabOffset(len) == IF Wraps(len) THEN 0 ELSE nextOffset

WritePayload(len, content) ==
    /\ bytes' = [u \in 1..ArenaSize |->
                    IF u \in SlabOffset(len) + 1 .. SlabOffset(len) + len THEN content
                    ELSE bytes[u]]
    /\ nextOffset' = SlabOffset(len) + len
    /\ wrapEpoch' = IF Wraps(len) THEN wrapEpoch + 1 ELSE wrapEpoch
    /\ writes' = writes + 1

\* Faulty variant: the slabs are kept when the arena wraps.
WriteArenaKeepSlabs(len, content) == WritePayload(len, content) /\ UNCHANGED slabs

\* write_arena_payload, for a payload that is neither too small nor too large.
WriteArenaPayload(len, content) ==
    /\ WritePayload(len, content)
    /\ slabs' = IF wrapEpoch' # wrapEpoch THEN [k \in ArenaKeys |-> NoSlab] ELSE slabs

\* PUT: put_kv, then the payload is materialized.
ArenaPut(w) ==
    /\ task[w] = Waiting /\ writes < MaxWrites
    /\ \E k \in ArenaKeys, v \in ArenaValues :
        /\ stored' = [stored EXCEPT ![k] = v]
        /\ task' = [task EXCEPT ![w] = [at |-> "write", op |-> "PUT", key |-> k, value |-> v]]
    /\ UNCHANGED <<bytes, nextOffset, wrapEpoch, slabs, replied, writes>>

\* GET: the slab of the key, or get_kv and then the payload is materialized.
ArenaGet(w) ==
    /\ task[w] = Waiting
    /\ \E k \in ArenaKeys :
        \/ /\ slabs[k] # NoSlab
           /\ replied' = slabs[k]
           /\ UNCHANGED task
        \/ /\ slabs[k] = NoSlab /\ stored[k] # Nothing /\ writes < MaxWrites
           /\ task' = [task EXCEPT ![w] = [at |-> "write", op |-> "GET", key |-> k,
                                           value |-> stored[k]]]
           /\ UNCHANGED replied
    /\ UNCHANGED <<stored, bytes, nextOffset, wrapEpoch, slabs, writes>>

\* remember_arena_slab, up to the release of the lock. A payload that is too small is
\* left out and one that is too large is an error that is only logged: in both cases
\* the slab the key had stays.
MaterializeEntry(w) ==
    /\ task[w].at = "write"
    /\ LET t == task[w]
           len == SizeOf[t.value]
       IN IF len < MinBytes \/ len > ArenaSize
          THEN /\ task' = [task EXCEPT ![w] = Waiting]
               /\ UNCHANGED <<bytes, nextOffset, wrapEpoch, slabs, writes>>
          ELSE /\ WriteArenaPayload(len, <<t.key, t.value>>)
               /\ task' = [task EXCEPT ![w] =
                    [at |-> "remember", op |-> t.op,
                     slab |-> [off |-> SlabOffset(len), len |-> len, key |-> t.key,
                               value |-> t.value]]]
    /\ UNCHANGED <<stored, replied>>

\* remember_arena_slab, with the lock taken again.
RememberSlab(w) ==
    /\ task[w].at = "remember"
    /\ LET slab == task[w].slab
       IN /\ slabs' = [slabs EXCEPT ![slab.key] = slab]
          /\ replied' = IF task[w].op = "GET" THEN slab ELSE replied
    /\ task' = [task EXCEPT ![w] = Waiting]
    /\ UNCHANGED <<stored, bytes, nextOffset, wrapEpoch, writes>>

\* GET_MANY: the answer is written to the arena and not remembered.
ArenaGetMany(w) ==
    /\ task[w] = Waiting /\ writes < MaxWrites
    /\ BatchSize >= MinBytes /\ BatchSize <= ArenaSize
    /\ WriteArenaPayload(BatchSize, <<"batch">>)
    /\ UNCHANGED <<stored, task, replied>>

\* CLEAR
ArenaClear(w) ==
    /\ task[w] = Waiting
    /\ slabs' = [k \in ArenaKeys |-> NoSlab]
    /\ UNCHANGED <<stored, bytes, nextOffset, wrapEpoch, task, replied, writes>>

ArenaNext ==
    \E w \in ArenaWorkers :
        \/ ArenaPut(w) \/ ArenaGet(w) \/ MaterializeEntry(w) \/ RememberSlab(w)
        \/ ArenaGetMany(w) \/ ArenaClear(w)

ArenaSpec == ArenaInit /\ [][ArenaNext]_arenaVars

(***************************************************************************)
(* Properties                                                              *)
(***************************************************************************)

\* Every slab the daemon remembers, and would answer a GET with, holds the bytes of the
\* value put last under its key, however often the arena wrapped: "Multiple writer
\* threads on the daemon side are safe". It holds with one worker, and except while that
\* put is being materialized; a put the arena does not take, too small or too large,
\* leaves the slab of an older value, whole, in front of what it stored.
SlabsOwnBytes ==
    \A k \in ArenaKeys : slabs[k] # NoSlab =>
        /\ Holds(slabs[k], <<k, slabs[k].value>>)
        /\ \/ slabs[k].value = stored[k]
           \/ \E w \in ArenaWorkers : task[w].at \in {"write", "remember"}
           \/ SizeOf[stored[k]] \notin MinBytes .. ArenaSize

=============================================================================
