--------------------------- MODULE WalGroupCommit ---------------------------
(***************************************************************************)
(* The write-ahead log of one node over the object store: WalStore, which  *)
(* writes one object per record, and WalGroupCommitStore, which buffers    *)
(* records and writes them as single-record ("chunk") or batch objects.    *)
(* A node's calls are sequential, so a step is one call. An object store   *)
(* call that returns an error may have taken effect all the same.          *)
(*                                                                         *)
(* Records are numbered in the order they are handed to publish_record.    *)
(* Nodes that share a namespace write under different keys and filter the  *)
(* listing by node, so one node is modelled.                               *)
(***************************************************************************)
EXTENDS Naturals, Sequences, FiniteSetsExt

CONSTANTS
    MaxRecords,     \* WalBatchPolicy.max_records
    MaxBytes,       \* WalBatchPolicy.max_bytes
    FlushInterval,  \* WalBatchPolicy.flush_interval_ms
    RecordSizes,    \* lengths an encoded record may have
    S3MayFail,      \* TRUE when puts, gets and heads may return an error
    ListMayFail,    \* TRUE when the listing of a restart may return an error
    MaxPublishes,   \* bound: publish_record calls in a behaviour
    MaxNow          \* bound: milliseconds in a behaviour

ASSUME WalAssumption ==
    /\ MaxRecords \in Nat /\ MaxBytes \in Nat /\ FlushInterval \in Nat
    /\ RecordSizes \subseteq Nat \ {0}
    /\ S3MayFail \in BOOLEAN /\ ListMayFail \in BOOLEAN
    /\ MaxPublishes \in Nat /\ MaxNow \in Nat

VARIABLES
    objects,    \* objects of this node in the bucket
    buffer,     \* WalGroupCommitStore.buffer
    firstAt,    \* first_buffered_at_ms; Never stands for None
    nextSeq,    \* WalStore.next_seq
    now,        \* milliseconds, for the caller and for current_epoch_ms alike
    published,  \* publish_record calls so far: the number of the last record
    durable,    \* history: records of calls that reported a written object
    started     \* history: when this process started

vars == <<objects, buffer, firstAt, nextSeq, now, published, durable, started>>

Never == 0

\* is_single_record_mode
Single == MaxRecords <= 1 \/ MaxBytes <= 1

Init ==
    /\ objects = {} /\ buffer = <<>> /\ firstAt = Never
    /\ nextSeq = 1
    /\ now = 1 /\ started = 1
    /\ published = 0 /\ durable = {}

(***************************************************************************)
(* Objects. The key holds the epoch, the first and the last sequence       *)
(* number; a put replaces what is stored under the same key.               *)
(***************************************************************************)
SameKey(o, p) == o.epoch = p.epoch /\ o.start = p.start /\ o.end = p.end

\* Faulty variant: a key without the epoch.
StoreFlat(objs, o) == {p \in objs : p.start # o.start \/ p.end # o.end} \cup {o}

Store(objs, o) == {p \in objs : ~SameKey(p, o)} \cup {o}

Chunk(seq, rec) == [epoch |-> now, start |-> seq, end |-> seq, recs |-> <<rec>>]

BufferObject(buf) ==
    [epoch |-> now, start |-> buf[1].seq, end |-> buf[Len(buf)].seq,
     recs |-> [i \in 1..Len(buf) |-> buf[i].rec]]

Recs(buf) == {buf[i].rec : i \in 1..Len(buf)}
Stored(objs) == UNION {{o.recs[i] : i \in 1..Len(o.recs)} : o \in objs}
BufferedBytes(buf) == SumFunction([i \in 1..Len(buf) |-> buf[i].size])

(***************************************************************************)
(* flush_buffer_as_object. A log is the part of the state a flush changes; *)
(* ok is whether the call returned without an error.                       *)
(***************************************************************************)
Log == [objects |-> objects, buffer |-> buffer, firstAt |-> firstAt,
        durable |-> durable, ok |-> TRUE]

\* Faulty variant: the buffer is emptied before the batch is written, too.
FlushAndForget(log) ==
    LET written == Store(log.objects, BufferObject(log.buffer)) IN
    {[objects |-> written, buffer |-> <<>>, firstAt |-> Never,
      durable |-> log.durable \cup Recs(log.buffer), ok |-> TRUE]}
    \cup {[log EXCEPT !.objects = objs, !.buffer = <<>>, !.ok = FALSE] :
            objs \in IF S3MayFail THEN {log.objects, written} ELSE {}}

\* A record that is alone in the buffer leaves it before it is written.
Flush(log) ==
    LET written == Store(log.objects, BufferObject(log.buffer)) IN
    {[objects |-> written, buffer |-> <<>>, firstAt |-> Never,
      durable |-> log.durable \cup Recs(log.buffer), ok |-> TRUE]}
    \cup {[log EXCEPT !.objects = objs,
                      !.buffer = IF Len(log.buffer) = 1 THEN <<>> ELSE log.buffer,
                      !.ok = FALSE] :
            objs \in IF S3MayFail THEN {log.objects, written} ELSE {}}

Become(log) ==
    /\ objects' = log.objects
    /\ buffer' = log.buffer
    /\ firstAt' = log.firstAt
    /\ durable' = log.durable

\* The new record would not fit: the buffer is flushed first.
Overflows(size) == buffer # <<>> /\ BufferedBytes(buffer) + size > MaxBytes

Full(buf) == Len(buf) >= MaxRecords \/ BufferedBytes(buf) >= MaxBytes

\* Faulty variant: the time of the last record instead of the first.
PushRestamp(log, size) ==
    [log EXCEPT !.buffer = Append(@, [seq |-> nextSeq, rec |-> published + 1,
                                      size |-> size, since |-> now]),
                !.firstAt = now]

Push(log, size) ==
    [objects |-> log.objects,
     buffer |-> Append(log.buffer, [seq |-> nextSeq, rec |-> published + 1,
                                    size |-> size, since |-> now]),
     firstAt |-> IF log.firstAt = Never THEN now ELSE log.firstAt,
     durable |-> log.durable, ok |-> log.ok]

\* Faulty variant: the sequence number is taken before the flush that may fail.
PublishEager(size) ==
    /\ ~Single
    /\ published < MaxPublishes
    /\ published' = published + 1
    /\ nextSeq' = nextSeq + 1
    /\ \E pre \in IF Overflows(size) THEN Flush(Log) ELSE {Log} :
        \/ /\ ~pre.ok
           /\ Become(pre)
        \/ /\ pre.ok
           /\ LET full == Push(pre, size) IN
              \E post \in IF Full(full.buffer) THEN Flush(full) ELSE {full} : Become(post)
    /\ UNCHANGED <<now, started>>

\* WalGroupCommitStore::publish_record. An error of the first flush refuses the
\* record; an error of the second one is returned with the record buffered.
Publish(size) ==
    /\ ~Single
    /\ published < MaxPublishes
    /\ published' = published + 1
    /\ \E pre \in IF Overflows(size) THEN Flush(Log) ELSE {Log} :
        \/ /\ ~pre.ok
           /\ Become(pre)
           /\ UNCHANGED nextSeq
        \/ /\ pre.ok
           /\ nextSeq' = nextSeq + 1
           /\ LET full == Push(pre, size) IN
              \E post \in IF Full(full.buffer) THEN Flush(full) ELSE {full} : Become(post)
    /\ UNCHANGED <<now, started>>

FlushDue ==
    /\ buffer # <<>>
    /\ FlushInterval > 0 /\ firstAt # Never
    /\ now >= firstAt + FlushInterval
    /\ \E log \in Flush(Log) : Become(log)
    /\ UNCHANGED <<nextSeq, now, published, started>>

FlushNow ==
    /\ buffer # <<>>
    /\ \E log \in Flush(Log) : Become(log)
    /\ UNCHANGED <<nextSeq, now, published, started>>

(***************************************************************************)
(* WalStore::publish_record                                                *)
(***************************************************************************)
Taken(seq) == \E o \in objects : SameKey(o, Chunk(seq, 0))

\* The loop passes the numbers taken in this millisecond. An error leaves
\* next_seq at the number it was trying, unless the last head failed.
PublishSingle ==
    /\ Single
    /\ published < MaxPublishes
    /\ published' = published + 1
    /\ \E seq \in nextSeq..(nextSeq + Cardinality(objects)) :
        LET written == Store(objects, Chunk(seq, published + 1)) IN
        /\ \A s \in nextSeq..(seq - 1) : Taken(s)
        /\ \/ /\ ~Taken(seq)
              /\ objects' = written
              /\ nextSeq' = seq + 1
              /\ durable' = durable \cup {published + 1}
           \/ /\ S3MayFail
              /\ nextSeq' = seq
              /\ UNCHANGED <<objects, durable>>
           \/ /\ S3MayFail
              /\ ~Taken(seq)
              /\ objects' = written
              /\ nextSeq' \in {seq, seq + 1}
              /\ UNCHANGED durable
    /\ UNCHANGED <<buffer, firstAt, now, started>>

(***************************************************************************)
(* Time, and a restart, which takes longer than a millisecond.             *)
(***************************************************************************)
Tick ==
    /\ now < MaxNow
    /\ now' = now + 1
    /\ UNCHANGED <<objects, buffer, firstAt, nextSeq, published, durable, started>>

\* Faulty variant: only the names of single-record objects are understood.
RecoverChunks ==
    LET chunks == {o \in objects : o.start = o.end} IN
    {seq \in {1} \cup {o.end + 1 : o \in chunks} : \A o \in chunks : o.end < seq}

\* recover_next_seq: one past the highest number in the listing, which counts
\* as 0 when nothing is listed.
Recover ==
    {seq \in {1} \cup {o.end + 1 : o \in objects} : \A o \in objects : o.end < seq}

\* The buffer is lost. with_node_id starts at 0 when the listing fails.
Restart ==
    /\ now < MaxNow
    /\ now' = now + 1
    /\ started' = now + 1
    /\ buffer' = <<>> /\ firstAt' = Never
    /\ nextSeq' \in Recover \/ (ListMayFail /\ nextSeq' = 0)
    /\ UNCHANGED <<objects, published, durable>>

Next ==
    \/ \E size \in RecordSizes : Publish(size)
    \/ FlushDue \/ FlushNow
    \/ PublishSingle
    \/ Tick \/ Restart

Spec == Init /\ [][Next]_vars

(***************************************************************************)
(* Properties                                                              *)
(***************************************************************************)
Entry == [seq : Nat, rec : Nat, size : Nat, since : Nat]
Object == [epoch : Nat, start : Nat, end : Nat, recs : Seq(Nat)]

\* Every variable has its type, and time and the record numbers of objects and
\* buffer stay within what has happened.
TypeOK ==
    /\ objects \subseteq Object
    /\ buffer \in Seq(Entry)
    /\ firstAt \in Nat /\ nextSeq \in Nat /\ published \in Nat
    /\ now \in Nat \ {0} /\ started \in Nat
    /\ firstAt <= now /\ started <= now
    /\ \A o \in objects : o.epoch <= now
    /\ durable \subseteq 1..published

\* replay_records never meets a batch it refuses: the header of every stored
\* object spans exactly the records in it, whatever flushes failed before.
ReplayDecodes == \A o \in objects : o.end + 1 = o.start + Len(o.recs)

\* A record whose publish or flush reported a written object is in the bucket
\* from then on: no retry, restart or reuse of a sequence number overwrites it.
FlushedKept == durable \subseteq Stored(objects)

\* A record leaves the buffer without being stored only when it was alone in
\* it and its own flush failed (flush_buffer_as_object takes it out before the
\* write), or when the process ends: a batch that fails stays for a retry.
LostOnlyAlone ==
    [][started' = started =>
        Len(buffer) = 1 \/ Recs(buffer) \subseteq Recs(buffer') \cup Stored(objects')]_vars

\* flush_due is never late: the time it measures from is not after the time the
\* oldest buffered record was published, also after a failed flush.
DueCovered == buffer # <<>> => firstAt # Never /\ firstAt <= buffer[1].since

=============================================================================
