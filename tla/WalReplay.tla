----------------------------- MODULE WalReplay -----------------------------
(***************************************************************************)
(* What replay_records reads back from the objects of the log.             *)
(***************************************************************************)
EXTENDS WalGroupCommit, SequencesExt

\* compare_wal_object_keys: the first sequence number, then the key, which
\* begins with the epoch; of one node's keys of one epoch and first number,
\* "batch" comes before "chunk" and the shorter batch before the longer.
KeyOrder(o, p) ==
    \/ o.start < p.start
    \/ o.start = p.start /\ o.epoch < p.epoch
    \/ /\ o.start = p.start /\ o.epoch = p.epoch /\ o # p
       /\ p.start = p.end \/ (o.start # o.end /\ o.end < p.end)

\* The object that comes n-th in the sorted listing.
Listed(n) == CHOOSE o \in objects : Cardinality({p \in objects : KeyOrder(p, o)}) = n - 1

Replay == FlattenSeq([n \in 1..Cardinality(objects) |-> Listed(n).recs])

\* Replay yields every durable record, and the last time it yields each one is
\* in the order in which they were published: applying the replayed records
\* one after the other ends where applying the published ones did.
ReplayInOrder ==
    LET replay == Replay
        at(rec) == {i \in 1..Len(replay) : replay[i] = rec}
    IN
    \A x, y \in durable :
        /\ at(x) # {}
        /\ x < y => \A i \in at(x) : \E j \in at(y) : i < j

============================================================================
