----------------------------- MODULE WalProofs ------------------------------
(***************************************************************************)
(* What the write-ahead log promises, for any number of handles, writers,  *)
(* calls and faults, and for every policy and record size.                 *)
(*                                                                         *)
(* Group commit: its invariants are not inductive by themselves. LogInv    *)
(* adds what a flush relies on: the sequence numbers in the buffer are the *)
(* ones just below next_seq, without a gap; what this process wrote is     *)
(* below next_seq; and an object that has the key the buffer would be      *)
(* written under is an earlier attempt to write the same buffer.           *)
(*                                                                         *)
(* Keys (PublishedKept): a key parses back to the node and the number it   *)
(* was built from, so writers never meet in one; KeysInv adds that a       *)
(* candidate is free until its writer stores it, and that a writer's next  *)
(* number is past all it has acknowledged. Asks for writers whose          *)
(* sanitized ids differ, and for first objects that parse as their own.    *)
(***************************************************************************)
EXTENDS WalGroupCommit, WalKeys, SequenceTheorems, WellFoundedInduction, TLAPS

\* A leaf that names no prover is left to Zenon.
USE ZenonT(30)

USE DEF Never

\* An object with the sequence numbers the buffer would be written under.
SpansBuffer(o, buf) == o.start = buf[1].seq /\ o.end = buf[Len(buf)].seq

\* The part of LogInv that gives the components their types.
LogType(log, top) ==
    /\ log.objects \subseteq Object
    /\ log.buffer \in Seq(Entry)
    /\ log.firstAt \in Nat /\ log.firstAt <= now
    /\ log.durable \subseteq 1..top
    /\ \A i \in 1..Len(log.buffer) : log.buffer[i].rec \in 1..top
    /\ Single => log.buffer = <<>>

\* What holds of a log when the next sequence number is ns and the last record
\* is top.
LogInv(log, ns, top) ==
    /\ LogType(log, top)
    /\ \A o \in log.objects : o.epoch <= now /\ o.end + 1 = o.start + Len(o.recs)
    /\ \A i \in 1..Len(log.buffer) : log.buffer[i].seq + Len(log.buffer) + 1 = ns + i
    /\ ~Single => \A o \in log.objects : o.epoch >= started => o.end < ns
    /\ log.buffer # <<>> =>
        \A o \in log.objects :
            o.epoch >= started /\ SpansBuffer(o, log.buffer)
                => \A i \in 1..Len(log.buffer) : o.recs[i] = log.buffer[i].rec
    /\ log.durable \subseteq Stored(log.objects)
    /\ log.buffer # <<>> => log.firstAt # Never /\ log.firstAt <= log.buffer[1].since

\* The clock and the counters; this process started in the past.
Clock ==
    /\ now \in Nat \ {0} /\ started \in Nat /\ started <= now
    /\ nextSeq \in Nat /\ published \in Nat

\* The inductive invariant.
WalInv == Clock /\ LogInv(Log, nextSeq, published)

\* The object a nonempty buffer is written as.
LEMMA BufferObjectType ==
    ASSUME Clock, NEW buf \in Seq(Entry), buf # <<>>
    PROVE  /\ BufferObject(buf) \in Object
           /\ BufferObject(buf).epoch = now
           /\ BufferObject(buf).start = buf[1].seq
           /\ BufferObject(buf).end = buf[Len(buf)].seq
           /\ Len(BufferObject(buf).recs) = Len(buf)
           /\ \A i \in 1..Len(buf) : BufferObject(buf).recs[i] = buf[i].rec
           /\ Len(buf) \in Nat \ {0}
  <1>1. Len(buf) \in Nat \ {0} /\ \A i \in 1..Len(buf) : buf[i] \in Entry
    BY SMTT(30)
  <1>2. [i \in 1..Len(buf) |-> buf[i].rec] \in Seq(Nat)
    BY <1>1, SMTT(30) DEF Entry
  <1>3. Len([i \in 1..Len(buf) |-> buf[i].rec]) = Len(buf)
    BY <1>1, <1>2, SMTT(30)
  <1>4. buf[1].seq \in Nat /\ buf[Len(buf)].seq \in Nat
    BY <1>1, SMTT(30) DEF Entry
  <1> QED
    BY <1>1, <1>2, <1>3, <1>4 DEF BufferObject, Object, Clock

\* Writing an object that replaces nothing but copies of itself loses no record.
LEMMA StoreKeeps ==
    ASSUME NEW objs \in SUBSET Object, NEW o \in Object,
           \A p \in objs : SameKey(p, o) =>
                Len(p.recs) = Len(o.recs) /\ \A i \in 1..Len(o.recs) : p.recs[i] = o.recs[i]
    PROVE  /\ Store(objs, o) \in SUBSET Object
           /\ Stored(objs) \subseteq Stored(Store(objs, o))
           /\ \A i \in 1..Len(o.recs) : o.recs[i] \in Stored(Store(objs, o))
  <1>1. o \in Store(objs, o)
    BY DEF Store
  <1>2. \A i \in 1..Len(o.recs) : o.recs[i] \in Stored(Store(objs, o))
    BY <1>1, SMTT(30) DEF Stored
  <1>3. ASSUME NEW p \in objs, NEW i \in 1..Len(p.recs)
        PROVE  p.recs[i] \in Stored(Store(objs, o))
    <2>1. CASE SameKey(p, o)
      BY <1>2, <1>3, <2>1
    <2>2. CASE ~SameKey(p, o)
      BY <1>3, <2>2, SMTT(30) DEF Store, Stored
    <2> QED BY <2>1, <2>2
  <1>4. Stored(objs) \subseteq Stored(Store(objs, o))
    BY <1>3, SMTT(30) DEF Stored
  <1> QED BY <1>2, <1>4 DEF Store

\* Logs are records with these fields.
IsLog(log) ==
    log = [objects |-> log.objects, buffer |-> log.buffer, firstAt |-> log.firstAt,
           durable |-> log.durable, ok |-> log.ok]

\* The cases of a flush.
LEMMA FlushCases ==
    ASSUME NEW log, IsLog(log), NEW r \in Flush(log)
    PROVE  /\ IsLog(r)
           /\ r.objects \in {log.objects, Store(log.objects, BufferObject(log.buffer))}
           /\ \/ /\ r.objects = Store(log.objects, BufferObject(log.buffer))
                 /\ r.buffer = <<>> /\ r.firstAt = Never
                 /\ r.durable = log.durable \cup Recs(log.buffer)
                 /\ r.ok
              \/ /\ r.buffer \in {<<>>, log.buffer} /\ r.firstAt = log.firstAt
                 /\ Len(log.buffer) # 1 => r.buffer = log.buffer
                 /\ r.durable = log.durable
                 /\ ~r.ok
  <1> DEFINE written == Store(log.objects, BufferObject(log.buffer))
             failed(objs) ==
                [log EXCEPT !.objects = objs,
                            !.buffer = IF Len(log.buffer) = 1 THEN <<>> ELSE log.buffer,
                            !.ok = FALSE]
  <1>1. CASE r = [objects |-> written, buffer |-> <<>>, firstAt |-> Never,
                  durable |-> log.durable \cup Recs(log.buffer), ok |-> TRUE]
    BY <1>1 DEF IsLog
  <1>2. CASE \E objs \in {log.objects, written} : r = failed(objs)
    <2>1. PICK objs \in {log.objects, written} : r = failed(objs)
      BY <1>2
    <2>2. r = [objects |-> objs, buffer |-> IF Len(log.buffer) = 1 THEN <<>> ELSE log.buffer,
               firstAt |-> log.firstAt, durable |-> log.durable, ok |-> FALSE]
      BY <2>1 DEF IsLog
    <2> QED BY <2>2 DEF IsLog
  <1>3. \/ r = [objects |-> written, buffer |-> <<>>, firstAt |-> Never,
                durable |-> log.durable \cup Recs(log.buffer), ok |-> TRUE]
        \/ \E objs \in {log.objects, written} : r = failed(objs)
    BY DEF Flush
  <1> QED BY <1>1, <1>2, <1>3

\* A flush, failed or not, keeps the invariant, loses no stored record and
\* stores the buffer unless it keeps it or the record was alone.
LEMMA FlushKeeps ==
    ASSUME Clock, NEW log, NEW ns \in Nat, NEW top \in Nat, IsLog(log),
           LogInv(log, ns, top), log.buffer # <<>>, NEW r \in Flush(log)
    PROVE  /\ IsLog(r)
           /\ LogInv(r, ns, top)
           /\ Stored(log.objects) \subseteq Stored(r.objects)
           /\ r.ok => r.buffer = <<>> /\ Recs(log.buffer) \subseteq Stored(r.objects)
           /\ ~r.ok /\ Len(log.buffer) # 1 => r.buffer = log.buffer
  <1> DEFINE o == BufferObject(log.buffer)
             written == Store(log.objects, o)
  <1>a. /\ log.objects \in SUBSET Object /\ log.buffer \in Seq(Entry)
        /\ \A p \in log.objects : p.epoch <= now /\ p.end + 1 = p.start + Len(p.recs)
        /\ \A i \in 1..Len(log.buffer) : log.buffer[i].seq + Len(log.buffer) + 1 = ns + i
        /\ log.buffer \in Seq(Entry) /\ log.firstAt \in Nat
    BY DEF LogInv, LogType
  <1>b. /\ o \in Object /\ o.epoch = now
        /\ o.start = log.buffer[1].seq
        /\ o.end = log.buffer[Len(log.buffer)].seq
        /\ Len(o.recs) = Len(log.buffer)
        /\ \A i \in 1..Len(log.buffer) : o.recs[i] = log.buffer[i].rec
        /\ Len(log.buffer) \in Nat \ {0}
    BY <1>a, BufferObjectType
  <1>c. ~Single
    BY DEF LogInv, LogType
  <1>d. \A i \in 1..Len(log.buffer) : log.buffer[i].seq \in Nat
    <2>1. \A i \in 1..Len(log.buffer) : log.buffer[i] \in Entry
      BY <1>a, SMTT(30)
    <2> QED BY <2>1 DEF Entry
  <1>e. o.end + 1 = ns /\ o.end + 1 = o.start + Len(o.recs)
    <2>1. log.buffer[1].seq + Len(log.buffer) + 1 = ns + 1
      BY <1>a, <1>b, SMTT(30)
    <2>2. log.buffer[Len(log.buffer)].seq + Len(log.buffer) + 1 = ns + Len(log.buffer)
      BY <1>a, <1>b, SMTT(30)
    <2>3. log.buffer[1].seq \in Nat /\ log.buffer[Len(log.buffer)].seq \in Nat
      BY <1>b, <1>d, SMTT(30)
    <2>6. Len(log.buffer) \in Nat
      BY <1>b
    <2>4. log.buffer[Len(log.buffer)].seq + 1 = ns
      BY <2>2, <2>3, <2>6, SMTT(30)
    <2>5. log.buffer[1].seq + Len(log.buffer) = ns
      BY <2>1, <2>3, <2>6, SMTT(30)
    <2> HIDE DEF o
    <2> QED BY <1>b, <2>4, <2>5
  <1>f. ASSUME NEW p \in log.objects, SameKey(p, o)
        PROVE  Len(p.recs) = Len(o.recs) /\ \A i \in 1..Len(o.recs) : p.recs[i] = o.recs[i]
    <2>1. p \in Object /\ p.epoch = now /\ p.start = o.start /\ p.end = o.end
      BY <1>a, <1>b, <1>f DEF SameKey
    <2>2. p.end + 1 = p.start + Len(p.recs)
      BY <1>a
    <2>3. Len(p.recs) = Len(o.recs)
      <3> HIDE DEF o
      <3> QED BY <1>e, <1>b, <2>1, <2>2, SMTT(30) DEF Object
    <2>4. \A i \in 1..Len(log.buffer) : p.recs[i] = log.buffer[i].rec
      <3>1. p.epoch >= started /\ SpansBuffer(p, log.buffer)
        BY <1>b, <2>1 DEF SpansBuffer, Clock
      <3> QED BY <3>1 DEF LogInv
    <2> QED BY <1>b, <2>3, <2>4
  <1>g. /\ written \in SUBSET Object
        /\ Stored(log.objects) \subseteq Stored(written)
        /\ \A i \in 1..Len(o.recs) : o.recs[i] \in Stored(written)
    <2> HIDE DEF o
    <2> QED BY <1>a, <1>b, <1>f, StoreKeeps
  <1>h. Recs(log.buffer) \subseteq Stored(written)
    BY <1>b, <1>g, SMTT(30) DEF Recs
  <1>i. written \subseteq log.objects \cup {o}
    BY DEF Store
  <1>j. \A p \in written : p.epoch <= now /\ p.end + 1 = p.start + Len(p.recs)
    BY <1>a, <1>b, <1>e, <1>i, SMTT(30) DEF Clock
  <1>k. \A p \in written : p.epoch >= started => p.end < ns
    <2>1. o.end < ns
      BY <1>b, <1>d, <1>e, SMTT(30)
    <2> QED BY <1>c, <1>i, <2>1 DEF LogInv
  <1>l. \A p \in written :
            p.epoch >= started /\ SpansBuffer(p, log.buffer)
                => \A i \in 1..Len(log.buffer) : p.recs[i] = log.buffer[i].rec
    <2>1. \A i \in 1..Len(log.buffer) : o.recs[i] = log.buffer[i].rec
      BY <1>b
    <2>2. \A p \in log.objects :
            p.epoch >= started /\ SpansBuffer(p, log.buffer)
                => \A i \in 1..Len(log.buffer) : p.recs[i] = log.buffer[i].rec
      BY DEF LogInv
    <2>3. \A p \in written : p \in log.objects \/ p = o
      BY <1>i
    <2> HIDE DEF written, o
    <2>4. ASSUME NEW p \in written, p.epoch >= started, SpansBuffer(p, log.buffer)
          PROVE  \A i \in 1..Len(log.buffer) : p.recs[i] = log.buffer[i].rec
      <3>1. CASE p = o
        BY <2>1, <3>1
      <3>2. CASE p \in log.objects
        BY <2>2, <2>4, <3>2
      <3> QED BY <2>3, <3>1, <3>2
    <2> QED BY <2>4
  <1> HIDE DEF written, o
  <1>0. /\ IsLog(r)
        /\ r.objects \in {log.objects, written}
        /\ \/ /\ r.objects = written
              /\ r.buffer = <<>> /\ r.firstAt = Never
              /\ r.durable = log.durable \cup Recs(log.buffer)
              /\ r.ok
           \/ /\ r.buffer \in {<<>>, log.buffer} /\ r.firstAt = log.firstAt
              /\ Len(log.buffer) # 1 => r.buffer = log.buffer
              /\ r.durable = log.durable
              /\ ~r.ok
    BY FlushCases DEF written, o
  <1>1. Stored(log.objects) \subseteq Stored(r.objects)
    BY <1>0, <1>g
  <1>2. r.durable \subseteq Stored(r.objects)
    BY <1>0, <1>1, <1>h DEF LogInv
  <1>3. LogType(r, top)
    <2>1. Recs(log.buffer) \subseteq 1..top
      BY DEF Recs, LogInv, LogType
    <2>2. r.objects \subseteq Object
      BY <1>0, <1>a, <1>g
    <2>6. <<>> \in Seq(Entry)
      BY SMTT(30)
    <2>7. r.buffer \in Seq(Entry)
      BY <1>0, <1>a, <2>6
    <2>3. r.firstAt \in Nat /\ r.firstAt <= now
      BY <1>0, <1>a, SMTT(30) DEF LogInv, LogType, Clock
    <2>4. r.durable \subseteq 1..top
      BY <1>0, <2>1 DEF LogInv, LogType
    <2>5. \A i \in 1..Len(r.buffer) : r.buffer[i].rec \in 1..top
      BY <1>0, SMTT(30) DEF LogInv, LogType
    <2> QED BY <1>c, <2>2, <2>3, <2>4, <2>5, <2>7 DEF LogType
  <1>4. \A p \in r.objects : p.epoch <= now /\ p.end + 1 = p.start + Len(p.recs)
    BY <1>0, <1>a, <1>j
  <1>5. \A i \in 1..Len(r.buffer) : r.buffer[i].seq + Len(r.buffer) + 1 = ns + i
    BY <1>0, <1>a, SMTT(30)
  <1>6. \A p \in r.objects : p.epoch >= started => p.end < ns
    BY <1>0, <1>c, <1>k DEF LogInv
  <1>7. r.buffer # <<>> =>
          \A p \in r.objects :
            p.epoch >= started /\ SpansBuffer(p, r.buffer)
                => \A i \in 1..Len(r.buffer) : p.recs[i] = r.buffer[i].rec
    BY <1>0, <1>l DEF LogInv
  <1>8. r.buffer # <<>> => r.firstAt # Never /\ r.firstAt <= r.buffer[1].since
    BY <1>0 DEF LogInv
  <1>9. LogInv(r, ns, top)
    BY <1>2, <1>3, <1>4, <1>5, <1>6, <1>7, <1>8 DEF LogInv
  <1>10. r.ok => r.buffer = <<>> /\ Recs(log.buffer) \subseteq Stored(r.objects)
    BY <1>0, <1>h
  <1> QED BY <1>0, <1>1, <1>9, <1>10

\* Buffering a record under the next sequence number keeps the invariant.
LEMMA PushKeeps ==
    ASSUME Clock, ~Single, NEW log, IsLog(log), NEW size \in Nat,
           LogInv(log, nextSeq, published)
    PROVE  /\ IsLog(Push(log, size))
           /\ LogInv(Push(log, size), nextSeq + 1, published + 1)
           /\ Push(log, size).objects = log.objects
           /\ Push(log, size).buffer # <<>>
           /\ Recs(log.buffer) \subseteq Recs(Push(log, size).buffer)
           /\ Len(Push(log, size).buffer) = Len(log.buffer) + 1
  <1> DEFINE e == [seq |-> nextSeq, rec |-> published + 1, size |-> size, since |-> now]
             buf == Append(log.buffer, e)
             r == Push(log, size)
  <1>1. e \in Entry /\ e.seq = nextSeq /\ e.rec = published + 1 /\ e.since = now
    BY SMTT(30) DEF Entry, Clock
  <1>2. /\ log.buffer \in Seq(Entry) /\ log.objects \subseteq Object
        /\ log.firstAt \in Nat /\ log.firstAt <= now
    BY DEF LogInv, LogType
  <1> HIDE DEF e
  <1>3. /\ buf \in Seq(Entry) /\ Len(buf) = Len(log.buffer) + 1 /\ buf # <<>>
        /\ \A i \in 1..Len(log.buffer) : buf[i] = log.buffer[i]
        /\ buf[Len(buf)] = e
        /\ Len(log.buffer) \in Nat
    BY <1>1, <1>2, SMTT(30)
  <1>4. r = [objects |-> log.objects, buffer |-> buf,
             firstAt |-> IF log.firstAt = Never THEN now ELSE log.firstAt,
             durable |-> log.durable, ok |-> log.ok]
    BY DEF Push, e
  <1> HIDE DEF buf, r
  <1>5. /\ r.objects = log.objects /\ r.buffer = buf /\ r.durable = log.durable
        /\ r.firstAt = IF log.firstAt = Never THEN now ELSE log.firstAt
        /\ IsLog(r)
    BY <1>4 DEF IsLog
  <1>6. LogType(r, published + 1)
    <2>1. log.durable \subseteq 1..(published + 1)
      BY SMTT(30) DEF LogInv, LogType, Clock
    <2>2. \A i \in 1..Len(buf) : buf[i].rec \in 1..(published + 1)
      <3>1. \A i \in 1..Len(log.buffer) : buf[i].rec \in 1..(published + 1)
        <4>1. \A i \in 1..Len(log.buffer) : log.buffer[i].rec \in 1..published
          BY DEF LogInv, LogType
        <4> QED BY <1>3, <4>1, SMTT(30) DEF Clock
      <3>2. buf[Len(buf)].rec \in 1..(published + 1)
        BY <1>1, <1>3, SMTT(30) DEF Clock
      <3> QED BY <1>3, <3>1, <3>2, SMTT(30)
    <2>3. r.firstAt \in Nat /\ r.firstAt <= now
      BY <1>2, <1>5, SMTT(30) DEF Clock
    <2> QED BY <1>2, <1>3, <1>5, <2>1, <2>2, <2>3 DEF LogType
  <1>7. \A i \in 1..Len(buf) : buf[i].seq + Len(buf) + 1 = (nextSeq + 1) + i
    <2>1. ASSUME NEW i \in 1..Len(log.buffer)
          PROVE  buf[i].seq + Len(buf) + 1 = (nextSeq + 1) + i
      <3>1. log.buffer[i].seq + Len(log.buffer) + 1 = nextSeq + i
        BY DEF LogInv
      <3>2. log.buffer[i] \in Entry
        BY <1>2, SMTT(30)
      <3>3. log.buffer[i].seq \in Nat
        BY <3>2 DEF Entry
      <3> QED BY <1>3, <3>1, <3>3, SMTT(30) DEF Clock
    <2>2. buf[Len(buf)].seq + Len(buf) + 1 = (nextSeq + 1) + Len(buf)
      <3>1. buf[Len(buf)].seq = nextSeq /\ Len(buf) \in Nat
        BY <1>1, <1>3, SMTT(30)
      <3> QED BY <3>1, SMTT(30) DEF Clock
    <2> QED BY <1>3, <2>1, <2>2, SMTT(30)
  <1>8. \A o \in r.objects : o.epoch >= started => o.end < nextSeq
    BY <1>5 DEF LogInv
  <1>9. \A o \in r.objects : o.epoch >= started => o.end < nextSeq + 1
    BY <1>2, <1>5, <1>8, SMTT(30) DEF Object, Clock
  <1>10. \A o \in r.objects : o.epoch >= started => ~SpansBuffer(o, buf)
    BY <1>1, <1>2, <1>3, <1>5, <1>8, SMTT(30) DEF SpansBuffer, Object, Clock
  <1>11. r.firstAt # Never /\ r.firstAt <= buf[1].since
    <2>1. CASE log.buffer = <<>>
      <3>1. buf[1] = e
        BY <1>3, <2>1, SMTT(30)
      <3>2. r.firstAt # Never /\ r.firstAt <= now
        BY <1>2, <1>5, SMTT(30) DEF Clock
      <3> QED BY <1>1, <3>1, <3>2
    <2>2. CASE log.buffer # <<>>
      <3>1. buf[1] = log.buffer[1]
        BY <1>3, <2>2, SMTT(30)
      <3>2. log.firstAt # Never /\ log.firstAt <= log.buffer[1].since
        BY <2>2 DEF LogInv
      <3> QED BY <1>5, <3>1, <3>2
    <2> QED BY <2>1, <2>2
  <1>12. /\ \A o \in r.objects : o.epoch <= now /\ o.end + 1 = o.start + Len(o.recs)
         /\ r.durable \subseteq Stored(r.objects)
    BY <1>5 DEF LogInv
  <1>13. LogInv(r, nextSeq + 1, published + 1)
    BY <1>5, <1>6, <1>7, <1>9, <1>10, <1>11, <1>12 DEF LogInv
  <1>14. Recs(log.buffer) \subseteq Recs(buf)
    BY <1>3, SMTT(30) DEF Recs
  <1> QED BY <1>3, <1>5, <1>13, <1>14 DEF r

\* A refused record changes nothing but its number.
LEMMA LaterTop ==
    ASSUME NEW log, NEW ns, NEW top \in Nat, LogInv(log, ns, top)
    PROVE  LogInv(log, ns, top + 1)
  <1>1. LogType(log, top + 1)
    <2>1. LogType(log, top)
      BY DEF LogInv
    <2>2. 1..top \subseteq 1..(top + 1)
      BY SMTT(30)
    <2> QED BY <2>1, <2>2 DEF LogType
  <1> QED BY <1>1 DEF LogInv

\* A call that ends with this log ends in a state that satisfies the invariant.
LEMMA BecomeKeeps ==
    ASSUME NEW log, Become(log), now' = now, started' = started, Clock',
           LogInv(log, nextSeq', published')
    PROVE  WalInv'
  <1>1. /\ Log'.objects = log.objects /\ Log'.buffer = log.buffer
        /\ Log'.firstAt = log.firstAt /\ Log'.durable = log.durable
    BY DEF Become, Log
  <1>2. LogType(log, published')
    BY DEF LogInv
  <1>3. LogType(Log, published)'
    BY <1>1, <1>2 DEF LogType, Single
  <1>4. LogInv(Log, nextSeq, published)'
    BY <1>1, <1>3 DEF LogInv, Single, Stored, SpansBuffer
  <1> QED BY <1>4 DEF WalInv

\* What a step may not do to the records in the buffer.
KeepsBuffer ==
    started' = started =>
        Len(buffer) = 1 \/ Recs(buffer) \subseteq Recs(buffer') \cup Stored(objects')

\* The variables as a log.
LEMMA LogFields ==
    /\ IsLog(Log) /\ Log.objects = objects /\ Log.buffer = buffer
    /\ Log.firstAt = firstAt /\ Log.durable = durable
  BY DEF Log, IsLog

\* flush_due and flush_now.
LEMMA FlushStep ==
    ASSUME WalInv, buffer # <<>>, NEW log \in Flush(Log), Become(log),
           UNCHANGED <<nextSeq, now, published, started>>
    PROVE  WalInv' /\ KeepsBuffer
  <1>1. Clock /\ nextSeq \in Nat /\ published \in Nat /\ LogInv(Log, nextSeq, published)
    BY DEF WalInv, Clock
  <1>2. /\ LogInv(log, nextSeq, published)
        /\ log.ok => Recs(buffer) \subseteq Stored(log.objects)
        /\ ~log.ok /\ Len(buffer) # 1 => log.buffer = buffer
    BY <1>1, LogFields, FlushKeeps
  <1>3. Clock'
    BY <1>1 DEF Clock
  <1>4. WalInv'
    BY <1>2, <1>3, BecomeKeeps
  <1>5. KeepsBuffer
    BY <1>2 DEF KeepsBuffer, Become
  <1> QED BY <1>4, <1>5

\* WalGroupCommitStore::publish_record: a flush, the new record, a flush.
LEMMA PublishStep ==
    ASSUME WalInv, NEW size \in RecordSizes, Publish(size)
    PROVE  WalInv' /\ KeepsBuffer
  <1>1. /\ Clock /\ nextSeq \in Nat /\ published \in Nat /\ size \in Nat
        /\ LogInv(Log, nextSeq, published) /\ ~Single
    BY WalAssumption DEF WalInv, Clock, Publish
  <1>2. PICK pre \in IF Overflows(size) THEN Flush(Log) ELSE {Log} :
          \/ ~pre.ok /\ Become(pre) /\ UNCHANGED nextSeq
          \/ /\ pre.ok
             /\ nextSeq' = nextSeq + 1
             /\ LET full == Push(pre, size) IN
                \E post \in IF Full(full.buffer) THEN Flush(full) ELSE {full} : Become(post)
    BY DEF Publish
  <1>3. published' = published + 1 /\ now' = now /\ started' = started
    BY DEF Publish
  <1>4. /\ IsLog(pre) /\ LogInv(pre, nextSeq, published)
        /\ pre.ok => Recs(buffer) \subseteq Recs(pre.buffer) \cup Stored(pre.objects)
        /\ ~pre.ok /\ Len(buffer) # 1 => pre.buffer = buffer
    <2>1. CASE Overflows(size)
      <3>1. buffer # <<>> /\ pre \in Flush(Log)
        BY <1>2, <2>1 DEF Overflows
      <3> QED BY <1>1, <3>1, LogFields, FlushKeeps
    <2>2. CASE ~Overflows(size)
      BY <1>1, <1>2, <2>2, LogFields
    <2> QED BY <2>1, <2>2
  <1>5. CASE ~pre.ok /\ Become(pre) /\ UNCHANGED nextSeq
    <2>1. Clock'
      BY <1>1, <1>3, <1>5, SMTT(30) DEF Clock
    <2>2. LogInv(pre, nextSeq', published')
      BY <1>1, <1>3, <1>4, <1>5, LaterTop
    <2>3. WalInv'
      BY <1>3, <1>5, <2>1, <2>2, BecomeKeeps
    <2>4. KeepsBuffer
      BY <1>4, <1>5 DEF KeepsBuffer, Become
    <2> QED BY <2>3, <2>4
  <1>6. CASE /\ pre.ok
             /\ nextSeq' = nextSeq + 1
             /\ LET full == Push(pre, size) IN
                \E post \in IF Full(full.buffer) THEN Flush(full) ELSE {full} : Become(post)
    <2> DEFINE full == Push(pre, size)
    <2>1. /\ IsLog(full) /\ LogInv(full, nextSeq + 1, published + 1)
          /\ full.objects = pre.objects /\ full.buffer # <<>>
          /\ Recs(pre.buffer) \subseteq Recs(full.buffer)
          /\ Len(full.buffer) = Len(pre.buffer) + 1
      BY <1>1, <1>4, PushKeeps
    <2>2. PICK post \in IF Full(full.buffer) THEN Flush(full) ELSE {full} : Become(post)
      BY <1>6
    <2> HIDE DEF full
    <2>3. Clock'
      BY <1>1, <1>3, <1>6, SMTT(30) DEF Clock
    <2>4. /\ LogInv(post, nextSeq + 1, published + 1)
          /\ Stored(full.objects) \subseteq Stored(post.objects)
          /\ Len(full.buffer) # 1 =>
                Recs(full.buffer) \subseteq Recs(post.buffer) \cup Stored(post.objects)
      <3>1. CASE Full(full.buffer)
        <4>1. post \in Flush(full)
          BY <2>2, <3>1
        <4>2. nextSeq + 1 \in Nat /\ published + 1 \in Nat
          BY <1>1, SMTT(30)
        <4>3. /\ LogInv(post, nextSeq + 1, published + 1)
              /\ Stored(full.objects) \subseteq Stored(post.objects)
              /\ post.ok => Recs(full.buffer) \subseteq Stored(post.objects)
              /\ ~post.ok /\ Len(full.buffer) # 1 => post.buffer = full.buffer
          BY <1>1, <2>1, <4>1, <4>2, FlushKeeps
        <4> QED BY <4>3
      <3>2. CASE ~Full(full.buffer)
        BY <2>1, <2>2, <3>2
      <3> QED BY <3>1, <3>2
    <2>5. WalInv'
      BY <1>3, <1>6, <2>2, <2>3, <2>4, BecomeKeeps
    <2>6. Recs(buffer) \subseteq Recs(post.buffer) \cup Stored(post.objects)
      <3>1. CASE Len(full.buffer) # 1
        BY <1>4, <1>6, <2>1, <2>4, <3>1
      <3>2. CASE Len(full.buffer) = 1
        <4>1. pre.buffer \in Seq(Entry)
          BY <1>4 DEF LogInv, LogType
        <4>2. Len(pre.buffer) \in Nat
          BY <4>1, SMTT(30)
        <4>3. 1 = Len(pre.buffer) + 1
          BY <2>1, <3>2
        <4>4. Len(pre.buffer) = 0
          BY <4>2, <4>3, SMTT(30)
        <4>5. Recs(pre.buffer) = {}
          BY <4>4, SMTT(30) DEF Recs
        <4> QED BY <1>4, <1>6, <2>1, <2>4, <4>5
      <3> QED BY <3>1, <3>2
    <2>7. KeepsBuffer
      BY <2>2, <2>6 DEF KeepsBuffer, Become
    <2> QED BY <2>5, <2>7
  <1> QED BY <1>2, <1>5, <1>6

\* WalStore::publish_record: the number it ends at is not taken, so the write
\* replaces nothing.
LEMMA PublishSingleStep ==
    ASSUME WalInv, PublishSingle
    PROVE  WalInv' /\ KeepsBuffer
  <1> DEFINE rec == published + 1
  <1>1. /\ Clock /\ nextSeq \in Nat /\ published \in Nat /\ now \in Nat
        /\ LogInv(Log, nextSeq, published)
        /\ Single /\ buffer = <<>>
    BY LogFields DEF WalInv, Clock, LogInv, LogType, PublishSingle
  <1>2. /\ published' = rec /\ buffer' = buffer /\ firstAt' = firstAt
        /\ now' = now /\ started' = started
    BY DEF PublishSingle
  <1>3. PICK seq \in nextSeq..(nextSeq + Cardinality(objects)) :
          \/ /\ ~Taken(seq) /\ objects' = Store(objects, Chunk(seq, rec))
             /\ nextSeq' = seq + 1 /\ durable' = durable \cup {rec}
          \/ nextSeq' = seq /\ UNCHANGED <<objects, durable>>
          \/ /\ ~Taken(seq) /\ objects' = Store(objects, Chunk(seq, rec))
             /\ nextSeq' \in {seq, seq + 1} /\ UNCHANGED durable
    BY DEF PublishSingle
  <1> DEFINE o == Chunk(seq, rec)
  <1>4. seq \in Nat /\ nextSeq' \in Nat
    BY <1>1, <1>3, SMTT(30)
  <1>5. o \in Object /\ o.epoch = now /\ o.start = seq /\ o.end = seq /\ o.recs = <<rec>>
    BY <1>1, <1>4, SMTT(30) DEF Chunk, Object
  <1>6. Len(o.recs) = 1 /\ o.recs[1] = rec
    BY <1>5, SMTT(30)
  <1>7. /\ objects \in SUBSET Object
        /\ \A p \in objects : p.epoch <= now /\ p.end + 1 = p.start + Len(p.recs)
        /\ durable \subseteq Stored(objects)
        /\ durable \subseteq 1..published
        /\ firstAt \in Nat /\ firstAt <= now
    BY <1>1, LogFields DEF LogInv, LogType
  <1> HIDE DEF o
  <1>8. /\ objects' \in SUBSET Object
        /\ \A p \in objects' : p \in objects \/ p = o
        /\ durable' \subseteq Stored(objects')
        /\ durable' \subseteq 1..rec
    <2>1. CASE UNCHANGED <<objects, durable>>
      BY <1>1, <1>7, <2>1, SMTT(30)
    <2>2. CASE ~Taken(seq) /\ objects' = Store(objects, o) /\ durable' \subseteq durable \cup {rec}
      <3>1. \A p \in objects : ~SameKey(p, o)
        BY <2>2 DEF Taken, SameKey, Chunk, o
      <3>2. /\ objects' \in SUBSET Object
            /\ Stored(objects) \subseteq Stored(objects')
            /\ \A i \in 1..Len(o.recs) : o.recs[i] \in Stored(objects')
        BY <1>5, <1>7, <2>2, <3>1, StoreKeeps
      <3>3. rec \in Stored(objects')
        BY <1>6, <3>2, SMTT(30)
      <3>4. durable \cup {rec} \subseteq 1..rec
        BY <1>1, <1>7, SMTT(30)
      <3> QED BY <1>7, <2>2, <3>2, <3>3, <3>4 DEF Store
    <2> QED BY <1>3, <2>1, <2>2 DEF o
  <1>9. \A p \in objects' : p.epoch <= now /\ p.end + 1 = p.start + Len(p.recs)
    <2>1. o.epoch <= now /\ o.end + 1 = o.start + Len(o.recs)
      BY <1>1, <1>4, <1>5, <1>6, SMTT(30)
    <2> QED BY <1>7, <1>8, <2>1
  <1>10. Log'.objects = objects' /\ Log'.buffer = <<>> /\ Log'.firstAt = firstAt
         /\ Log'.durable = durable'
    BY <1>1, <1>2 DEF Log
  <1>11. LogType(Log, published)'
    BY <1>1, <1>2, <1>7, <1>8, <1>10, SMTT(30) DEF LogType, Single
  <1>12. LogInv(Log, nextSeq, published)'
    BY <1>1, <1>2, <1>8, <1>9, <1>10, <1>11, SMTT(30) DEF LogInv, Single, Stored
  <1>13. Clock'
    BY <1>1, <1>2, <1>4, SMTT(30) DEF Clock
  <1>14. KeepsBuffer
    BY <1>1, SMTT(30) DEF KeepsBuffer, Recs
  <1> QED BY <1>12, <1>13, <1>14 DEF WalInv

\* Time passes.
LEMMA TickStep ==
    ASSUME WalInv, Tick
    PROVE  WalInv' /\ KeepsBuffer
  <1>1. /\ now' = now + 1 /\ Clock
        /\ UNCHANGED <<objects, buffer, firstAt, nextSeq, published, durable, started>>
    BY DEF Tick, WalInv
  <1>2. Log' = Log
    BY <1>1 DEF Log
  <1>3. Clock'
    BY <1>1, SMTT(30) DEF Clock
  <1>4. LogType(Log, published)'
    BY <1>1, <1>2, SMTT(30) DEF WalInv, LogInv, LogType, Clock, Single
  <1>5. \A o \in Log.objects : o.epoch <= now'
    <2>1. \A o \in Log.objects : o \in Object /\ o.epoch <= now
      BY DEF WalInv, LogInv, LogType
    <2> QED BY <1>1, <2>1, SMTT(30) DEF Object, Clock
  <1>6. LogInv(Log, nextSeq, published)'
    BY <1>1, <1>2, <1>4, <1>5 DEF WalInv, LogInv, Single, Stored, SpansBuffer
  <1>7. KeepsBuffer
    BY <1>1 DEF KeepsBuffer
  <1> QED BY <1>3, <1>6, <1>7 DEF WalInv

\* A restart: whatever number it starts from, all it finds is from an earlier
\* epoch than anything it will write.
LEMMA RestartStep ==
    ASSUME WalInv, Restart
    PROVE  WalInv' /\ KeepsBuffer
  <1>1. /\ now' = now + 1 /\ started' = now + 1 /\ Clock
        /\ buffer' = <<>> /\ firstAt' = Never
        /\ UNCHANGED <<objects, published, durable>>
    BY DEF Restart, WalInv
  <1>2. /\ objects \subseteq Object
        /\ \A o \in objects : o.epoch <= now /\ o.end + 1 = o.start + Len(o.recs)
        /\ durable \subseteq 1..published /\ durable \subseteq Stored(objects)
    BY LogFields DEF WalInv, LogInv, LogType
  <1>3. nextSeq' \in Nat
    <2>1. \A o \in objects : o.end + 1 \in Nat
      BY <1>2, SMTT(30) DEF Object
    <2>2. nextSeq' \in {1} \cup {o.end + 1 : o \in objects} \/ nextSeq' = 0
      BY DEF Restart, Recover
    <2> QED BY <2>1, <2>2, SMTT(30)
  <1>4. Clock'
    BY <1>1, <1>3, SMTT(30) DEF Clock
  <1>5. /\ Log'.objects = objects /\ Log'.buffer = <<>> /\ Log'.firstAt = Never
        /\ Log'.durable = durable
    BY <1>1 DEF Log
  <1>6. LogType(Log, published)'
    BY <1>1, <1>2, <1>5, SMTT(30) DEF LogType, Single, Clock
  <1>7. \A o \in objects : o.epoch <= now' /\ ~(o.epoch >= started')
    BY <1>1, <1>2, SMTT(30) DEF Object, Clock
  <1>8. LogInv(Log, nextSeq, published)'
    <2>1. \A o \in Log'.objects : o.epoch <= now' /\ o.end + 1 = o.start + Len(o.recs)
      BY <1>2, <1>5, <1>7
    <2>2. Log'.durable \subseteq Stored(Log'.objects)
      BY <1>2, <1>5
    <2>3. \A i \in 1..Len(Log'.buffer) : Log'.buffer[i].seq + Len(Log'.buffer) + 1 = nextSeq' + i
      BY <1>5, SMTT(30)
    <2> QED BY <1>5, <1>6, <1>7, <2>1, <2>2, <2>3 DEF LogInv
  <1>9. KeepsBuffer
    BY <1>1, SMTT(30) DEF KeepsBuffer, Clock
  <1> QED BY <1>4, <1>8, <1>9 DEF WalInv

\* Every step keeps the invariant and the buffered records.
LEMMA WalStep ==
    ASSUME WalInv, [Next]_vars
    PROVE  WalInv' /\ KeepsBuffer
  <1>1. CASE \E size \in RecordSizes : Publish(size)
    BY <1>1, PublishStep
  <1>2. CASE FlushDue
    BY <1>2, FlushStep DEF FlushDue
  <1>3. CASE FlushNow
    BY <1>3, FlushStep DEF FlushNow
  <1>4. CASE PublishSingle
    BY <1>4, PublishSingleStep
  <1>5. CASE Tick
    BY <1>5, TickStep
  <1>6. CASE Restart
    BY <1>6, RestartStep
  <1>7. CASE UNCHANGED vars
    <2>1. Log' = Log /\ now' = now /\ started' = started /\ nextSeq' = nextSeq
          /\ published' = published /\ buffer' = buffer
      BY <1>7 DEF Log, vars
    <2>2. WalInv'
      BY <2>1 DEF WalInv, Clock, LogInv, LogType, Single, Stored, SpansBuffer
    <2> QED BY <2>1, <2>2 DEF KeepsBuffer
  <1> QED BY <1>1, <1>2, <1>3, <1>4, <1>5, <1>6, <1>7 DEF Next

\* The invariant holds of an empty log.
LEMMA WalInit == Init => WalInv
  <1> SUFFICES ASSUME Init PROVE WalInv
    OBVIOUS
  <1>1. Clock
    BY SMTT(30) DEF Init, Clock
  <1>2. /\ Log.objects = {} /\ Log.buffer = <<>> /\ Log.firstAt = 0 /\ Log.durable = {}
        /\ nextSeq = 1 /\ published = 0 /\ now = 1
    BY LogFields DEF Init
  <1>3. LogType(Log, published)
    BY <1>2, SMTT(30) DEF LogType
  <1>4. LogInv(Log, nextSeq, published)
    BY <1>2, <1>3, SMTT(30) DEF LogInv
  <1> QED BY <1>1, <1>4 DEF WalInv

\* The invariant gives the properties.
LEMMA WalInvGives == WalInv => TypeOK /\ ReplayDecodes /\ FlushedKept /\ DueCovered
  <1> SUFFICES ASSUME WalInv PROVE TypeOK /\ ReplayDecodes /\ FlushedKept /\ DueCovered
    OBVIOUS
  <1>1. LogInv(Log, nextSeq, published) /\ LogType(Log, published) /\ Clock
    BY DEF WalInv, LogInv
  <1>2. TypeOK
    BY <1>1, LogFields DEF LogInv, LogType, Clock, TypeOK
  <1>3. ReplayDecodes /\ FlushedKept /\ DueCovered
    BY <1>1, LogFields DEF LogInv, ReplayDecodes, FlushedKept, DueCovered
  <1> QED BY <1>2, <1>3

\* Types, and times and record numbers within what has happened, for every
\* policy of WalGroupCommitStore.
THEOREM WalTypeCorrect == Spec => []TypeOK
  BY WalInit, WalStep, WalInvGives, PTL DEF Spec

\* Replay decodes every object that publish_record and the flushes ever write,
\* failed flushes and restarts with a failed listing included.
THEOREM ReplayDecodesAlways == Spec => []ReplayDecodes
  BY WalInit, WalStep, WalInvGives, PTL DEF Spec

\* A record reported written is never overwritten, although put_object replaces
\* what is stored under a key and a restart may reuse sequence numbers.
THEOREM FlushedKeptAlways == Spec => []FlushedKept
  BY WalInit, WalStep, WalInvGives, PTL DEF Spec

\* flush_due measures from no later than the oldest buffered record.
THEOREM DueCoveredAlways == Spec => []DueCovered
  BY WalInit, WalStep, WalInvGives, PTL DEF Spec

\* Only a record that is alone in the buffer can be lost by a failed flush.
THEOREM LostOnlyAloneHolds == Spec => LostOnlyAlone
  <1>1. WalInv /\ [Next]_vars => [KeepsBuffer]_vars
    BY WalStep
  <1>2. Spec => []WalInv
    BY WalInit, WalStep, PTL DEF Spec
  <1>3. Spec => [][KeepsBuffer]_vars
    BY <1>1, <1>2, PTL DEF Spec
  <1> QED BY <1>3 DEF LostOnlyAlone, KeepsBuffer

HIDE DEF Never

-----------------------------------------------------------------------------
\* The parts that names are made of, the keys that writers choose, and what the
\* parser makes of a key.
NodeParts == UNION {{NodeOf(w)[i] : i \in DOMAIN NodeOf(w)} : w \in WalWriters}
Part == NodeParts \cup {Text("chunk")} \cup {Numeral(n) : n \in Nat}
KeyOf(w, e, s) == BuildCanonicalWalKey(WriterNs[w], NodeOf(w), e, s)
Candidates == {NoKey} \cup {KeyOf(w, e, s) : w \in WalWriters, e \in Nat, s \in Nat}
ParsedKey(k) == ParseWalObjectKey(k.ns, k)

\* No two writers of one namespace have the same id once it is sanitized, and a
\* namespace is listed under its own name.
WritersApart ==
    /\ \A w \in WalWriters :
        NodeOf(w) \in Seq(NodeParts) /\ NodeOf(w) # <<>> /\ WriterNs[w] \in ListedUnder[WriterNs[w]]
    /\ \A v, w \in WalWriters : WriterNs[v] = WriterNs[w] /\ NodeOf(v) = NodeOf(w) => v = w

\* The objects a bucket begins with: the numbers in their keys are bounded and a
\* range is not empty, and the writer's own are under keys that parse as its own.
KeyOK(objs, k, top) ==
    /\ ParsedKey(k).ok => ParsedKey(k).start \in Nat /\ ParsedKey(k).end \in ParsedKey(k).start .. top
    /\ \A w \in WalWriters : objs[k][1] = w =>
        k.ns = WriterNs[w] /\ ParsedKey(k).ok /\ ParsedKey(k).node = NodeOf(w)
SeedsParse ==
    \A objs \in WalSeeds :
        /\ objs = [k \in DOMAIN objs |-> objs[k]]
        /\ \E top \in Nat : \A k \in DOMAIN objs : KeyOK(objs, k, top)
        /\ \A k \in DOMAIN objs, w \in WalWriters : objs[k][1] = w => objs[k] = <<w, 0>>

WriterRecord ==
    [at : {"idle", "head", "put", "get", "verify"}, seq : Nat, key : Candidates, calls : Nat]
WriterType == writer \in [WalWriters -> WriterRecord] /\ walEpoch \in Nat

\* Every object of a writer is under a key that parses as the writer's.
ObjectsParse ==
    /\ walObjects = [k \in DOMAIN walObjects |-> walObjects[k]]
    /\ \E top \in Nat : \A k \in DOMAIN walObjects : KeyOK(walObjects, k, top)

\* The objects of a writer are of calls it has made; that of the call it makes
\* is under the key it chose and is not acknowledged.
ObjectOf(w, k) ==
    /\ \E n \in 0 .. writer[w].calls : walObjects[k] = <<w, n>>
    /\ writer[w].at \in {"head", "put"} => walObjects[k] # RecordOfCall(w)
    /\ writer[w].at \in {"get", "verify"} /\ walObjects[k] = RecordOfCall(w) => k = writer[w].key
CallsOf(w) ==
    /\ \A k \in DOMAIN walObjects : walObjects[k][1] = w => ObjectOf(w, k)
    /\ writer[w].at # "idle" => RecordOfCall(w) \notin walAcked

\* A candidate is free until its writer puts it, and holds its record then.
CandidateOf(w) ==
    /\ writer[w].at = "put" => writer[w].key \notin DOMAIN walObjects
    /\ writer[w].at \in {"get", "verify"} =>
        writer[w].key \in DOMAIN walObjects /\ walObjects[writer[w].key] = RecordOfCall(w)
    /\ writer[w].at \in {"put", "get", "verify"} =>
        \E e \in Nat, s \in Nat :
            /\ writer[w].key = KeyOf(w, e, s)
            /\ writer[w].seq = IF writer[w].at = "verify" THEN s + 1 ELSE s

AckedKept == \A r \in walAcked : \E k \in DOMAIN walObjects : walObjects[k] = r

\* The next number of a writer, and the one it is writing, are past all it has
\* acknowledged, and these are in the order of the calls.
OwnAcked(w, k) == k \in DOMAIN walObjects /\ walObjects[k][1] = w /\ walObjects[k] \in walAcked
NumbersPast(w) ==
    \A k : OwnAcked(w, k) =>
        /\ ParsedKey(k).end < writer[w].seq
        /\ writer[w].at = "verify" => ParsedKey(k).end + 1 < writer[w].seq
NumbersGrow(w) ==
    \A a, b : OwnAcked(w, a) /\ OwnAcked(w, b) /\ walObjects[a][2] < walObjects[b][2] =>
        ParsedKey(a).end < ParsedKey(b).start
NumbersOf(w) == w \notin blindStart => NumbersPast(w) /\ NumbersGrow(w)

KeysInv ==
    /\ WriterType /\ ObjectsParse /\ AckedKept
    /\ \A w \in WalWriters : CallsOf(w) /\ CandidateOf(w) /\ NumbersOf(w)

-----------------------------------------------------------------------------
\* The parser undoes build_canonical_wal_key, whatever dashes and numbers the
\* node id has in it.
LEMMA BuildParses ==
  ASSUME WritersApart, NEW w \in WalWriters, NEW e \in Nat, NEW s \in Nat
  PROVE  /\ ParsedKey(KeyOf(w, e, s)) = Named("single", NodeOf(w), s, s)
         /\ KeyOf(w, e, s).ns = WriterNs[w]
<1> DEFINE node == NodeOf(w)
           last == Numeral(s)
           first == Text("chunk")
           name == <<first>> \o node \o <<last>>
           k == KeyOf(w, e, s)
<1>1. first \in Part /\ last \in Part /\ IsNumeral(last) /\ ParseU64(last) = s
  <2>1. first \in Part /\ last \in Part
    BY DEF Part
  <2>2. last.digits /\ last.num = s
    BY DEF Numeral
  <2> QED  BY <2>1, <2>2 DEF IsNumeral, ParseU64
<1>2. node \in Seq(Part) /\ Len(node) \in Nat \ {0}
  <2>1. node \in Seq(NodeParts) /\ node # <<>>
    BY DEF WritersApart
  <2>2. Len(node) \in Nat \ {0}
    BY <2>1, EmptySeq
  <2>3. NodeParts \subseteq Part
    BY DEF Part
  <2> HIDE DEF node
  <2> QED  BY <2>1, <2>2, <2>3, SMTT(30)
<1>3. k.name = name /\ k.ns = WriterNs[w] /\ k.dir = e
  BY DEF KeyOf, BuildCanonicalWalKey
<1> HIDE DEF first, last, node, k
<1>4. /\ name \in Seq(Part) /\ Len(name) = Len(node) + 2
      /\ name[1] = first /\ name[Len(name)] = last
      /\ \A i \in 1 .. Len(node) : name[i + 1] = node[i]
  <2> DEFINE front == <<first>> \o node
  <2>1. /\ front \in Seq(Part) /\ Len(front) = Len(node) + 1 /\ front[1] = first
        /\ \A i \in 1 .. Len(node) : front[i + 1] = node[i]
    BY <1>1, <1>2, SMTT(30)
  <2> HIDE DEF front
  <2>2. /\ front \o <<last>> \in Seq(Part) /\ Len(front \o <<last>>) = Len(node) + 2
        /\ (front \o <<last>>)[Len(node) + 2] = last
        /\ \A i \in 1 .. Len(node) + 1 : (front \o <<last>>)[i] = front[i]
    BY <1>1, <1>2, <2>1, SMTT(30)
  <2>3. 1 \in 1 .. Len(node) + 1 /\ \A i \in 1 .. Len(node) : i + 1 \in 1 .. Len(node) + 1
    BY <1>2, SMTT(30)
  <2> QED  BY <2>1, <2>2, <2>3 DEF front
<1> HIDE DEF name
<1>5. SubSeq(name, 2, Len(name) - 1) = node
  <2> DEFINE sub == SubSeq(name, 2, Len(name) - 1)
  <2>1. sub \in Seq(Part) /\ Len(sub) = Len(node) /\ \A i \in 1 .. Len(node) : sub[i] = name[i + 1]
    BY <1>2, <1>4, SMTT(30)
  <2> HIDE DEF sub
  <2>2. \A i \in 1 .. Len(node) : sub[i] = node[i]
    BY <1>4, <2>1
  <2> QED  BY <1>2, <2>1, <2>2, SeqEqual DEF sub
<1>6. ParseNodeSeqFilename(name) = Named("single", node, s, s)
  <2>1. Len(name) >= 3
    BY <1>2, <1>4, SMTT(30)
  <2> QED  BY <1>1, <1>4, <1>5, <2>1 DEF ParseNodeSeqFilename, first
<1>7. Named("single", node, s, s).ok
  BY DEF Named
<1>8. e # Flat
  BY SMTT(30) DEF Flat
<1>9. ParsedKey(k) = Named("single", node, s, s)
  BY <1>3, <1>6, <1>7, <1>8 DEF ParsedKey, ParseWalObjectKey, ParseFilename
<1> QED  BY <1>3, <1>9 DEF k, node

\* So two writers never choose one key.
LEMMA BuildApart ==
  ASSUME WritersApart, NEW v \in WalWriters, NEW w \in WalWriters,
         NEW d \in Nat, NEW r \in Nat, NEW e \in Nat, NEW s \in Nat, KeyOf(v, d, r) = KeyOf(w, e, s)
  PROVE  v = w
<1>1. Named("single", NodeOf(v), r, r) = Named("single", NodeOf(w), s, s) /\ WriterNs[v] = WriterNs[w]
  <2>1. ParsedKey(KeyOf(v, d, r)) = Named("single", NodeOf(v), r, r) /\ KeyOf(v, d, r).ns = WriterNs[v]
    BY BuildParses
  <2>2. ParsedKey(KeyOf(w, e, s)) = Named("single", NodeOf(w), s, s) /\ KeyOf(w, e, s).ns = WriterNs[w]
    BY BuildParses
  <2> QED  BY <2>1, <2>2
<1>2. NodeOf(v) = NodeOf(w)
  BY <1>1, SMTT(30) DEF Named
<1> QED  BY <1>1, <1>2 DEF WritersApart

\* A set of natural numbers has a least one.
LEMMA LeastNumber ==
  ASSUME NEW R, IsWellFoundedOn(R, Nat), \A x, y \in Nat : y < x => <<y, x>> \in R,
         NEW S, S \subseteq Nat, S # {}
  PROVE  \E x \in S : \A y \in S : x <= y
<1>1. PICK x \in S : \A y \in S : ~ (<<y, x>> \in R)
  BY WFMin
<1>2. ASSUME NEW y \in S, ~ (x <= y) PROVE FALSE
  <2>1. x \in Nat /\ y \in Nat /\ y < x
    BY <1>2, SMTT(30)
  <2> QED  BY <1>1, <2>1
<1> QED  BY <1>2

\* A bounded set of numbers has a largest one.
LEMMA LargestOne ==
  ASSUME NEW S \in SUBSET Nat, NEW x \in S, NEW top \in Nat, \A n \in S : n <= top
  PROVE  \E m \in S : \A n \in S : n <= m
<1> DEFINE U == {m \in Nat : \A n \in S : n <= m}
           R == OpToRel(<, Nat)
<1>1. U \subseteq Nat /\ U # {}
  <2>1. top \in U
    OBVIOUS
  <2> QED  BY <2>1
<1>2. \A y, z \in Nat : y < z => <<y, z>> \in R
  BY DEF OpToRel
<1>3. IsWellFoundedOn(R, Nat)
  BY NatLessThanWellFounded
<1>4. PICK m \in U : \A y \in U : m <= y
  <2> HIDE DEF U, R
  <2> QED  BY <1>1, <1>2, <1>3, LeastNumber
<1>5. m \in Nat /\ \A n \in S : n <= m
  OBVIOUS
<1>6. CASE m \in S
  BY <1>5, <1>6
<1>7. CASE m \notin S
  <2>1. \A n \in S : n <= m - 1
    BY <1>5, <1>7, SMTT(30)
  <2>2. m - 1 \in Nat
    BY <1>5, <1>7, SMTT(30)
  <2>3. m - 1 \in U
    BY <2>1, <2>2
  <2>4. m <= m - 1
    BY <1>4, <2>3
  <2> QED  BY <1>5, <2>4, SMTT(30)
<1> QED  BY <1>6, <1>7

\* recover_next_seq is past every number under the node's own keys.
LEMMA RecoverPast ==
  ASSUME WritersApart, ObjectsParse, NEW w \in WalWriters
  PROVE  /\ RecoverNextSeq(WriterNs[w], NodeOf(w)) \in Nat
         /\ \A k \in DOMAIN walObjects :
              k.ns = WriterNs[w] /\ ParsedKey(k).ok /\ ParsedKey(k).node = NodeOf(w) =>
                  ParsedKey(k).end < RecoverNextSeq(WriterNs[w], NodeOf(w))
<1> DEFINE ns == WriterNs[w]
           node == NodeOf(w)
           seqs == {0} \cup UNION {ParseSeqForNode(ns, node, k) : k \in ListPrefix(ns)}
           m == CHOOSE s \in seqs : \A t \in seqs : t <= s
<1>1. PICK top \in Nat : \A k \in DOMAIN walObjects : KeyOK(walObjects, k, top)
  BY DEF ObjectsParse
<1>2. ASSUME NEW k \in ListPrefix(ns), NEW n \in ParseSeqForNode(ns, node, k) PROVE n \in Nat /\ n <= top
  <2>1. k \in DOMAIN walObjects
    BY DEF ListPrefix
  <2>2. k.ns = ns /\ ParsedKey(k).ok /\ n = ParsedKey(k).end
    BY <1>2 DEF ParseSeqForNode, ParseWalObjectKey, ParsedKey, NoName
  <2> QED  BY <1>1, <2>1, <2>2, SMTT(30) DEF KeyOK
<1>3. seqs \in SUBSET Nat /\ 0 \in seqs /\ \A n \in seqs : n <= top
  <2>1. \A n \in seqs : n = 0 \/ \E k \in ListPrefix(ns) : n \in ParseSeqForNode(ns, node, k)
    OBVIOUS
  <2>2. 0 \in Nat /\ 0 <= top /\ 0 \in seqs
    BY SMTT(30)
  <2> HIDE DEF seqs
  <2> QED  BY <1>2, <2>1, <2>2
<1> HIDE DEF seqs
<1>4. \E s \in seqs : \A t \in seqs : t <= s
  BY <1>3, LargestOne
<1>5. m \in seqs /\ \A t \in seqs : t <= m
  BY <1>4
<1> HIDE DEF m
<1>6. RecoverNextSeq(ns, node) = m + 1
  BY DEF RecoverNextSeq, m, seqs
<1>7. ASSUME NEW k \in DOMAIN walObjects, k.ns = ns, ParsedKey(k).ok, ParsedKey(k).node = node
      PROVE  ParsedKey(k).end \in seqs
  <2>1. k \in ListPrefix(ns)
    BY <1>7 DEF ListPrefix, WritersApart
  <2>2. ParsedKey(k).end \in ParseSeqForNode(ns, node, k)
    BY <1>7 DEF ParseSeqForNode, ParsedKey
  <2> QED  BY <2>1, <2>2 DEF seqs
<1>8. m \in Nat /\ m + 1 \in Nat
  BY <1>3, <1>5, SMTT(30)
<1>9. ASSUME NEW k \in DOMAIN walObjects, k.ns = ns, ParsedKey(k).ok, ParsedKey(k).node = node
      PROVE  ParsedKey(k).end < m + 1
  <2>1. ParsedKey(k).end \in Nat /\ ParsedKey(k).end <= m
    BY <1>3, <1>5, <1>7, <1>9
  <2> QED  BY <1>8, <2>1, SMTT(30)
<1> QED  BY <1>6, <1>8, <1>9

-----------------------------------------------------------------------------
\* A writer that is stopped has no candidate.
LEMMA StoppedFields ==
  ASSUME NEW s \in Nat, NEW n \in Nat
  PROVE  /\ Stopped(s, n) \in WriterRecord
         /\ Stopped(s, n).at = "idle" /\ Stopped(s, n).seq = s /\ Stopped(s, n).calls = n
<1>1. NoKey \in Candidates
  BY SMTT(30) DEF Candidates
<1> HIDE DEF NoKey
<1> QED  BY <1>1, SMTT(30) DEF Stopped, WriterRecord

\* At the start every writer is idle, past the numbers it finds.
LEMMA KeysStart == ASSUME WritersApart, SeedsParse, WalKeysInit PROVE KeysInv
<1>1. ObjectsParse
  BY DEF WalKeysInit, SeedsParse, ObjectsParse
<1>2. AckedKept
  BY DEF WalKeysInit, AckedKept
<1>3. ASSUME NEW w \in WalWriters
      PROVE  writer[w] = Stopped(RecoverNextSeq(WriterNs[w], NodeOf(w)), 0)
  BY DEF WalKeysInit
<1>4. ASSUME NEW w \in WalWriters
      PROVE  /\ writer[w] \in WriterRecord /\ writer[w].at = "idle" /\ writer[w].calls = 0
             /\ writer[w].seq = RecoverNextSeq(WriterNs[w], NodeOf(w))
  <2>1. RecoverNextSeq(WriterNs[w], NodeOf(w)) \in Nat
    BY <1>1, RecoverPast
  <2>2. 0 \in Nat
    BY SMTT(30)
  <2> QED  BY <1>3, <2>1, <2>2, StoppedFields, SMTT(30)
<1>5. WriterType
  BY <1>4, SMTT(30) DEF WalKeysInit, WriterType
<1>6. ASSUME NEW w \in WalWriters PROVE CallsOf(w) /\ CandidateOf(w) /\ NumbersOf(w)
  <2>1. ASSUME NEW k \in DOMAIN walObjects, walObjects[k][1] = w
        PROVE  walObjects[k] = <<w, 0>> /\ ParsedKey(k).end < writer[w].seq
    <3>1. walObjects[k] = <<w, 0>>
      BY <2>1 DEF WalKeysInit, SeedsParse
    <3>2. k.ns = WriterNs[w] /\ ParsedKey(k).ok /\ ParsedKey(k).node = NodeOf(w)
      BY <1>1, <2>1 DEF ObjectsParse, KeyOK
    <3> QED  BY <1>1, <1>4, <3>1, <3>2, RecoverPast
  <2>2. CallsOf(w)
    <3>1. 0 \in 0 .. 0
      BY SMTT(30)
    <3> QED  BY <1>4, <2>1, <3>1 DEF CallsOf, ObjectOf
  <2>3. CandidateOf(w)
    BY <1>4 DEF CandidateOf
  <2>4. NumbersPast(w)
    BY <1>4, <2>1 DEF NumbersPast, OwnAcked
  <2>5. NumbersGrow(w)
    <3>1. \A a : OwnAcked(w, a) => walObjects[a][2] = 0
      BY <2>1, SMTT(30) DEF OwnAcked
    <3>2. ~ (0 < 0)
      BY SMTT(30)
    <3> QED  BY <3>1, <3>2, SMTT(30) DEF NumbersGrow
  <2> QED  BY <2>2, <2>3, <2>4, <2>5 DEF NumbersOf
<1> QED  BY <1>1, <1>2, <1>5, <1>6 DEF KeysInv

\* A step that sets one writer.
LEMMA WriterSet ==
  ASSUME WriterType, NEW w \in WalWriters, NEW c \in WriterRecord, writer' = [writer EXCEPT ![w] = c]
  PROVE  /\ writer' \in [WalWriters -> WriterRecord] /\ writer'[w] = c
         /\ \A v \in WalWriters : v # w => writer'[v] = writer[v]
  BY DEF WriterType

\* What a step leaves of a writer it does not concern, while the objects stay.
LEMMA SameWriter ==
  ASSUME NEW v \in WalWriters, writer'[v] = writer[v], UNCHANGED <<walObjects, walAcked>>,
         CallsOf(v), CandidateOf(v), NumbersOf(v), v \in blindStart => v \in blindStart'
  PROVE  CallsOf(v)' /\ CandidateOf(v)' /\ NumbersOf(v)'
<1>1. RecordOfCall(v)' = RecordOfCall(v)
  BY DEF RecordOfCall
<1>2. CallsOf(v)'
  BY <1>1 DEF CallsOf, ObjectOf
<1>3. CandidateOf(v)'
  BY <1>1, SMTT(30) DEF CandidateOf
<1>4. NumbersOf(v)'
  BY DEF NumbersOf, NumbersPast, NumbersGrow, OwnAcked
<1> QED  BY <1>2, <1>3, <1>4

\* A step of one writer that stores and acknowledges nothing.
LEMMA OneWriter ==
  ASSUME KeysInv, NEW w \in WalWriters, NEW c \in WriterRecord, writer' = [writer EXCEPT ![w] = c],
         UNCHANGED <<walObjects, walAcked, walEpoch>>, blindStart \subseteq blindStart',
         CallsOf(w)', CandidateOf(w)', NumbersOf(w)'
  PROVE  KeysInv'
<1>1. WriterType'
  BY WriterSet DEF WriterType, KeysInv
<1>2. ObjectsParse' /\ AckedKept'
  BY DEF KeysInv, ObjectsParse, AckedKept, KeyOK
<1>3. \A v \in WalWriters : v # w => CallsOf(v)' /\ CandidateOf(v)' /\ NumbersOf(v)'
  BY WriterSet, SameWriter DEF KeysInv
<1> QED  BY <1>1, <1>2, <1>3 DEF KeysInv

\* What a writer has acknowledged is under numbers of its own.
LEMMA OwnNumbers ==
  ASSUME KeysInv, NEW w \in WalWriters, NEW k, OwnAcked(w, k)
  PROVE  /\ ParsedKey(k).start \in Nat /\ ParsedKey(k).end \in Nat /\ ParsedKey(k).start <= ParsedKey(k).end
         /\ k.ns = WriterNs[w] /\ ParsedKey(k).ok /\ ParsedKey(k).node = NodeOf(w)
<1>1. PICK top \in Nat : KeyOK(walObjects, k, top)
  BY DEF KeysInv, ObjectsParse, OwnAcked
<1>2. k.ns = WriterNs[w] /\ ParsedKey(k).ok /\ ParsedKey(k).node = NodeOf(w)
  BY <1>1 DEF KeyOK, OwnAcked
<1>3. ParsedKey(k).start \in Nat /\ ParsedKey(k).end \in ParsedKey(k).start .. top
  BY <1>1, <1>2 DEF KeyOK
<1> QED  BY <1>2, <1>3, SMTT(30)

\* publish_record begins: the call is a new one.
LEMMA BeginKeeps == ASSUME KeysInv, NEW w \in WalWriters, BeginPublish(w) PROVE KeysInv'
<1> DEFINE old == writer[w]
           c == [old EXCEPT !.at = "head", !.calls = @ + 1]
<1>1. old \in WriterRecord /\ old.at = "idle"
  BY DEF BeginPublish, KeysInv, WriterType
<1>2. writer' = [writer EXCEPT ![w] = c]
  BY SMTT(30) DEF BeginPublish, KeysInv, WriterType, WriterRecord
<1>3. c \in WriterRecord /\ c.at = "head" /\ c.calls = old.calls + 1 /\ c.seq = old.seq
  <2>1. old.calls + 1 \in Nat
    BY <1>1, SMTT(30) DEF WriterRecord
  <2> QED  BY <1>1, <2>1 DEF WriterRecord
<1> HIDE DEF c
<1>4. writer'[w] = c /\ walObjects' = walObjects /\ walAcked' = walAcked /\ blindStart' = blindStart
  BY <1>2, <1>3, WriterSet DEF KeysInv, BeginPublish
<1>5. old.calls \in Nat
  BY <1>1 DEF WriterRecord
<1>6. CallsOf(w)'
  <2>1. ASSUME NEW k \in DOMAIN walObjects, walObjects[k][1] = w
        PROVE  \E n \in 0 .. c.calls : walObjects[k] = <<w, n>> /\ n # c.calls
    <3>1. PICK n \in 0 .. old.calls : walObjects[k] = <<w, n>>
      BY <2>1 DEF KeysInv, CallsOf, ObjectOf
    <3>2. n \in 0 .. c.calls /\ n # c.calls
      BY <1>3, <1>5, SMTT(30)
    <3> QED  BY <3>1, <3>2
  <2>2. \A k \in DOMAIN walObjects : walObjects[k][1] = w => walObjects[k] # <<w, c.calls>>
    BY <2>1, SMTT(30)
  <2>3. <<w, c.calls>> \notin walAcked
    <3>1. <<w, c.calls>>[1] = w
      OBVIOUS
    <3> QED  BY <2>2, <3>1 DEF KeysInv, AckedKept
  <2> QED  BY <1>3, <1>4, <2>1, <2>2, <2>3 DEF CallsOf, ObjectOf, RecordOfCall
<1>7. CandidateOf(w)'
  BY <1>3, <1>4 DEF CandidateOf
<1>8. NumbersOf(w)'
  BY <1>3, <1>4 DEF NumbersOf, NumbersPast, NumbersGrow, OwnAcked, KeysInv
<1> QED  BY <1>2, <1>3, <1>6, <1>7, <1>8, OneWriter DEF BeginPublish

\* head_object: a candidate that is taken costs a number; a free one is kept.
LEMMA HeadKeeps == ASSUME WritersApart, KeysInv, NEW w \in WalWriters, HeadCandidate(w) PROVE KeysInv'
<1> DEFINE old == writer[w]
           key == KeyOf(w, walEpoch, old.seq)
<1>1. old \in WriterRecord /\ old.at = "head" /\ walEpoch \in Nat
  BY DEF HeadCandidate, KeysInv, WriterType
<1>2. old.seq \in Nat /\ old.seq + 1 \in Nat /\ old.calls \in Nat
  BY <1>1, SMTT(30) DEF WriterRecord
<1>3. UNCHANGED <<walObjects, walEpoch, walAcked, blindStart>>
  BY DEF HeadCandidate
<1>4. CASE key \in DOMAIN walObjects
  <2> DEFINE c == [old EXCEPT !.seq = @ + 1]
  <2>1. writer' = [writer EXCEPT ![w] = c]
    BY <1>4, SMTT(30) DEF HeadCandidate, KeyOf, KeysInv, WriterType, WriterRecord
  <2>2. c \in WriterRecord /\ c.at = "head" /\ c.calls = old.calls /\ c.seq = old.seq + 1
    BY <1>1, <1>2, SMTT(30) DEF WriterRecord
  <2> HIDE DEF c
  <2>3. writer'[w] = c
    BY <2>1, <2>2, WriterSet DEF KeysInv
  <2>4. CallsOf(w)'
    BY <1>1, <1>3, <2>2, <2>3 DEF KeysInv, CallsOf, ObjectOf, RecordOfCall
  <2>5. CandidateOf(w)'
    BY <2>2, <2>3 DEF CandidateOf
  <2>6. NumbersOf(w)'
    <3>1. ASSUME w \notin blindStart, NEW k, OwnAcked(w, k) PROVE ParsedKey(k).end < c.seq
      <4>1. ParsedKey(k).end < old.seq
        BY <3>1 DEF KeysInv, NumbersOf, NumbersPast
      <4>2. ParsedKey(k).end \in Nat
        BY <3>1, OwnNumbers
      <4> QED  BY <1>2, <2>2, <4>1, <4>2, SMTT(30)
    <3> QED  BY <1>3, <2>2, <2>3, <3>1 DEF NumbersOf, NumbersPast, NumbersGrow, OwnAcked, KeysInv
  <2> QED  BY <1>3, <2>1, <2>2, <2>4, <2>5, <2>6, OneWriter
<1>5. CASE key \notin DOMAIN walObjects
  <2> DEFINE c == [old EXCEPT !.at = "put", !.key = key]
  <2>1. writer' = [writer EXCEPT ![w] = c]
    BY <1>5 DEF HeadCandidate, KeyOf, KeysInv, WriterType, WriterRecord
  <2>2. key \in Candidates
    BY <1>1, <1>2, SMTT(30) DEF Candidates
  <2> HIDE DEF key
  <2>3. c \in WriterRecord /\ c.at = "put" /\ c.calls = old.calls /\ c.seq = old.seq /\ c.key = key
    BY <1>1, <2>2 DEF WriterRecord
  <2> HIDE DEF c
  <2>4. writer'[w] = c
    BY <2>1, <2>3, WriterSet DEF KeysInv
  <2>5. CallsOf(w)'
    BY <1>1, <1>3, <2>3, <2>4 DEF KeysInv, CallsOf, ObjectOf, RecordOfCall
  <2>6. CandidateOf(w)'
    BY <1>1, <1>2, <1>3, <1>5, <2>3, <2>4 DEF CandidateOf, key
  <2>7. NumbersOf(w)'
    BY <1>3, <2>3, <2>4 DEF NumbersOf, NumbersPast, NumbersGrow, OwnAcked, KeysInv
  <2> QED  BY <1>3, <2>1, <2>3, <2>5, <2>6, <2>7, OneWriter
<1> QED  BY <1>4, <1>5

\* The object read back is the writer's own.
LEMMA ReadBackKeeps == ASSUME KeysInv, NEW w \in WalWriters, ReadBack(w) PROVE KeysInv'
<1> DEFINE old == writer[w]
           c == [old EXCEPT !.seq = @ + 1, !.at = "verify"]
<1>1. old \in WriterRecord /\ old.at = "get"
  BY DEF ReadBack, KeysInv, WriterType
<1>2. old.seq \in Nat /\ old.seq + 1 \in Nat /\ old.calls \in Nat
  BY <1>1, SMTT(30) DEF WriterRecord
<1>3. UNCHANGED <<walObjects, walEpoch, walAcked, blindStart>>
  BY DEF ReadBack
<1>4. old.key \in DOMAIN walObjects /\ walObjects[old.key] = RecordOfCall(w)
  BY <1>1 DEF KeysInv, CandidateOf
<1>5. writer' = [writer EXCEPT ![w] = c]
  BY <1>4, SMTT(30) DEF ReadBack, KeysInv, WriterType, WriterRecord
<1>6. c \in WriterRecord /\ c.at = "verify" /\ c.calls = old.calls /\ c.seq = old.seq + 1 /\ c.key = old.key
  BY <1>1, <1>2 DEF WriterRecord
<1> HIDE DEF c
<1>7. writer'[w] = c
  BY <1>5, <1>6, WriterSet DEF KeysInv
<1>8. CallsOf(w)'
  BY <1>1, <1>3, <1>6, <1>7 DEF KeysInv, CallsOf, ObjectOf, RecordOfCall
<1>9. CandidateOf(w)'
  <2>1. PICK e \in Nat, s \in Nat : old.key = KeyOf(w, e, s) /\ old.seq = s
    BY <1>1 DEF KeysInv, CandidateOf
  <2>2. RecordOfCall(w)' = RecordOfCall(w)
    BY <1>6, <1>7 DEF RecordOfCall
  <2> QED  BY <1>3, <1>4, <1>6, <1>7, <2>1, <2>2 DEF CandidateOf
<1>10. NumbersOf(w)'
  <2>1. ASSUME w \notin blindStart, NEW k, OwnAcked(w, k)
        PROVE  ParsedKey(k).end < c.seq /\ ParsedKey(k).end + 1 < c.seq
    <3>1. ParsedKey(k).end < old.seq
      BY <2>1 DEF KeysInv, NumbersOf, NumbersPast
    <3>2. ParsedKey(k).end \in Nat
      BY <2>1, OwnNumbers
    <3> QED  BY <1>2, <1>6, <3>1, <3>2, SMTT(30)
  <2> QED  BY <1>3, <1>7, <2>1 DEF NumbersOf, NumbersPast, NumbersGrow, OwnAcked, KeysInv
<1> QED  BY <1>3, <1>5, <1>6, <1>8, <1>9, <1>10, OneWriter

\* The candidate is stored: it was free, and no other writer has chosen it.
LEMMA StoredKeeps ==
  ASSUME WritersApart, KeysInv, NEW w \in WalWriters, writer[w].at = "put", walObjects' = WithKey(w),
         NEW c \in WriterRecord, writer' = [writer EXCEPT ![w] = c],
         c.calls = writer[w].calls, c.seq = writer[w].seq,
         c.at = "idle" \/ (c.at = "get" /\ c.key = writer[w].key),
         UNCHANGED <<walAcked, walEpoch, blindStart>>
  PROVE  KeysInv'
<1> DEFINE key == writer[w].key
           rec == RecordOfCall(w)
<1>1. key \notin DOMAIN walObjects /\ rec \notin walAcked
  BY DEF KeysInv, CandidateOf, CallsOf
<1>2. PICK e \in Nat, s \in Nat : key = KeyOf(w, e, s) /\ writer[w].seq = s
  BY DEF KeysInv, CandidateOf
<1>3. /\ DOMAIN walObjects' = DOMAIN walObjects \cup {key} /\ walObjects'[key] = rec
      /\ \A k \in DOMAIN walObjects : walObjects'[k] = walObjects[k]
      /\ walObjects' = [k \in DOMAIN walObjects' |-> walObjects'[k]]
  BY <1>1 DEF WithKey
<1>4. /\ writer' \in [WalWriters -> WriterRecord] /\ writer'[w] = c
      /\ \A v \in WalWriters : v # w => writer'[v] = writer[v]
  BY WriterSet DEF KeysInv
<1>5. rec[1] = w /\ rec = <<w, c.calls>> /\ RecordOfCall(w)' = rec
  BY <1>4 DEF RecordOfCall
<1>6. ParsedKey(key) = Named("single", NodeOf(w), s, s) /\ key.ns = WriterNs[w]
  BY <1>2, BuildParses
<1>7. ParsedKey(key).ok /\ ParsedKey(key).node = NodeOf(w) /\ ParsedKey(key).start = s /\ ParsedKey(key).end = s
  BY <1>6, SMTT(30) DEF Named
<1> HIDE DEF key, rec
<1>8. ObjectsParse'
  <2>1. PICK top \in Nat : \A k \in DOMAIN walObjects : KeyOK(walObjects, k, top)
    BY DEF KeysInv, ObjectsParse
  <2>2. PICK more \in Nat : top <= more /\ s <= more
    <3>1. top + s \in Nat /\ top <= top + s /\ s <= top + s
      BY SMTT(30)
    <3> QED  BY <3>1
  <2>3. ASSUME NEW k \in DOMAIN walObjects PROVE KeyOK(walObjects', k, more)
    <3>1. KeyOK(walObjects, k, top) /\ walObjects'[k] = walObjects[k]
      BY <1>3, <2>1
    <3>2. ASSUME NEW a \in Nat, NEW b \in a .. top PROVE b \in a .. more
      BY <2>2, SMTT(30)
    <3> QED  BY <3>1, <3>2 DEF KeyOK
  <2>4. KeyOK(walObjects', key, more)
    <3>1. s \in s .. more
      BY <2>2, SMTT(30)
    <3> QED  BY <1>3, <1>5, <1>6, <1>7, <3>1 DEF KeyOK
  <2>5. \A k \in DOMAIN walObjects' : KeyOK(walObjects', k, more)
    BY <1>3, <2>3, <2>4
  <2> QED  BY <1>3, <2>5 DEF ObjectsParse
<1>9. AckedKept'
  BY <1>3, SMTT(30) DEF KeysInv, AckedKept
<1>10. \A v \in WalWriters : \A k : OwnAcked(v, k)' => OwnAcked(v, k)
  BY <1>1, <1>3 DEF OwnAcked
<1>11. \A v \in WalWriters : \A k : OwnAcked(v, k) => walObjects'[k] = walObjects[k]
  BY <1>3 DEF OwnAcked
<1>12. ASSUME NEW v \in WalWriters, writer'[v].seq = writer[v].seq,
              writer'[v].at = writer[v].at \/ writer'[v].at # "verify"
       PROVE  NumbersOf(v)'
  BY <1>10, <1>11, <1>12 DEF NumbersOf, NumbersPast, NumbersGrow, KeysInv
<1>13. CallsOf(w)' /\ CandidateOf(w)' /\ NumbersOf(w)'
  <2>1. c.calls \in Nat /\ c.calls \in 0 .. c.calls
    <3>1. c.calls \in Nat
      BY DEF WriterRecord
    <3> QED  BY <3>1, SMTT(30)
  <2>2. ASSUME NEW k \in DOMAIN walObjects, walObjects[k][1] = w
        PROVE  (\E n \in 0 .. c.calls : walObjects[k] = <<w, n>>) /\ walObjects[k] # rec
    BY <2>2 DEF KeysInv, CallsOf, ObjectOf, rec
  <2>3. CallsOf(w)'
    <3>1. ASSUME NEW k \in DOMAIN walObjects', walObjects'[k][1] = w PROVE ObjectOf(w, k)'
      <4>1. CASE k = key
        BY <1>3, <1>4, <1>5, <2>1, <4>1 DEF ObjectOf, key
      <4>2. CASE k \in DOMAIN walObjects
        BY <1>3, <1>4, <1>5, <2>2, <3>1, <4>2 DEF ObjectOf
      <4> QED  BY <1>3, <4>1, <4>2
    <3> QED  BY <1>1, <1>5, <3>1 DEF CallsOf
  <2>4. CandidateOf(w)'
    BY <1>2, <1>3, <1>4, <1>5, SMTT(30) DEF CandidateOf, key
  <2>5. NumbersOf(w)'
    BY <1>4, <1>12
  <2> QED  BY <2>3, <2>4, <2>5
<1>14. ASSUME NEW v \in WalWriters, v # w PROVE CallsOf(v)' /\ CandidateOf(v)' /\ NumbersOf(v)'
  <2>1. writer'[v] = writer[v] /\ RecordOfCall(v)' = RecordOfCall(v)
    BY <1>4, <1>14 DEF RecordOfCall
  <2>2. CallsOf(v)'
    <3>1. \A k \in DOMAIN walObjects' : walObjects'[k][1] = v =>
            k \in DOMAIN walObjects /\ walObjects'[k] = walObjects[k]
      BY <1>3, <1>5, <1>14
    <3> QED  BY <2>1, <3>1, SMTT(30) DEF KeysInv, CallsOf, ObjectOf
  <2>3. writer[v].at = "put" => writer[v].key # key
    BY <1>2, <1>14, BuildApart, SMTT(30) DEF KeysInv, CandidateOf
  <2>4. CandidateOf(v)'
    <3>1. CandidateOf(v)
      BY DEF KeysInv
    <3>2. writer[v].at = "put" => writer[v].key \notin DOMAIN walObjects'
      BY <1>3, <2>3, <3>1 DEF CandidateOf
    <3>3. writer[v].at \in {"get", "verify"} =>
            writer[v].key \in DOMAIN walObjects' /\ walObjects'[writer[v].key] = RecordOfCall(v)
      BY <1>3, <3>1 DEF CandidateOf
    <3> QED  BY <2>1, <3>1, <3>2, <3>3 DEF CandidateOf
  <2>5. NumbersOf(v)'
    BY <1>12, <2>1
  <2> QED  BY <2>2, <2>4, <2>5
<1>15. WriterType'
  BY <1>4 DEF WriterType, KeysInv
<1> QED  BY <1>8, <1>9, <1>13, <1>14, <1>15 DEF KeysInv

\* put_object of the candidate.
LEMMA PutKeeps == ASSUME WritersApart, KeysInv, NEW w \in WalWriters, PutCandidate(w) PROVE KeysInv'
<1> DEFINE old == writer[w]
           c == [old EXCEPT !.at = "get"]
<1>1. old \in WriterRecord
  BY DEF KeysInv, WriterType
<1>2. writer' = [writer EXCEPT ![w] = c]
  BY DEF PutCandidate, KeysInv, WriterType, WriterRecord
<1>3. c \in WriterRecord /\ c.at = "get" /\ c.calls = old.calls /\ c.seq = old.seq /\ c.key = old.key
  BY <1>1 DEF WriterRecord
<1> HIDE DEF c
<1> QED  BY <1>2, <1>3, StoredKeeps DEF PutCandidate

\* publish_record returns: the record is under the largest number of its writer.
LEMMA VerifyKeeps == ASSUME WritersApart, KeysInv, NEW w \in WalWriters, VerifyHead(w) PROVE KeysInv'
<1> DEFINE old == writer[w]
           c == [old EXCEPT !.at = "idle", !.key = NoKey]
           key == old.key
           rec == RecordOfCall(w)
<1>1. old \in WriterRecord /\ old.at = "verify" /\ old.calls \in Nat
  BY DEF VerifyHead, KeysInv, WriterType, WriterRecord
<1>2. writer' = [writer EXCEPT ![w] = c]
  BY DEF VerifyHead, KeysInv, WriterType, WriterRecord
<1>3. c \in WriterRecord /\ c.at = "idle" /\ c.calls = old.calls /\ c.seq = old.seq
  <2>1. NoKey \in Candidates
    BY SMTT(30) DEF Candidates
  <2> QED  BY <1>1, <2>1 DEF WriterRecord
<1> HIDE DEF c
<1>4. /\ writer' \in [WalWriters -> WriterRecord] /\ writer'[w] = c
      /\ \A v \in WalWriters : v # w => writer'[v] = writer[v]
  BY <1>2, <1>3, WriterSet DEF KeysInv
<1>5. walAcked' = walAcked \cup {rec} /\ UNCHANGED <<walObjects, walEpoch, blindStart>>
  BY DEF VerifyHead
<1>6. key \in DOMAIN walObjects /\ walObjects[key] = rec /\ rec[1] = w /\ rec[2] = old.calls
  BY <1>1 DEF KeysInv, CandidateOf, RecordOfCall
<1>7. PICK e \in Nat, s \in Nat : key = KeyOf(w, e, s) /\ old.seq = s + 1
  BY <1>1 DEF KeysInv, CandidateOf
<1>8. ParsedKey(key).start = s /\ ParsedKey(key).end = s
  <2>1. ParsedKey(key) = Named("single", NodeOf(w), s, s)
    BY <1>7, BuildParses
  <2> QED  BY <2>1, SMTT(30) DEF Named
<1>9. \A k \in DOMAIN walObjects : walObjects[k] = rec => k = key
  BY <1>1, <1>6 DEF KeysInv, CallsOf, ObjectOf
<1> HIDE DEF key, rec
<1>10. \A k : OwnAcked(w, k)' => OwnAcked(w, k) \/ k = key
  BY <1>5, <1>9 DEF OwnAcked
<1>11. WriterType' /\ ObjectsParse' /\ AckedKept'
  BY <1>4, <1>5, <1>6, SMTT(30) DEF WriterType, ObjectsParse, KeyOK, AckedKept, KeysInv
<1>12. CallsOf(w)'
  BY <1>3, <1>4, <1>5 DEF KeysInv, CallsOf, ObjectOf
<1>13. CandidateOf(w)'
  BY <1>3, <1>4 DEF CandidateOf
<1>14. NumbersOf(w)'
  <2>1. SUFFICES ASSUME w \notin blindStart PROVE NumbersPast(w)' /\ NumbersGrow(w)'
    BY <1>5 DEF NumbersOf
  <2>2. NumbersPast(w) /\ NumbersGrow(w)
    BY <2>1 DEF KeysInv, NumbersOf
  <2>3. s < s + 1
    BY SMTT(30)
  <2>4. NumbersPast(w)'
    BY <1>3, <1>4, <1>7, <1>8, <1>10, <2>2, <2>3 DEF NumbersPast
  <2>5. ASSUME NEW a, OwnAcked(w, a) PROVE ParsedKey(a).end < s
    <3>1. ParsedKey(a).end \in Nat /\ ParsedKey(a).end + 1 < s + 1
      BY <1>1, <1>7, <2>2, <2>5, OwnNumbers DEF NumbersPast
    <3> QED  BY <3>1, SMTT(30)
  <2>6. ASSUME NEW b, OwnAcked(w, b) \/ b = key PROVE ~ (old.calls < walObjects[b][2])
    <3>1. CASE b = key
      <4>1. ~ (old.calls < old.calls)
        BY <1>1, SMTT(30)
      <4> QED  BY <1>6, <3>1, <4>1
    <3>2. CASE OwnAcked(w, b)
      <4>1. PICK n \in 0 .. old.calls : walObjects[b] = <<w, n>>
        BY <3>2 DEF KeysInv, CallsOf, ObjectOf, OwnAcked
      <4>2. walObjects[b][2] = n
        BY <4>1, SMTT(30)
      <4>3. ~ (old.calls < n)
        BY <1>1, SMTT(30)
      <4> QED  BY <4>2, <4>3
    <3> QED  BY <2>6, <3>1, <3>2
  <2>7. NumbersGrow(w)'
    <3>1. SUFFICES ASSUME NEW a, NEW b, OwnAcked(w, a) \/ a = key, OwnAcked(w, b) \/ b = key,
                          walObjects[a][2] < walObjects[b][2]
                   PROVE  ParsedKey(a).end < ParsedKey(b).start
      BY <1>5, <1>10 DEF NumbersGrow
    <3>2. a # key
      BY <1>6, <2>6, <3>1
    <3>3. CASE b = key
      BY <1>8, <2>5, <3>1, <3>2, <3>3
    <3>4. CASE OwnAcked(w, b)
      BY <2>2, <3>1, <3>2, <3>4 DEF NumbersGrow
    <3> QED  BY <3>1, <3>3, <3>4
  <2> QED  BY <2>4, <2>7
<1>15. ASSUME NEW v \in WalWriters, v # w PROVE CallsOf(v)' /\ CandidateOf(v)' /\ NumbersOf(v)'
  <2>1. writer'[v] = writer[v] /\ RecordOfCall(v)' = RecordOfCall(v) /\ RecordOfCall(v) # rec
    <3>1. RecordOfCall(v)[1] = v
      BY DEF RecordOfCall
    <3> QED  BY <1>4, <1>6, <1>15, <3>1 DEF RecordOfCall
  <2>2. CallsOf(v)'
    BY <1>5, <2>1 DEF KeysInv, CallsOf, ObjectOf
  <2>3. CandidateOf(v)'
    <3>1. CandidateOf(v)
      BY DEF KeysInv
    <3> QED  BY <1>5, <2>1, <3>1, SMTT(30) DEF CandidateOf
  <2>4. \A k : OwnAcked(v, k)' => OwnAcked(v, k)
    BY <1>5, <1>6, <1>15 DEF OwnAcked
  <2>5. NumbersOf(v)'
    BY <1>5, <2>1, <2>4 DEF NumbersOf, NumbersPast, NumbersGrow, KeysInv
  <2> QED  BY <2>2, <2>3, <2>5
<1> QED  BY <1>11, <1>12, <1>13, <1>14, <1>15 DEF KeysInv

\* A writer that stops, with a next number past all it has acknowledged or
\* without a listing.
LEMMA StopKeeps ==
  ASSUME KeysInv, NEW w \in WalWriters, NEW s \in Nat,
         writer' = [writer EXCEPT ![w] = Stopped(s, writer[w].calls)],
         UNCHANGED <<walObjects, walAcked, walEpoch>>, blindStart \subseteq blindStart',
         w \in blindStart' \/ \A k : OwnAcked(w, k) => ParsedKey(k).end < s
  PROVE  KeysInv'
<1> DEFINE c == Stopped(s, writer[w].calls)
<1>1. writer[w].calls \in Nat
  BY DEF KeysInv, WriterType, WriterRecord
<1>2. c \in WriterRecord /\ c.at = "idle" /\ c.seq = s /\ c.calls = writer[w].calls
  BY <1>1, StoppedFields
<1>3. writer' = [writer EXCEPT ![w] = c]
  OBVIOUS
<1> HIDE DEF c
<1>4. writer'[w] = c
  BY <1>2, <1>3, WriterSet DEF KeysInv
<1>5. CallsOf(w)'
  BY <1>2, <1>4 DEF KeysInv, CallsOf, ObjectOf
<1>6. CandidateOf(w)'
  BY <1>2, <1>4 DEF CandidateOf
<1>7. NumbersOf(w)'
  BY <1>2, <1>4 DEF NumbersOf, NumbersPast, NumbersGrow, OwnAcked, KeysInv
<1> QED  BY <1>2, <1>3, <1>5, <1>6, <1>7, OneWriter

\* A failed store call, whether or not a put has stored.
LEMMA FailKeeps == ASSUME WritersApart, KeysInv, NEW w \in WalWriters, StoreFails(w) PROVE KeysInv'
<1> DEFINE old == writer[w]
           c == Stopped(old.seq, old.calls)
<1>1. old.seq \in Nat /\ old.calls \in Nat
  BY DEF KeysInv, WriterType, WriterRecord
<1>2. writer' = [writer EXCEPT ![w] = c] /\ UNCHANGED <<walAcked, walEpoch, blindStart>>
  BY DEF StoreFails, KeysInv, WriterType
<1>3. CASE walObjects' = walObjects
  <2>1. w \notin blindStart => \A k : OwnAcked(w, k) => ParsedKey(k).end < old.seq
    BY DEF KeysInv, NumbersOf, NumbersPast
  <2> QED  BY <1>1, <1>2, <1>3, <2>1, StopKeeps
<1>4. CASE old.at = "put" /\ walObjects' = WithKey(w)
  <2>1. c \in WriterRecord /\ c.at = "idle" /\ c.seq = old.seq /\ c.calls = old.calls
    BY <1>1, StoppedFields
  <2> HIDE DEF c
  <2> QED  BY <1>2, <1>4, <2>1, StoredKeeps
<1> QED  BY <1>3, <1>4 DEF StoreFails

\* with_node_id: the listing has every key of the node.
LEMMA RestartKeeps == ASSUME WritersApart, KeysInv, NEW w \in WalWriters, RestartWriter(w) PROVE KeysInv'
<1> DEFINE s == RecoverNextSeq(WriterNs[w], NodeOf(w))
<1>1. s \in Nat
  BY RecoverPast DEF KeysInv
<1>2. \A k : OwnAcked(w, k) => ParsedKey(k).end < s
  BY RecoverPast, OwnNumbers DEF KeysInv, OwnAcked
<1>3. writer' = [writer EXCEPT ![w] = Stopped(s, writer[w].calls)]
  BY DEF RestartWriter, KeysInv, WriterType
<1> HIDE DEF s
<1> QED  BY <1>1, <1>2, <1>3, StopKeeps DEF RestartWriter

\* unwrap_or(0): the writer's order is given up.
LEMMA BlindKeeps == ASSUME KeysInv, NEW w \in WalWriters, RestartBlind(w) PROVE KeysInv'
<1>1. 0 \in Nat
  BY SMTT(30)
<1>2. writer' = [writer EXCEPT ![w] = Stopped(0, writer[w].calls)]
  BY DEF RestartBlind, KeysInv, WriterType
<1>3. UNCHANGED <<walObjects, walAcked, walEpoch>> /\ blindStart' = blindStart \cup {w}
  BY DEF RestartBlind
<1> QED  BY <1>1, <1>2, <1>3, StopKeeps

\* The clock moves, or nothing does.
LEMMA QuietKeeps ==
  ASSUME KeysInv, UNCHANGED <<walObjects, writer, walAcked, blindStart>>, walEpoch' \in Nat
  PROVE  KeysInv'
<1>1. \A v \in WalWriters : CallsOf(v)' /\ CandidateOf(v)' /\ NumbersOf(v)'
  BY SameWriter DEF KeysInv
<1>2. WriterType' /\ ObjectsParse' /\ AckedKept'
  BY DEF KeysInv, WriterType, ObjectsParse, AckedKept, KeyOK
<1> QED  BY <1>1, <1>2 DEF KeysInv

\* The invariant gives the order of replay.
LEMMA KeysInvPublished == ASSUME KeysInv PROVE PublishedKept
<1>1. ASSUME NEW w \in WalWriters \ blindStart, NEW a \in DOMAIN walObjects, NEW b \in DOMAIN walObjects,
             {walObjects[a], walObjects[b]} \subseteq walAcked, walObjects[a][1] = w, walObjects[b][1] = w,
             walObjects[a][2] < walObjects[b][2]
      PROVE  KeyPrecedes(WriterNs[w], a, b)
  <2>1. OwnAcked(w, a) /\ OwnAcked(w, b)
    BY <1>1 DEF OwnAcked
  <2>2. ParsedKey(a).end < ParsedKey(b).start
    BY <1>1, <2>1 DEF KeysInv, NumbersOf, NumbersGrow
  <2>3. /\ ParsedKey(a).start \in Nat /\ ParsedKey(a).end \in Nat /\ ParsedKey(a).start <= ParsedKey(a).end
        /\ a.ns = WriterNs[w] /\ ParsedKey(a).ok
    BY <2>1, OwnNumbers
  <2>4. ParsedKey(b).start \in Nat /\ b.ns = WriterNs[w] /\ ParsedKey(b).ok
    BY <2>1, OwnNumbers
  <2>5. ParsedKey(a).start < ParsedKey(b).start
    BY <2>2, <2>3, <2>4, SMTT(30)
  <2> QED  BY <2>3, <2>4, <2>5 DEF KeyPrecedes, ParsedKey
<1>2. \A r \in walAcked : \E k \in DOMAIN walObjects : walObjects[k] = r
  BY DEF KeysInv, AckedKept
<1> QED  BY <1>1, <1>2 DEF PublishedKept

\* Replay returns every published record, and those of a writer in the order of
\* its calls: for any writers that are apart, any first objects that parse, any
\* number of calls, restarts and failed store calls (publish_record,
\* with_node_id, recover_next_seq, compare_wal_object_keys).
THEOREM PublishedKeptHolds ==
  ASSUME WritersApart, SeedsParse
  PROVE  WalKeysInit /\ [][WalKeysNext]_walKeyVars => []PublishedKept
<1>1. WalKeysInit => KeysInv
  BY KeysStart
<1>2. KeysInv /\ [WalKeysNext]_walKeyVars => KeysInv'
  <2> SUFFICES ASSUME KeysInv, [WalKeysNext]_walKeyVars PROVE KeysInv'
    OBVIOUS
  <2>1. ASSUME NEW w \in WalWriters,
               \/ BeginPublish(w) \/ HeadCandidate(w) \/ PutCandidate(w) \/ ReadBack(w) \/ VerifyHead(w)
               \/ StoreFails(w) \/ RestartWriter(w) \/ RestartBlind(w)
        PROVE  KeysInv'
    BY <2>1, BeginKeeps, HeadKeeps, PutKeeps, ReadBackKeeps, VerifyKeeps, FailKeeps, RestartKeeps, BlindKeeps
  <2>2. CASE NextMillisecond
    <3>1. walEpoch' \in Nat
      BY <2>2, SMTT(30) DEF NextMillisecond, KeysInv, WriterType
    <3> QED  BY <2>2, <3>1, QuietKeeps DEF NextMillisecond
  <2>3. CASE UNCHANGED walKeyVars
    <3>1. walEpoch' \in Nat
      BY <2>3 DEF walKeyVars, KeysInv, WriterType
    <3> QED  BY <2>3, <3>1, QuietKeeps DEF walKeyVars
  <2> QED  BY <2>1, <2>2, <2>3 DEF WalKeysNext
<1>3. KeysInv => PublishedKept
  BY KeysInvPublished
<1> QED  BY <1>1, <1>2, <1>3, PTL
=============================================================================
