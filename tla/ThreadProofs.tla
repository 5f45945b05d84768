---------------------------- MODULE ThreadProofs ----------------------------
(***************************************************************************)
(* What threads find in what they share.                                   *)
(*                                                                         *)
(* Connections (AnswersOwnRequest), any number of threads, connections and *)
(* workers: a connection has at most one frame under way, in one place,    *)
(* and it is the frame of the thread that holds the client's mutex.        *)
(*                                                                         *)
(* Latency histogram, any number of recorders (CountAndMaxAgree): the count *)
(* is that of the samples recorded and of those under way past the count,  *)
(* and no maximum that a thread has read is above max, until a reset       *)
(* overlaps a record (TotalsSoFar).                                        *)
(***************************************************************************)
EXTENDS DispatchPool, LatencyHistogram, SequenceTheorems, FiniteSetTheorems, TLAPS

\* A leaf that names no prover is left to Zenon.
USE ZenonT(30)

Frame == [from : Callers \cup {"damaged"}]
Results == {"none", "io", "codec"} \cup Callers
Busy(c) == conn[c].at \in {"submit", "await"}

PoolType ==
    /\ caller \in [Callers -> [at : {"idle", "read"}, calls : Nat, result : Results]]
    /\ locked \in [Conns -> Callers \cup {Nobody}]
    /\ up \in [Conns -> Seq(Frame)] /\ down \in [Conns -> Seq(Frame)]
    /\ conn \in [Conns -> [at : {"read", "submit", "await", "closed"}, job : Frame \cup {NoJob}]]
    /\ oneshot \in [Conns -> Frame \cup {NoJob}]
    /\ queue \in Seq(Conns)
    /\ pool \in [PoolWorkers -> [at : {"idle", "busy", "gone"}, conn : Conns \cup {Nobody},
                                 job : Frame \cup {NoJob}]]

\* The mutex: a thread that waits for its answer holds it.
HeldWhileReading == \A t \in Callers : caller[t].at = "read" => locked[ConnOf[t]] = t

\* A frame on the wire is alone on its connection, and its task waits to read.
OneOnWire ==
    \A c \in Conns :
        /\ up[c] # <<>> => Len(up[c]) = 1 /\ down[c] = <<>> /\ conn[c].at = "read"
        /\ down[c] # <<>> => Len(down[c]) = 1 /\ up[c] = <<>> /\ conn[c].at = "read"

\* A job is in one place: in the queue once, with one worker, or answered.
Unanswered == \A c \in Conns : conn[c].at # "await" => oneshot[c] = NoJob

QueuedOnce ==
    \A i \in 1..Len(queue) :
        /\ conn[queue[i]].at = "await" /\ oneshot[queue[i]] = NoJob
        /\ \A j \in 1..Len(queue) : queue[i] = queue[j] => i = j

WorkedOnce ==
    \A w \in PoolWorkers : pool[w].at = "busy" =>
        /\ pool[w].conn \in Conns
        /\ conn[pool[w].conn].at = "await" /\ oneshot[pool[w].conn] = NoJob
        /\ \A i \in 1..Len(queue) : queue[i] # pool[w].conn
        /\ \A v \in PoolWorkers : pool[v].at = "busy" /\ pool[v].conn = pool[w].conn => v = w

OneInPool == Unanswered /\ QueuedOnce /\ WorkedOnce

\* Whatever is under way on a connection belongs to the holder of its mutex.
OwnedByHolder ==
    /\ \A c \in Conns :
        /\ up[c] # <<>> => locked[c] # Nobody /\ up[c][1].from \in {locked[c], "damaged"}
        /\ down[c] # <<>> => locked[c] # Nobody /\ down[c][1].from \in {locked[c], "damaged"}
        /\ Busy(c) => locked[c] # Nobody /\ conn[c].job.from = locked[c]
        /\ oneshot[c] # NoJob => oneshot[c].from \in {locked[c], "damaged"}
    /\ \A w \in PoolWorkers : pool[w].at = "busy" => pool[w].job.from = locked[pool[w].conn]

PoolInv ==
    /\ PoolType
    /\ HeldWhileReading /\ OneOnWire /\ OneInPool /\ OwnedByHolder
    /\ AnswersOwnRequest

-----------------------------------------------------------------------------
\* The types of the threads and of the connection tasks.
CallerType == [Callers -> [at : {"idle", "read"}, calls : Nat, result : Results]]
ConnType == [Conns -> [at : {"read", "submit", "await", "closed"}, job : Frame \cup {NoJob}]]

\* What a frame alone on the wire is.
LEMMA Single ==
  ASSUME NEW S, NEW s \in Seq(S), Len(s) = 1
  PROVE  s[1] \in S /\ Head(s) = s[1] /\ Tail(s) = <<>> /\ s # <<>>
  <1>1. s # <<>> /\ s[1] \in S /\ Head(s) = s[1]
    BY SMTT(30)
  <1>2. Tail(s) = <<>>
    <2>1. Tail(s) \in Seq(S) /\ Len(Tail(s)) = 0
      BY <1>1, HeadTailProperties, SMTT(30)
    <2> QED BY <2>1, EmptySeq
  <1> QED BY <1>1, <1>2

\* A damaged frame is one frame still.
LEMMA Damaged ==
  ASSUME NEW S, NEW s \in Seq(S), Len(s) = 1, NEW f \in S
  PROVE  LET d == [s EXCEPT ![1] = f]
         IN  d \in Seq(S) /\ Len(d) = 1 /\ d[1] = f /\ d # <<>>
  BY SMTT(30)

\* Finish ends the call of one thread and touches no other.
LEMMA FinishOne ==
  ASSUME caller \in CallerType, NEW t \in Callers, NEW r \in Results, Finish(t, r)
  PROVE  /\ caller' \in CallerType
         /\ caller'[t].at = "idle" /\ caller'[t].result = r
         /\ \A u \in Callers \ {t} : caller'[u] = caller[u]
  BY SMTT(30) DEF Finish, CallerType

\* And so does Wait, which begins to wait for the answer.
LEMMA WaitOne ==
  ASSUME caller \in CallerType, NEW t \in Callers, Wait(t)
  PROVE  /\ caller' \in CallerType
         /\ caller'[t].at = "read" /\ caller'[t].result = "none"
         /\ \A u \in Callers \ {t} : caller'[u] = caller[u]
  BY DEF Wait, CallerType, Results

\* The queue holds connections.
LEMMA QueueElems == PoolType => \A i \in 1..Len(queue) : queue[i] \in Conns
  BY SMTT(30) DEF PoolType

\* Nothing is under way at the start.
LEMMA PoolInitInv == PoolInit => PoolInv
  BY PoolAssumption, SMTT(30) DEF PoolInit, PoolInv, PoolType, HeldWhileReading, OneOnWire, OneInPool, Unanswered,
     QueuedOnce, WorkedOnce, OwnedByHolder, AnswersOwnRequest, Busy, Resting, Nobody, NoJob, Frame, Results

\* WriteRequest keeps the invariant.
LEMMA WriteRequestInv ==
  ASSUME NEW t \in Callers, PoolInv, WriteRequest(t)
  PROVE  PoolInv'
  <1> DEFINE c == ConnOf[t]
  <1> USE PoolAssumption DEF PoolInv
  <1>1. c \in Conns /\ caller \in CallerType
    BY DEF PoolType, CallerType
  <1>2. CASE ConnClosed(c)
    <2>1. Finish(t, "io") /\ UNCHANGED <<locked, up, down, conn, oneshot, queue, pool>>
      BY <1>2 DEF WriteRequest
    <2>2. /\ caller' \in CallerType
          /\ caller'[t].at = "idle" /\ caller'[t].result = "io"
          /\ \A u \in Callers \ {t} : caller'[u] = caller[u]
      BY <1>1, <2>1, FinishOne DEF Results
    <2>3. PoolType'
      BY <2>1, <2>2 DEF PoolType, CallerType
    <2>4. HeldWhileReading' /\ AnswersOwnRequest'
      BY <2>1, <2>2 DEF HeldWhileReading, AnswersOwnRequest
    <2>5. OneOnWire' /\ OneInPool' /\ OwnedByHolder'
      BY <2>1, SMTT(30) DEF OneOnWire, OneInPool, Unanswered, QueuedOnce, WorkedOnce, OwnedByHolder, Busy
    <2> QED BY <2>3, <2>4, <2>5
  <1>3. CASE ~ConnClosed(c)
    <2>1. /\ locked[c] = Nobody
          /\ locked' = [locked EXCEPT ![c] = t]
          /\ up' = [up EXCEPT ![c] = Append(@, [from |-> t])]
          /\ Wait(t)
          /\ UNCHANGED <<down, conn, oneshot, queue, pool>>
      BY <1>3 DEF WriteRequest
    <2>2. /\ caller' \in CallerType
          /\ caller'[t].at = "read" /\ caller'[t].result = "none"
          /\ \A u \in Callers \ {t} : caller'[u] = caller[u]
      BY <1>1, <2>1, WaitOne
    <2>3. up[c] = <<>> /\ down[c] = <<>> /\ conn[c].at = "read"
      BY <1>1, <1>3, <2>1, SMTT(30) DEF OwnedByHolder, Busy, ConnClosed, PoolType
    <2>4. /\ [from |-> t] \in Frame
          /\ up'[c] = <<[from |-> t]>>
          /\ \A d \in Conns \ {c} : up'[d] = up[d]
      BY <1>1, <2>1, <2>3, SMTT(30) DEF PoolType, Frame
    <2>5. up' \in [Conns -> Seq(Frame)]
      BY <1>1, <2>1, <2>4, SMTT(30) DEF PoolType
    <2>6. PoolType'
      BY <1>1, <2>1, <2>2, <2>5 DEF PoolType, CallerType
    <2>7. t # Nobody
      BY DEF Nobody
    <2>8. HeldWhileReading'
      <3> SUFFICES ASSUME NEW u \in Callers, caller'[u].at = "read"
                   PROVE  locked'[ConnOf[u]] = u
        BY DEF HeldWhileReading
      <3>1. CASE u = t
        BY <3>1, <1>1, <2>1 DEF PoolType
      <3>2. CASE u # t
        <4>1. locked[ConnOf[u]] = u /\ u # Nobody
          BY <3>2, <2>2 DEF HeldWhileReading, Nobody
        <4> QED BY <4>1, <2>1, <1>1 DEF PoolType
      <3> QED BY <3>1, <3>2
    <2>9. AnswersOwnRequest'
      BY <2>2 DEF AnswersOwnRequest
    <2>10. OneOnWire'
      BY <2>1, <2>3, <2>4, SMTT(30) DEF OneOnWire
    <2>11. OneInPool'
      BY <2>1 DEF OneInPool, Unanswered, QueuedOnce, WorkedOnce
    <2>12. /\ \A d \in Conns : (conn[d].at = "await" \/ oneshot[d] # NoJob) => locked'[d] = locked[d]
           /\ \A d \in Conns \ {c} : locked'[d] = locked[d]
           /\ locked'[c] = t
      BY <1>1, <2>1, <2>3 DEF PoolType, OneInPool, Unanswered
    <2>13. OwnedByHolder'
      BY <2>1, <2>3, <2>4, <2>7, <2>12, SMTT(30) DEF OwnedByHolder, OneInPool, WorkedOnce, Busy
    <2> QED BY <2>6, <2>8, <2>9, <2>10, <2>11, <2>13
  <1> QED BY <1>2, <1>3

\* ReadResponse keeps the invariant.
LEMMA ReadResponseInv ==
  ASSUME NEW t \in Callers, PoolInv, ReadResponse(t)
  PROVE  PoolInv'
  <1> DEFINE c == ConnOf[t]
  <1> USE PoolAssumption DEF PoolInv
  <1>1. /\ c \in Conns /\ caller \in CallerType /\ t # Nobody /\ locked[c] = t
        /\ up[c] \in Seq(Frame) /\ down[c] \in Seq(Frame)
    BY DEF PoolType, CallerType, HeldWhileReading, ReadResponse, Nobody
  <1>2. /\ locked' = [locked EXCEPT ![c] = Nobody]
        /\ UNCHANGED <<up, conn, oneshot, queue, pool>>
    BY <1>1 DEF ReadResponse, PoolType
  <1>3. \E r \in {"io", "codec", t} : Finish(t, r)
    <2>1. CASE down[c] # <<>>
      <3>1. Head(down[c]) = down[c][1]
        BY <2>1, <1>1, Single DEF OneOnWire
      <3>2. down[c][1].from \in {t, "damaged"}
        BY <2>1, <1>1 DEF OwnedByHolder
      <3> QED BY <2>1, <3>1, <3>2 DEF ReadResponse, Intact
    <2>2. CASE down[c] = <<>>
      BY <2>2 DEF ReadResponse
    <2> QED BY <2>1, <2>2
  <1>4. PICK r \in {"io", "codec", t} : Finish(t, r)
    BY <1>3
  <1>5. /\ caller' \in CallerType
        /\ caller'[t].at = "idle" /\ caller'[t].result = r
        /\ \A u \in Callers \ {t} : caller'[u] = caller[u]
    <2>1. r \in Results
      BY DEF Results
    <2> QED BY <1>1, <1>4, <2>1, FinishOne
  <1>6. /\ up[c] = <<>> /\ conn[c].at \in {"read", "closed"}
        /\ down'[c] = <<>>
        /\ \A d \in Conns \ {c} : down'[d] = down[d]
        /\ down' \in [Conns -> Seq(Frame)]
    <2>1. CASE down[c] # <<>>
      <3>1. down' = [down EXCEPT ![c] = Tail(@)]
        BY <2>1 DEF ReadResponse
      <3>2. Tail(down[c]) = <<>>
        BY <2>1, <1>1, Single DEF OneOnWire
      <3> QED BY <2>1, <3>1, <3>2, <1>1 DEF OneOnWire, PoolType
    <2>2. CASE down[c] = <<>>
      BY <2>2, <1>1 DEF ReadResponse, ConnClosed, OneOnWire, PoolType
    <2> QED BY <2>1, <2>2
  <1>7. PoolType'
    BY <1>1, <1>2, <1>5, <1>6 DEF PoolType, CallerType
  <1>8. HeldWhileReading'
    <2> SUFFICES ASSUME NEW u \in Callers, caller'[u].at = "read"
                 PROVE  locked'[ConnOf[u]] = u
      BY DEF HeldWhileReading
    <2>1. u # t /\ locked[ConnOf[u]] = u
      BY <1>5 DEF HeldWhileReading
    <2> QED BY <2>1, <1>1, <1>2 DEF PoolType
  <1>9. AnswersOwnRequest'
    BY <1>5 DEF AnswersOwnRequest
  <1>10. OneOnWire'
    BY <1>2, <1>6 DEF OneOnWire
  <1>11. OneInPool'
    BY <1>2 DEF OneInPool, Unanswered, QueuedOnce, WorkedOnce
  <1>12. \A d \in Conns : (conn[d].at = "await" \/ d # c) => locked'[d] = locked[d]
    BY <1>1, <1>2, <1>6 DEF PoolType
  <1>13. OwnedByHolder'
    <2>1. ASSUME NEW d \in Conns
          PROVE  /\ up'[d] # <<>> => locked'[d] # Nobody /\ up'[d][1].from \in {locked'[d], "damaged"}
                 /\ down'[d] # <<>> => locked'[d] # Nobody /\ down'[d][1].from \in {locked'[d], "damaged"}
                 /\ Busy(d)' => locked'[d] # Nobody /\ conn'[d].job.from = locked'[d]
                 /\ oneshot'[d] # NoJob => oneshot'[d].from \in {locked'[d], "damaged"}
      <3>1. CASE d = c
        BY <3>1, <1>1, <1>2, <1>6 DEF Busy, OneInPool, Unanswered
      <3>2. CASE d # c
        BY <3>2, <1>2, <1>6, <1>12 DEF OwnedByHolder, Busy
      <3> QED BY <3>1, <3>2
    <2>2. \A w \in PoolWorkers : pool'[w].at = "busy" => pool'[w].job.from = locked'[pool'[w].conn]
      BY <1>2, <1>12, SMTT(30) DEF OwnedByHolder, OneInPool, WorkedOnce
    <2> QED BY <2>1, <2>2 DEF OwnedByHolder
  <1> QED BY <1>7, <1>8, <1>9, <1>10, <1>11, <1>13

\* ReadFrame keeps the invariant.
LEMMA ReadFrameInv ==
  ASSUME NEW c \in Conns, PoolInv, ReadFrame(c)
  PROVE  PoolInv'
  <1> USE PoolAssumption DEF PoolInv
  <1> DEFINE f == up[c][1]
  <1>1. /\ up[c] \in Seq(Frame) /\ Len(up[c]) = 1 /\ down[c] = <<>> /\ conn[c].at = "read"
        /\ locked[c] # Nobody /\ f.from \in {locked[c], "damaged"}
    BY DEF PoolType, ReadFrame, OneOnWire, OwnedByHolder
  <1>2. f \in Frame /\ Head(up[c]) = f /\ Tail(up[c]) = <<>>
    BY <1>1, Single
  <1>3. /\ up' = [up EXCEPT ![c] = <<>>]
        /\ conn' = [conn EXCEPT ![c] = IF Intact(f) THEN [at |-> "submit", job |-> f]
                                       ELSE [at |-> "closed", job |-> NoJob]]
        /\ UNCHANGED <<caller, locked, down, oneshot, queue, pool>>
    BY <1>2 DEF ReadFrame
  <1> HIDE DEF f
  <1>4. /\ up' \in [Conns -> Seq(Frame)] /\ up'[c] = <<>>
        /\ \A d \in Conns \ {c} : up'[d] = up[d] /\ conn'[d] = conn[d]
    BY <1>3, SMTT(30) DEF PoolType
  <1>5. /\ conn' \in ConnType /\ conn'[c].at \in {"submit", "closed"}
        /\ conn'[c].at = "submit" => conn'[c].job = f /\ f.from = locked[c]
    BY <1>1, <1>2, <1>3 DEF PoolType, ConnType, Intact
  <1>6. PoolType'
    BY <1>3, <1>4, <1>5 DEF PoolType, ConnType
  <1>7. HeldWhileReading' /\ AnswersOwnRequest'
    BY <1>3 DEF HeldWhileReading, AnswersOwnRequest
  <1>8. OneOnWire'
    BY <1>1, <1>3, <1>4, SMTT(30) DEF OneOnWire
  <1>9. \A d \in Conns : conn[d].at = "await" <=> conn'[d].at = "await"
    BY <1>1, <1>4, <1>5
  <1>10. OneInPool'
    <2>1. Unanswered'
      BY <1>3, <1>9 DEF OneInPool, Unanswered
    <2>2. QueuedOnce'
      BY <1>3, <1>9, QueueElems DEF OneInPool, QueuedOnce
    <2>3. WorkedOnce'
      BY <1>3, <1>9 DEF OneInPool, WorkedOnce
    <2> QED BY <2>1, <2>2, <2>3 DEF OneInPool
  <1>11. OwnedByHolder'
    BY <1>1, <1>3, <1>4, <1>5, SMTT(30) DEF OwnedByHolder, Busy
  <1> QED BY <1>6, <1>7, <1>8, <1>10, <1>11

\* Submit keeps the invariant.
LEMMA SubmitInv ==
  ASSUME NEW c \in Conns, PoolInv, Submit(c)
  PROVE  PoolInv'
  <1> USE PoolAssumption DEF PoolInv
  <1>1. /\ conn[c].at = "submit" /\ oneshot[c] = NoJob
        /\ up[c] = <<>> /\ down[c] = <<>>
    BY DEF Submit, OneInPool, Unanswered, OneOnWire, PoolType
  <1>2. /\ conn' \in ConnType
        /\ conn'[c].at = "await" /\ conn'[c].job = conn[c].job
        /\ \A d \in Conns \ {c} : conn'[d] = conn[d]
    BY DEF Submit, PoolType, ConnType
  <1>3. oneshot' = oneshot /\ UNCHANGED <<caller, locked, up, down, pool>>
    BY <1>1 DEF Submit, PoolType
  <1>4. /\ Len(queue) \in Nat /\ queue' \in Seq(Conns) /\ Len(queue') = Len(queue) + 1
        /\ \A i \in 1..Len(queue) : queue'[i] = queue[i]
        /\ queue'[Len(queue) + 1] = c
    BY SMTT(30) DEF Submit, PoolType
  <1>5. /\ \A i \in 1..Len(queue) : queue[i] # c
        /\ \A w \in PoolWorkers : pool[w].at = "busy" => pool[w].conn # c
    BY <1>1 DEF OneInPool, Unanswered, QueuedOnce, WorkedOnce
  <1>6. PoolType'
    BY <1>2, <1>3, <1>4 DEF PoolType, ConnType
  <1>7. HeldWhileReading' /\ AnswersOwnRequest'
    BY <1>3 DEF HeldWhileReading, AnswersOwnRequest
  <1>8. OneOnWire'
    BY <1>1, <1>2, <1>3 DEF OneOnWire
  <1>9. OneInPool'
    <2>1. Unanswered'
      BY <1>2, <1>3 DEF OneInPool, Unanswered
    <2>2. QueuedOnce'
      <3> SUFFICES ASSUME NEW i \in 1..Len(queue')
                   PROVE  /\ conn'[queue'[i]].at = "await" /\ oneshot'[queue'[i]] = NoJob
                          /\ \A j \in 1..Len(queue') : queue'[i] = queue'[j] => i = j
        BY DEF QueuedOnce
      <3>1. CASE i = Len(queue) + 1
        <4>1. queue'[i] = c
          BY <3>1, <1>4
        <4>2. \A j \in 1..Len(queue') : queue'[j] = c => j = i
          BY <3>1, <1>4, <1>5, SMTT(30)
        <4> QED BY <4>1, <4>2, <1>1, <1>2, <1>3
      <3>2. CASE i \in 1..Len(queue)
        <4>1. queue[i] \in Conns \ {c} /\ queue'[i] = queue[i]
          BY <3>2, <1>4, <1>5, QueueElems
        <4>2. \A j \in 1..Len(queue') : queue'[i] = queue'[j] => i = j
          BY <3>2, <4>1, <1>4, SMTT(30) DEF OneInPool, QueuedOnce
        <4> QED BY <4>1, <4>2, <3>2, <1>2, <1>3, SMTT(30) DEF OneInPool, QueuedOnce
      <3> QED BY <3>1, <3>2, <1>4, SMTT(30)
    <2>3. WorkedOnce'
      <3> SUFFICES ASSUME NEW w \in PoolWorkers, pool'[w].at = "busy"
                   PROVE  /\ pool'[w].conn \in Conns
                          /\ conn'[pool'[w].conn].at = "await" /\ oneshot'[pool'[w].conn] = NoJob
                          /\ \A i \in 1..Len(queue') : queue'[i] # pool'[w].conn
                          /\ \A v \in PoolWorkers :
                                pool'[v].at = "busy" /\ pool'[v].conn = pool'[w].conn => v = w
        BY DEF WorkedOnce
      <3>1. pool[w].at = "busy" /\ pool'[w].conn = pool[w].conn /\ pool[w].conn \in Conns \ {c}
        BY <1>3, <1>5 DEF OneInPool, WorkedOnce
      <3>2. \A i \in 1..Len(queue') : queue'[i] # pool'[w].conn
        BY <3>1, <1>4, SMTT(30) DEF OneInPool, WorkedOnce
      <3> QED BY <3>1, <3>2, <1>2, <1>3 DEF OneInPool, WorkedOnce
    <2> QED BY <2>1, <2>2, <2>3 DEF OneInPool
  <1>10. OwnedByHolder'
    BY <1>1, <1>2, <1>3, SMTT(30) DEF OwnedByHolder, Busy
  <1> QED BY <1>6, <1>7, <1>8, <1>9, <1>10

\* ReplyFrame keeps the invariant.
LEMMA ReplyFrameInv ==
  ASSUME NEW c \in Conns, PoolInv, ReplyFrame(c)
  PROVE  PoolInv'
  <1> USE PoolAssumption DEF PoolInv
  <1>1. /\ conn[c].at = "await" /\ up[c] = <<>> /\ down[c] = <<>>
        /\ locked[c] # Nobody
        /\ oneshot[c] \in Frame /\ oneshot[c].from \in {locked[c], "damaged"}
    BY SMTT(30) DEF ReplyFrame, OneOnWire, OwnedByHolder, Busy, PoolType
  <1>2. /\ conn' \in ConnType /\ conn'[c].at \in {"read", "closed"}
        /\ \A d \in Conns \ {c} : conn'[d] = conn[d]
    <2>1. CASE Intact(oneshot[c])
      <3>1. conn' = [conn EXCEPT ![c] = [at |-> "read", job |-> NoJob]]
        BY <2>1 DEF ReplyFrame
      <3> QED BY <3>1 DEF PoolType, ConnType
    <2>2. CASE ~Intact(oneshot[c])
      <3>1. conn' = [conn EXCEPT ![c] = [at |-> "closed", job |-> NoJob]]
        BY <2>2 DEF ReplyFrame
      <3> QED BY <3>1 DEF PoolType, ConnType
    <2> QED BY <2>1, <2>2
  <1>3. /\ oneshot' \in [Conns -> Frame \cup {NoJob}] /\ oneshot'[c] = NoJob
        /\ \A d \in Conns \ {c} : oneshot'[d] = oneshot[d]
        /\ UNCHANGED <<caller, locked, up, queue, pool>>
    BY DEF ReplyFrame, PoolType
  <1>4. /\ down' \in [Conns -> Seq(Frame)]
        /\ \A d \in Conns \ {c} : down'[d] = down[d]
        /\ \/ down'[c] = <<>>
           \/ down'[c] = <<oneshot[c]>> /\ conn'[c].at = "read"
    <2>1. CASE Intact(oneshot[c])
      <3>1. down' = [down EXCEPT ![c] = <<oneshot[c]>>] /\ conn'[c].at = "read"
        BY <2>1, <1>1, SMTT(30) DEF ReplyFrame, PoolType
      <3> QED BY <3>1, <1>1, SMTT(30) DEF PoolType
    <2>2. CASE ~Intact(oneshot[c])
      BY <2>2, <1>1 DEF ReplyFrame, PoolType
    <2> QED BY <2>1, <2>2
  <1>5. /\ \A i \in 1..Len(queue) : queue[i] # c
        /\ \A w \in PoolWorkers : pool[w].at = "busy" => pool[w].conn # c
    BY DEF ReplyFrame, OneInPool, QueuedOnce, WorkedOnce
  <1>6. PoolType'
    BY <1>2, <1>3, <1>4 DEF PoolType, ConnType
  <1>7. HeldWhileReading' /\ AnswersOwnRequest'
    BY <1>3 DEF HeldWhileReading, AnswersOwnRequest
  <1>8. OneOnWire'
    <2> SUFFICES ASSUME NEW d \in Conns
                 PROVE  /\ up'[d] # <<>> => Len(up'[d]) = 1 /\ down'[d] = <<>> /\ conn'[d].at = "read"
                        /\ down'[d] # <<>> => Len(down'[d]) = 1 /\ up'[d] = <<>> /\ conn'[d].at = "read"
      BY DEF OneOnWire
    <2>1. CASE d = c
      BY <2>1, <1>1, <1>3, <1>4
    <2>2. CASE d # c
      BY <2>2, <1>2, <1>3, <1>4 DEF OneOnWire
    <2> QED BY <2>1, <2>2
  <1>9. OneInPool'
    <2>1. Unanswered'
      BY <1>2, <1>3 DEF OneInPool, Unanswered
    <2>2. QueuedOnce'
      <3>1. \A i \in 1..Len(queue) : queue[i] \in Conns \ {c}
        BY <1>5, QueueElems
      <3> QED BY <3>1, <1>2, <1>3, SMTT(30) DEF OneInPool, QueuedOnce
    <2>3. WorkedOnce'
      BY <1>2, <1>3, <1>5, SMTT(30) DEF OneInPool, WorkedOnce
    <2> QED BY <2>1, <2>2, <2>3 DEF OneInPool
  <1>10. OwnedByHolder'
    <2>1. ASSUME NEW d \in Conns
          PROVE  /\ up'[d] # <<>> => locked'[d] # Nobody /\ up'[d][1].from \in {locked'[d], "damaged"}
                 /\ down'[d] # <<>> => locked'[d] # Nobody /\ down'[d][1].from \in {locked'[d], "damaged"}
                 /\ Busy(d)' => locked'[d] # Nobody /\ conn'[d].job.from = locked'[d]
                 /\ oneshot'[d] # NoJob => oneshot'[d].from \in {locked'[d], "damaged"}
      <3>1. CASE d = c
        BY <3>1, <1>1, <1>2, <1>3, <1>4, SMTT(30) DEF Busy
      <3>2. CASE d # c
        <4>1. /\ up'[d] = up[d] /\ down'[d] = down[d] /\ conn'[d] = conn[d]
              /\ oneshot'[d] = oneshot[d] /\ locked'[d] = locked[d]
          BY <3>2, <1>2, <1>3, <1>4
        <4> QED BY <4>1 DEF OwnedByHolder, Busy
      <3> QED BY <3>1, <3>2
    <2>2. \A w \in PoolWorkers : pool'[w].at = "busy" => pool'[w].job.from = locked'[pool'[w].conn]
      BY <1>3 DEF OwnedByHolder
    <2> QED BY <2>1, <2>2 DEF OwnedByHolder
  <1> QED BY <1>6, <1>7, <1>8, <1>9, <1>10

\* A fault of the network keeps the invariant.
LEMMA NetworkFaultInv ==
  ASSUME NEW c \in Conns, PoolInv, NetworkFault(c)
  PROVE  PoolInv'
  <1> USE PoolAssumption DEF PoolInv
  <1> DEFINE damaged == [from |-> "damaged"]
  <1>1. /\ conn[c].at = "read" /\ oneshot[c] = NoJob
        /\ UNCHANGED <<caller, locked, oneshot, queue, pool>>
        /\ up[c] \in Seq(Frame) /\ down[c] \in Seq(Frame) /\ damaged \in Frame
    BY DEF NetworkFault, OneInPool, Unanswered, PoolType, Frame
  <1>2. /\ up' \in [Conns -> Seq(Frame)] /\ down' \in [Conns -> Seq(Frame)] /\ conn' \in ConnType
        /\ \A d \in Conns \ {c} : up'[d] = up[d] /\ down'[d] = down[d] /\ conn'[d] = conn[d]
        /\ conn'[c].at \in {"read", "closed"}
        /\ \/ up'[c] = <<>> /\ down'[c] = <<>>
           \/ /\ conn'[c].at = "read" /\ up[c] # <<>> /\ down'[c] = down[c]
              /\ up'[c] # <<>> /\ Len(up'[c]) = 1 /\ up'[c][1] = damaged
           \/ /\ conn'[c].at = "read" /\ down[c] # <<>> /\ up'[c] = up[c]
              /\ down'[c] # <<>> /\ Len(down'[c]) = 1 /\ down'[c][1] = damaged
    <2>1. CASE /\ conn' = [conn EXCEPT ![c].at = "closed"]
               /\ up' = [up EXCEPT ![c] = <<>>] /\ down' = [down EXCEPT ![c] = <<>>]
      <3>1. conn' \in ConnType /\ conn'[c].at = "closed" /\ \A d \in Conns \ {c} : conn'[d] = conn[d]
        BY <2>1 DEF PoolType, ConnType
      <3>2. /\ up' \in [Conns -> Seq(Frame)] /\ up'[c] = <<>>
            /\ down' \in [Conns -> Seq(Frame)] /\ down'[c] = <<>>
            /\ \A d \in Conns \ {c} : up'[d] = up[d] /\ down'[d] = down[d]
        BY <2>1, SMTT(30) DEF PoolType
      <3> QED BY <3>1, <3>2
    <2>2. CASE up[c] # <<>> /\ up' = [up EXCEPT ![c][1] = damaged] /\ UNCHANGED <<down, conn>>
      <3> DEFINE s == [up[c] EXCEPT ![1] = damaged]
      <3>1. Len(up[c]) = 1
        BY <2>2 DEF OneOnWire
      <3>2. s \in Seq(Frame) /\ Len(s) = 1 /\ s[1] = damaged /\ s # <<>>
        BY <3>1, <1>1, Damaged, SMTT(30)
      <3>3. up' = [up EXCEPT ![c] = s]
        BY <2>2
      <3> HIDE DEF s
      <3>4. up' \in [Conns -> Seq(Frame)] /\ up'[c] = s /\ \A d \in Conns \ {c} : up'[d] = up[d]
        BY <3>2, <3>3 DEF PoolType
      <3> QED BY <3>2, <3>4, <2>2, <1>1 DEF PoolType, ConnType
    <2>3. CASE down[c] # <<>> /\ down' = [down EXCEPT ![c][1] = damaged] /\ UNCHANGED <<up, conn>>
      <3> DEFINE s == [down[c] EXCEPT ![1] = damaged]
      <3>1. Len(down[c]) = 1
        BY <2>3 DEF OneOnWire
      <3>2. s \in Seq(Frame) /\ Len(s) = 1 /\ s[1] = damaged /\ s # <<>>
        BY <3>1, <1>1, Damaged, SMTT(30)
      <3>3. down' = [down EXCEPT ![c] = s]
        BY <2>3
      <3> HIDE DEF s
      <3>4. down' \in [Conns -> Seq(Frame)] /\ down'[c] = s /\ \A d \in Conns \ {c} : down'[d] = down[d]
        BY <3>2, <3>3 DEF PoolType
      <3> QED BY <3>2, <3>4, <2>3, <1>1 DEF PoolType, ConnType
    <2> QED BY <2>1, <2>2, <2>3 DEF NetworkFault
  <1>3. PoolType'
    BY <1>1, <1>2 DEF PoolType, ConnType
  <1>4. HeldWhileReading' /\ AnswersOwnRequest'
    BY <1>1 DEF HeldWhileReading, AnswersOwnRequest
  <1>5. OneOnWire'
    <2> SUFFICES ASSUME NEW d \in Conns
                 PROVE  /\ up'[d] # <<>> => Len(up'[d]) = 1 /\ down'[d] = <<>> /\ conn'[d].at = "read"
                        /\ down'[d] # <<>> => Len(down'[d]) = 1 /\ up'[d] = <<>> /\ conn'[d].at = "read"
      BY DEF OneOnWire
    <2>1. CASE d = c
      BY <2>1, <1>2 DEF OneOnWire
    <2>2. CASE d # c
      BY <2>2, <1>2 DEF OneOnWire
    <2> QED BY <2>1, <2>2
  <1>6. \A d \in Conns : conn[d].at = "await" <=> conn'[d].at = "await"
    BY <1>1, <1>2
  <1>7. OneInPool'
    <2>1. Unanswered'
      BY <1>1, <1>6 DEF OneInPool, Unanswered
    <2>2. QueuedOnce'
      BY <1>1, <1>6, QueueElems DEF OneInPool, QueuedOnce
    <2>3. WorkedOnce'
      BY <1>1, <1>6 DEF OneInPool, WorkedOnce
    <2> QED BY <2>1, <2>2, <2>3 DEF OneInPool
  <1>8. OwnedByHolder'
    <2>1. ASSUME NEW d \in Conns
          PROVE  /\ up'[d] # <<>> => locked'[d] # Nobody /\ up'[d][1].from \in {locked'[d], "damaged"}
                 /\ down'[d] # <<>> => locked'[d] # Nobody /\ down'[d][1].from \in {locked'[d], "damaged"}
                 /\ Busy(d)' => locked'[d] # Nobody /\ conn'[d].job.from = locked'[d]
                 /\ oneshot'[d] # NoJob => oneshot'[d].from \in {locked'[d], "damaged"}
      <3>1. CASE d = c
        BY <3>1, <1>1, <1>2, SMTT(30) DEF OwnedByHolder, Busy
      <3>2. CASE d # c
        <4>1. /\ up'[d] = up[d] /\ down'[d] = down[d] /\ conn'[d] = conn[d]
              /\ oneshot'[d] = oneshot[d] /\ locked'[d] = locked[d]
          BY <3>2, <1>1, <1>2
        <4> QED BY <4>1 DEF OwnedByHolder, Busy
      <3> QED BY <3>1, <3>2
    <2>2. \A w \in PoolWorkers : pool'[w].at = "busy" => pool'[w].job.from = locked'[pool'[w].conn]
      BY <1>1 DEF OwnedByHolder
    <2> QED BY <2>1, <2>2 DEF OwnedByHolder
  <1> QED BY <1>3, <1>4, <1>5, <1>7, <1>8

\* TakeJob keeps the invariant.
LEMMA TakeJobInv ==
  ASSUME NEW w \in PoolWorkers, PoolInv, TakeJob(w)
  PROVE  PoolInv'
  <1> USE PoolAssumption DEF PoolInv
  <1> DEFINE c == queue[1]
  <1>1. /\ queue \in Seq(Conns) /\ queue # <<>> /\ Len(queue) \in Nat \ {0}
        /\ c \in Conns /\ c = Head(queue)
    BY SMTT(30) DEF TakeJob, PoolType
  <1>2. /\ conn[c].at = "await" /\ oneshot[c] = NoJob
        /\ \A j \in 1..Len(queue) : queue[j] = c => j = 1
        /\ \A v \in PoolWorkers : pool[v].at = "busy" => pool[v].conn # c
        /\ conn[c].job.from = locked[c] /\ conn[c].job \in Frame \cup {NoJob}
    BY <1>1, SMTT(30) DEF OneInPool, QueuedOnce, WorkedOnce, OwnedByHolder, Busy, PoolType
  <1>3. UNCHANGED <<caller, locked, up, down, conn, oneshot>>
    BY DEF TakeJob
  <1>4. /\ queue' \in Seq(Conns) /\ Len(queue') = Len(queue) - 1
        /\ \A i \in 1..Len(queue') : i + 1 \in 1..Len(queue) /\ queue'[i] = queue[i + 1]
    BY <1>1, HeadTailProperties, SMTT(30) DEF TakeJob
  <1>5. pool' = [pool EXCEPT ![w] = [at |-> "busy", conn |-> c, job |-> conn[c].job]]
    BY <1>1 DEF TakeJob
  <1> HIDE DEF c
  <1>6. /\ pool'[w] = [at |-> "busy", conn |-> c, job |-> conn[c].job]
        /\ \A v \in PoolWorkers \ {w} : pool'[v] = pool[v]
    BY <1>5 DEF PoolType
  <1>7. PoolType'
    BY <1>1, <1>2, <1>3, <1>4, <1>5 DEF PoolType
  <1>8. HeldWhileReading' /\ AnswersOwnRequest' /\ OneOnWire'
    BY <1>3 DEF HeldWhileReading, AnswersOwnRequest, OneOnWire
  <1>9. ASSUME NEW i \in 1..Len(queue')
        PROVE  queue'[i] # c
    <2>1. i + 1 \in 1..Len(queue) /\ queue'[i] = queue[i + 1] /\ i + 1 # 1
      BY <1>4, SMTT(30)
    <2> QED BY <2>1, <1>2
  <1>10. OneInPool'
    <2>1. Unanswered'
      BY <1>3 DEF OneInPool, Unanswered
    <2>2. QueuedOnce'
      <3> SUFFICES ASSUME NEW i \in 1..Len(queue')
                   PROVE  /\ conn'[queue'[i]].at = "await" /\ oneshot'[queue'[i]] = NoJob
                          /\ \A j \in 1..Len(queue') : queue'[i] = queue'[j] => i = j
        BY DEF QueuedOnce
      <3>1. i + 1 \in 1..Len(queue) /\ queue'[i] = queue[i + 1]
        BY <1>4
      <3>2. ASSUME NEW j \in 1..Len(queue'), queue'[i] = queue'[j]
            PROVE  i = j
        <4>1. j + 1 \in 1..Len(queue) /\ queue'[j] = queue[j + 1]
          BY <1>4
        <4>2. i + 1 = j + 1
          BY <3>1, <3>2, <4>1 DEF OneInPool, QueuedOnce
        <4> QED BY <4>2, SMTT(30)
      <3> QED BY <3>1, <3>2, <1>3 DEF OneInPool, QueuedOnce
    <2>3. WorkedOnce'
      <3> SUFFICES ASSUME NEW u \in PoolWorkers, pool'[u].at = "busy"
                   PROVE  /\ pool'[u].conn \in Conns
                          /\ conn'[pool'[u].conn].at = "await" /\ oneshot'[pool'[u].conn] = NoJob
                          /\ \A i \in 1..Len(queue') : queue'[i] # pool'[u].conn
                          /\ \A v \in PoolWorkers :
                                pool'[v].at = "busy" /\ pool'[v].conn = pool'[u].conn => v = u
        BY DEF WorkedOnce
      <3>1. CASE u = w
        BY <3>1, <1>1, <1>2, <1>3, <1>6, <1>9, SMTT(30)
      <3>2. CASE u # w
        <4>1. pool'[u] = pool[u] /\ pool[u].conn # c
          BY <3>2, <1>2, <1>6
        <4>2. \A i \in 1..Len(queue') : queue'[i] # pool'[u].conn
          BY <4>1, <1>4, SMTT(30) DEF OneInPool, WorkedOnce
        <4> QED BY <4>1, <4>2, <1>3, <1>6, SMTT(30) DEF OneInPool, WorkedOnce
      <3> QED BY <3>1, <3>2
    <2> QED BY <2>1, <2>2, <2>3 DEF OneInPool
  <1>11. OwnedByHolder'
    BY <1>2, <1>3, <1>6, SMTT(30) DEF OwnedByHolder, Busy
  <1> QED BY <1>7, <1>8, <1>10, <1>11

\* A worker that answers, or that panics, puts a frame of the holder or a
\* damaged one in the reply channel, and is no longer busy.
LEMMA LeaveInv ==
  ASSUME NEW w \in PoolWorkers, PoolInv, pool[w].at = "busy",
         NEW at \in {"idle", "gone"}, Leave(w, at),
         NEW f \in {pool[w].job, [from |-> "damaged"]},
         oneshot' = [oneshot EXCEPT ![pool[w].conn] = f],
         UNCHANGED <<caller, locked, up, down, conn, queue>>
  PROVE  PoolInv'
  <1> USE PoolAssumption DEF PoolInv
  <1> DEFINE c == pool[w].conn
  <1>1. /\ c \in Conns /\ conn[c].at = "await"
        /\ f \in Frame \cup {NoJob} /\ f.from \in {locked[c], "damaged"}
        /\ \A i \in 1..Len(queue) : queue[i] # c
        /\ \A v \in PoolWorkers : pool[v].at = "busy" /\ pool[v].conn = c => v = w
    BY SMTT(30) DEF OneInPool, WorkedOnce, OwnedByHolder, PoolType, Frame
  <1>2. /\ oneshot' \in [Conns -> Frame \cup {NoJob}] /\ oneshot'[c] = f
        /\ \A d \in Conns \ {c} : oneshot'[d] = oneshot[d]
    BY <1>1 DEF PoolType
  <1>3. /\ pool'[w].at # "busy"
        /\ \A v \in PoolWorkers \ {w} : pool'[v] = pool[v]
    BY DEF Leave, PoolType
  <1> HIDE DEF c
  <1>4. pool' \in [PoolWorkers -> [at : {"idle", "busy", "gone"}, conn : Conns \cup {Nobody},
                                   job : Frame \cup {NoJob}]]
    BY DEF Leave, PoolType
  <1>5. PoolType'
    BY <1>2, <1>4 DEF PoolType
  <1>6. HeldWhileReading' /\ AnswersOwnRequest' /\ OneOnWire'
    BY DEF HeldWhileReading, AnswersOwnRequest, OneOnWire
  <1>7. OneInPool'
    <2>1. Unanswered'
      BY <1>1, <1>2 DEF OneInPool, Unanswered
    <2>2. QueuedOnce'
      BY <1>1, <1>2, QueueElems, SMTT(30) DEF OneInPool, QueuedOnce
    <2>3. WorkedOnce'
      BY <1>1, <1>2, <1>3, SMTT(30) DEF OneInPool, WorkedOnce
    <2> QED BY <2>1, <2>2, <2>3 DEF OneInPool
  <1>8. OwnedByHolder'
    BY <1>1, <1>2, <1>3, SMTT(30) DEF OwnedByHolder, Busy
  <1> QED BY <1>5, <1>6, <1>7, <1>8

\* Every step keeps the invariant.
LEMMA PoolStep == PoolInv /\ [PoolNext]_poolVars => PoolInv'
  <1> SUFFICES ASSUME PoolInv, [PoolNext]_poolVars
               PROVE  PoolInv'
    OBVIOUS
  <1>1. ASSUME NEW t \in Callers, WriteRequest(t) \/ ReadResponse(t)
        PROVE  PoolInv'
    BY <1>1, WriteRequestInv, ReadResponseInv
  <1>2. ASSUME NEW c \in Conns, ConnStep(c) \/ NetworkFault(c)
        PROVE  PoolInv'
    BY <1>2, ReadFrameInv, SubmitInv, ReplyFrameInv, NetworkFaultInv DEF ConnStep
  <1>3. ASSUME NEW w \in PoolWorkers, WorkerStep(w) \/ PanicDispatch(w)
        PROVE  PoolInv'
    <2>1. CASE TakeJob(w)
      BY <2>1, TakeJobInv
    <2>2. CASE AnswerJob(w)
      BY <2>2, LeaveInv DEF AnswerJob
    <2>3. CASE PanicDispatch(w)
      BY <2>3, LeaveInv DEF PanicDispatch
    <2> QED BY <1>3, <2>1, <2>2, <2>3 DEF WorkerStep
  <1>4. CASE UNCHANGED poolVars
    BY <1>4, SMTT(30) DEF poolVars, PoolInv, PoolType, HeldWhileReading, OneOnWire, OneInPool, Unanswered,
       QueuedOnce, WorkedOnce, OwnedByHolder, AnswersOwnRequest, Busy
  <1> QED BY <1>1, <1>2, <1>3, <1>4 DEF PoolNext

\* Every call of a client returns the answer to its own request or an error,
\* for any number of threads, clients and workers, whatever order they run in
\* and whichever connections drop and workers panic.
THEOREM AnswersOwnRequestAlways == PoolSpec => []AnswersOwnRequest
  <1>1. PoolInv => AnswersOwnRequest
    BY DEF PoolInv
  <1> QED BY <1>1, PoolInitInv, PoolStep, PTL DEF PoolSpec

-----------------------------------------------------------------------------
Touching == {"bucket", "sum", "count", "load", "cas"}
RecorderRecord == [at : {"idle", "create"} \cup Touching, us : Nat, hist : Nat, cur : Nat]
HistogramRecord == [buckets : [0 .. HistBuckets -> Nat], sum : Nat, count : Nat, max : Nat]

\* A tag has one histogram, and who records found that one.
HistType ==
    /\ rec \in [Recorders -> RecorderRecord]
    /\ (registry = 0 /\ hists = <<>>) \/ (registry = 1 /\ hists \in [1 .. 1 -> HistogramRecord])
    /\ \A r \in Recorders : rec[r].at \in Touching => registry = 1 /\ rec[r].hist = 1
    /\ recorded \in Seq(Nat) /\ resetAt \in {"idle", "rest"} /\ tornReset \in BOOLEAN

\* Those who have counted their sample and have not returned.
Counted == {r \in Recorders : rec[r].at \in {"load", "cas"}}

\* Up to the first reset that overlaps a record: the count is that of the samples
\* recorded and of those under way, and no maximum anyone has read is above max.
TotalsSoFar ==
    /\ registry = 0 => recorded = <<>> /\ resetAt = "idle"
    /\ resetAt = "rest" => recorded = <<>> /\ \A r \in Recorders : rec[r].at = "idle"
    /\ registry = 1 =>
        /\ \A i \in DOMAIN recorded : recorded[i] <= hists[1].max
        /\ \A r \in Recorders : rec[r].at = "cas" => rec[r].cur <= hists[1].max
        /\ resetAt = "idle" =>
            /\ hists[1].count = Len(recorded) + Cardinality(Counted)
            /\ hists[1].max = 0 \/ \E i \in DOMAIN recorded : recorded[i] = hists[1].max
HistInv == HistType /\ (~tornReset => TotalsSoFar)

\* A step that sets one recorder.
LEMMA RecorderSet ==
  ASSUME rec \in [Recorders -> RecorderRecord], NEW r \in Recorders, NEW c \in RecorderRecord,
         rec' = [rec EXCEPT ![r] = c]
  PROVE  /\ rec' \in [Recorders -> RecorderRecord] /\ rec'[r] = c
         /\ \A q \in Recorders : q # r => rec'[q] = rec[q]
  OBVIOUS

\* A step that sets the histogram.
LEMMA HistogramSet ==
  ASSUME hists \in [1 .. 1 -> HistogramRecord], NEW g \in HistogramRecord, hists' = [hists EXCEPT ![1] = g]
  PROVE  hists' \in [1 .. 1 -> HistogramRecord] /\ hists'[1] = g
<1>1. 1 \in 1 .. 1
  BY SMTT(30)
<1> QED  BY <1>1

\* A step of a recorder that leaves count, max and the samples as they are.
LEMMA RecorderMoves ==
  ASSUME HistInv, NEW r \in Recorders, NEW c \in RecorderRecord, rec' = [rec EXCEPT ![r] = c],
         UNCHANGED <<registry, recorded, resetAt>>,
         tornReset' \in BOOLEAN, tornReset => tornReset', tornReset' \/ resetAt = "idle",
         c.at \in {"load", "cas"} <=> rec[r].at \in {"load", "cas"},
         c.at \in Touching => registry = 1 /\ c.hist = 1,
         ~tornReset /\ c.at = "cas" => c.cur <= hists[1].max,
         \/ hists' = hists
         \/ /\ registry = 1
            /\ \E g \in HistogramRecord :
                hists' = [hists EXCEPT ![1] = g] /\ g.count = hists[1].count /\ g.max = hists[1].max
  PROVE  HistInv'
<1>1. /\ rec' \in [Recorders -> RecorderRecord] /\ rec'[r] = c
      /\ \A q \in Recorders : q # r => rec'[q] = rec[q]
  BY RecorderSet DEF HistInv, HistType
<1>2. /\ (registry = 0 /\ hists' = <<>>) \/ (registry = 1 /\ hists' \in [1 .. 1 -> HistogramRecord])
      /\ registry = 1 => hists'[1].count = hists[1].count /\ hists'[1].max = hists[1].max
  <2>1. CASE hists' = hists
    BY <2>1 DEF HistInv, HistType
  <2>2. CASE hists' # hists
    <3>1. registry = 1
      BY <2>2
    <3>2. PICK g \in HistogramRecord :
            hists' = [hists EXCEPT ![1] = g] /\ g.count = hists[1].count /\ g.max = hists[1].max
      BY <2>2
    <3>3. 0 # 1
      BY SMTT(30)
    <3>4. hists \in [1 .. 1 -> HistogramRecord]
      BY <3>1, <3>3 DEF HistInv, HistType
    <3> QED  BY <3>1, <3>2, <3>4, HistogramSet
  <2> QED  BY <2>1, <2>2
<1>3. HistType'
  BY <1>1, <1>2 DEF HistInv, HistType
<1>4. Counted' = Counted
  BY <1>1 DEF Counted
<1>5. ASSUME ~tornReset' PROVE TotalsSoFar'
  <2>1. ~tornReset /\ TotalsSoFar /\ resetAt = "idle"
    BY <1>5 DEF HistInv
  <2>2. "idle" # "rest"
    OBVIOUS
  <2> QED  BY <1>1, <1>2, <1>4, <2>1, <2>2 DEF TotalsSoFar
<1> QED  BY <1>3, <1>5 DEF HistInv

\* record_global finds the tag, or that it has to be created.
LEMMA FindKeeps ==
  ASSUME HistogramAssumption, HistInv, NEW r \in Recorders, NEW us \in Samples, FindTag(r, us)
  PROVE  HistInv'
<1> DEFINE c == IF registry # 0 THEN [AtRest EXCEPT !.at = "bucket", !.us = us, !.hist = registry]
                                ELSE [AtRest EXCEPT !.at = "create", !.us = us]
<1>1. registry \in {0, 1} /\ 0 \in Nat /\ 1 \in Nat /\ us \in Nat
  BY SMTT(30) DEF HistInv, HistType, HistogramAssumption
<1>2. /\ c \in RecorderRecord /\ c.at \in {"bucket", "create"}
      /\ c.at = "bucket" => registry = 1 /\ c.hist = 1
  BY <1>1 DEF RecorderRecord, AtRest, Touching
<1>3. rec' = [rec EXCEPT ![r] = c] /\ rec[r].at = "idle"
  BY DEF FindTag, RestingRecorder
<1> HIDE DEF c
<1>4. UNCHANGED <<registry, hists, recorded, resetAt>> /\ tornReset' = (tornReset \/ resetAt # "idle")
  BY DEF FindTag
<1>5. c.at \notin {"load", "cas"} /\ (c.at \in Touching => c.at = "bucket") /\ c.at # "cas"
  BY <1>2 DEF Touching
<1> QED  BY <1>2, <1>3, <1>4, <1>5, RecorderMoves DEF HistInv, HistType

\* record_global creates the tag, unless another thread has.
LEMMA CreateKeeps == ASSUME HistogramAssumption, HistInv, NEW r \in Recorders, CreateTag(r) PROVE HistInv'
<1> DEFINE old == rec[r]
           c == [old EXCEPT !.at = "bucket", !.hist = 1]
<1>1. old \in RecorderRecord /\ old.at = "create" /\ 1 \in Nat
  BY SMTT(30) DEF HistInv, HistType, CreateTag
<1>2. c \in RecorderRecord /\ c.at = "bucket" /\ c.hist = 1
  BY <1>1 DEF RecorderRecord, Touching
<1>3. UNCHANGED <<recorded, resetAt, tornReset>>
  BY DEF CreateTag
<1>4. ~tornReset => resetAt = "idle"
  BY <1>1 DEF HistInv, HistType, TotalsSoFar
<1>5. registry' = 1
  <2>1. CASE registry = 0
    <3>1. hists = <<>>
      BY <2>1, SMTT(30) DEF HistInv, HistType
    <3> QED  BY <2>1, <3>1, SMTT(30) DEF CreateTag
  <2>2. CASE registry # 0
    BY <2>2 DEF CreateTag, HistInv, HistType
  <2> QED  BY <2>1, <2>2
<1>6. rec' = [rec EXCEPT ![r] = c]
  BY <1>5 DEF CreateTag
<1> HIDE DEF c
<1>7. c.at \notin {"load", "cas"} /\ c.at # "cas" /\ old.at \notin {"load", "cas"}
  BY <1>1, <1>2
<1>8. CASE registry # 0
  <2>1. registry = 1 /\ UNCHANGED <<registry, hists>>
    BY <1>8 DEF CreateTag, HistInv, HistType
  <2> QED  BY <1>2, <1>3, <1>4, <1>6, <1>7, <2>1, RecorderMoves DEF HistInv, HistType
<1>9. CASE registry = 0
  <2>1. hists = <<>> /\ \A q \in Recorders : rec[q].at \notin Touching
    BY <1>9, SMTT(30) DEF HistInv, HistType
  <2>2. /\ rec' \in [Recorders -> RecorderRecord] /\ rec'[r] = c
        /\ \A q \in Recorders : q # r => rec'[q] = rec[q]
    BY <1>2, <1>6, RecorderSet DEF HistInv, HistType
  <2>3. NewHistogram \in HistogramRecord /\ NewHistogram.count = 0 /\ NewHistogram.max = 0
    BY SMTT(30) DEF NewHistogram, HistogramRecord
  <2>4. hists' = Append(<<>>, NewHistogram)
    BY <1>9, <2>1 DEF CreateTag
  <2> HIDE DEF NewHistogram
  <2>5. hists' \in [1 .. 1 -> HistogramRecord] /\ hists'[1] = NewHistogram
    BY <2>3, <2>4, SMTT(30)
  <2>6. HistType'
    BY <1>2, <1>3, <1>5, <2>1, <2>2, <2>5 DEF HistInv, HistType
  <2>7. Counted' = {}
    BY <1>7, <2>1, <2>2 DEF Counted, Touching
  <2>8. ASSUME ~tornReset' PROVE TotalsSoFar'
    <3>1. recorded = <<>> /\ resetAt = "idle" /\ resetAt # "rest"
      BY <1>3, <1>9, <2>8 DEF HistInv, TotalsSoFar
    <3>2. DOMAIN recorded = {} /\ 0 = Len(recorded) + 0 /\ 1 # 0
      BY <3>1, SMTT(30)
    <3>3. Cardinality(Counted') = 0
      BY <2>7, FS_EmptySet
    <3>4. \A q \in Recorders : rec'[q].at # "cas"
      BY <1>7, <2>1, <2>2 DEF Touching
    <3>5. Counted' = {} /\ hists'[1].count = 0 /\ hists'[1].max = 0
      BY <2>3, <2>5, <2>7
    <3> QED  BY <1>3, <1>5, <3>1, <3>2, <3>3, <3>4, <3>5 DEF TotalsSoFar
  <2> QED  BY <2>6, <2>8 DEF HistInv
<1> QED  BY <1>8, <1>9

\* What a recorder that has found its histogram knows.
LEMMA Recorder ==
  ASSUME HistInv, NEW r \in Recorders, rec[r].at \in Touching
  PROVE  /\ rec[r] \in RecorderRecord /\ rec[r].hist = 1 /\ registry = 1 /\ hists \in [1 .. 1 -> HistogramRecord]
         /\ hists[1] \in HistogramRecord
         /\ ~tornReset => resetAt = "idle"
<1>1. rec[r] \in RecorderRecord /\ rec[r].hist = 1 /\ registry = 1
  BY DEF HistInv, HistType
<1>2. 0 # 1 /\ 1 \in 1 .. 1
  BY SMTT(30)
<1>3. hists \in [1 .. 1 -> HistogramRecord]
  BY <1>1, <1>2 DEF HistInv, HistType
<1>4. "idle" \notin Touching
  BY DEF Touching
<1>5. ~tornReset => resetAt = "idle"
  BY <1>4 DEF HistInv, HistType, TotalsSoFar
<1> QED  BY <1>1, <1>2, <1>3, <1>5

\* record_us: bucket and sum.
LEMMA BucketKeeps == ASSUME HistInv, NEW r \in Recorders, BumpBucket(r) \/ BumpSum(r) PROVE HistInv'
<1> DEFINE old == rec[r]
<1>1. old.at \in Touching /\ old.at \notin {"load", "cas"}
  BY DEF BumpBucket, BumpSum, Touching
<1>2. /\ old \in RecorderRecord /\ old.hist = 1 /\ registry = 1 /\ hists \in [1 .. 1 -> HistogramRecord]
      /\ hists[1] \in HistogramRecord
      /\ ~tornReset => resetAt = "idle"
  BY <1>1, Recorder
<1>3. ASSUME NEW g \in HistogramRecord, g.count = hists[1].count, g.max = hists[1].max, NEW a \in {"sum", "count"},
             hists' = [hists EXCEPT ![1] = g], rec' = [rec EXCEPT ![r].at = a],
             UNCHANGED <<registry, recorded, resetAt, tornReset>>
      PROVE  HistInv'
  <2> DEFINE c == [old EXCEPT !.at = a]
  <2>1. c \in RecorderRecord /\ c.at = a /\ c.hist = 1
    BY <1>2, <1>3 DEF RecorderRecord, Touching
  <2>2. rec' = [rec EXCEPT ![r] = c]
    BY <1>3
  <2> HIDE DEF c
  <2>3. c.at \notin {"load", "cas"} /\ c.at # "cas"
    BY <1>3, <2>1
  <2>4. tornReset' \in BOOLEAN /\ (tornReset' \/ resetAt = "idle")
    BY <1>2, <1>3 DEF HistInv, HistType
  <2> QED  BY <1>1, <1>2, <1>3, <2>1, <2>2, <2>3, <2>4, RecorderMoves
<1>4. CASE BumpBucket(r)
  <2> DEFINE f == hists[1].buckets
             g == [hists[1] EXCEPT !.buckets[BucketFor(old.us)] = @ + 1]
  <2>1. f \in [0 .. HistBuckets -> Nat] /\ \A n \in Nat : n + 1 \in Nat
    BY <1>2, SMTT(30) DEF HistogramRecord
  <2>2. [f EXCEPT ![BucketFor(old.us)] = @ + 1] \in [0 .. HistBuckets -> Nat]
    BY <2>1
  <2>3. g = [hists[1] EXCEPT !.buckets = [f EXCEPT ![BucketFor(old.us)] = @ + 1]]
    BY <1>2 DEF HistogramRecord
  <2>4. g \in HistogramRecord /\ g.count = hists[1].count /\ g.max = hists[1].max
    BY <1>2, <2>2, <2>3 DEF HistogramRecord
  <2>5. /\ hists' = [hists EXCEPT ![1] = g] /\ rec' = [rec EXCEPT ![r].at = "sum"]
        /\ UNCHANGED <<registry, recorded, resetAt, tornReset>>
    BY <1>2, <1>4 DEF BumpBucket, Bump
  <2> HIDE DEF g
  <2> QED  BY <1>3, <2>4, <2>5
<1>5. CASE BumpSum(r)
  <2> DEFINE g == [hists[1] EXCEPT !.sum = @ + old.us]
  <2>1. hists[1].sum + old.us \in Nat
    BY <1>2, SMTT(30) DEF HistogramRecord, RecorderRecord
  <2>2. g \in HistogramRecord /\ g.count = hists[1].count /\ g.max = hists[1].max
    BY <1>2, <2>1 DEF HistogramRecord
  <2>3. /\ hists' = [hists EXCEPT ![1] = g] /\ rec' = [rec EXCEPT ![r].at = "count"]
        /\ UNCHANGED <<registry, recorded, resetAt, tornReset>>
    BY <1>2, <1>5 DEF BumpSum, Bump
  <2> HIDE DEF g
  <2> QED  BY <1>3, <2>2, <2>3
<1> QED  BY <1>4, <1>5

\* record_us: the count.
LEMMA CountKeeps == ASSUME IsFiniteSet(Recorders), HistInv, NEW r \in Recorders, BumpCount(r) PROVE HistInv'
<1> DEFINE old == rec[r]
           c == [old EXCEPT !.at = "load"]
           g == [hists[1] EXCEPT !.count = @ + 1]
<1>1. old.at \in Touching /\ old.at = "count"
  BY DEF BumpCount, Touching
<1>2. /\ old \in RecorderRecord /\ old.hist = 1 /\ registry = 1 /\ hists \in [1 .. 1 -> HistogramRecord]
      /\ hists[1] \in HistogramRecord
      /\ ~tornReset => resetAt = "idle"
  BY <1>1, Recorder
<1>3. c \in RecorderRecord /\ c.at = "load" /\ c.hist = 1
  BY <1>2 DEF RecorderRecord, Touching
<1>4. g \in HistogramRecord /\ g.count = hists[1].count + 1 /\ g.max = hists[1].max
  <2>1. hists[1].count + 1 \in Nat
    BY <1>2, SMTT(30) DEF HistogramRecord
  <2> QED  BY <1>2, <2>1 DEF HistogramRecord
<1>5. /\ rec' = [rec EXCEPT ![r] = c] /\ hists' = [hists EXCEPT ![1] = g]
      /\ UNCHANGED <<registry, recorded, resetAt, tornReset>>
  BY <1>2 DEF BumpCount, Bump
<1> HIDE DEF c, g
<1>6. /\ rec' \in [Recorders -> RecorderRecord] /\ rec'[r] = c
      /\ \A q \in Recorders : q # r => rec'[q] = rec[q]
  BY <1>3, <1>5, RecorderSet DEF HistInv, HistType
<1>7. hists' \in [1 .. 1 -> HistogramRecord] /\ hists'[1] = g
  BY <1>2, <1>4, <1>5, HistogramSet
<1>8. HistType'
  BY <1>2, <1>3, <1>5, <1>6, <1>7 DEF HistInv, HistType
<1>9. Counted' = Counted \cup {r} /\ r \notin Counted
  BY <1>1, <1>3, <1>6 DEF Counted
<1>10. Cardinality(Counted') = Cardinality(Counted) + 1 /\ Cardinality(Counted) \in Nat
  <2>1. IsFiniteSet(Counted)
    BY FS_Subset DEF Counted
  <2> HIDE DEF Counted
  <2> QED  BY <1>9, <2>1, FS_AddElement, FS_CardinalityType
<1>11. ASSUME ~tornReset' PROVE TotalsSoFar'
  <2>1. TotalsSoFar /\ resetAt = "idle" /\ resetAt # "rest" /\ registry # 0
    BY <1>2, <1>5, <1>11, SMTT(30) DEF HistInv
  <2>2. hists[1].count + 1 = Len(recorded) + Cardinality(Counted')
    <3>1. hists[1].count = Len(recorded) + Cardinality(Counted)
      BY <1>2, <2>1 DEF TotalsSoFar
    <3>2. Len(recorded) \in Nat
      BY LenProperties DEF HistInv, HistType
    <3> QED  BY <1>10, <3>1, <3>2, SMTT(30)
  <2>3. c.at # "cas"
    BY <1>3
  <2> QED  BY <1>2, <1>4, <1>5, <1>6, <1>7, <2>1, <2>2, <2>3 DEF TotalsSoFar
<1> QED  BY <1>8, <1>11 DEF HistInv

\* record_us: the maximum is read.
LEMMA LoadKeeps == ASSUME HistInv, NEW r \in Recorders, NEW c, rec' = [rec EXCEPT ![r] = c],
         rec[r].at \in {"load", "cas"}, c = [rec[r] EXCEPT !.at = "cas", !.cur = hists[1].max],
         UNCHANGED <<registry, hists, recorded, resetAt, tornReset>>
  PROVE HistInv'
<1> DEFINE old == rec[r]
<1>1. old.at \in Touching
  BY DEF Touching
<1>2. /\ old \in RecorderRecord /\ old.hist = 1 /\ registry = 1 /\ hists[1] \in HistogramRecord
      /\ ~tornReset => resetAt = "idle"
  BY <1>1, Recorder
<1>3. hists[1].max \in Nat /\ hists[1].max <= hists[1].max
  BY <1>2, SMTT(30) DEF HistogramRecord
<1>4. c \in RecorderRecord /\ c.at = "cas" /\ c.hist = 1 /\ c.cur = hists[1].max
  BY <1>2, <1>3 DEF RecorderRecord, Touching
<1>5. tornReset' \in BOOLEAN /\ (tornReset' \/ resetAt = "idle")
  BY <1>2 DEF HistInv, HistType
<1>6. c.at \in {"load", "cas"} /\ c.cur <= hists[1].max
  BY <1>3, <1>4
<1> QED  BY <1>2, <1>4, <1>5, <1>6, RecorderMoves

\* record_us returns: max is the larger of what it was and the sample.
LEMMA ReturnKeeps ==
  ASSUME IsFiniteSet(Recorders), HistInv, NEW r \in Recorders, rec[r].at = "cas", ReturnRecord(r),
         \/ hists' = hists /\ (~tornReset => rec[r].us <= hists[1].max)
         \/ hists' = [hists EXCEPT ![1].max = rec[r].us] /\ (~tornReset => hists[1].max < rec[r].us)
  PROVE  HistInv'
<1> DEFINE old == rec[r]
           us == old.us
           top == hists'[1].max
<1>1. old.at \in Touching
  BY DEF Touching
<1>2. /\ old \in RecorderRecord /\ registry = 1 /\ hists \in [1 .. 1 -> HistogramRecord]
      /\ hists[1] \in HistogramRecord
      /\ ~tornReset => resetAt = "idle"
  BY <1>1, Recorder
<1>3. us \in Nat /\ hists[1].max \in Nat /\ AtRest \in RecorderRecord /\ AtRest.at = "idle"
  BY <1>2, SMTT(30) DEF RecorderRecord, HistogramRecord, AtRest
<1>4. /\ rec' = [rec EXCEPT ![r] = AtRest] /\ recorded' = Append(recorded, us)
      /\ UNCHANGED <<registry, resetAt, tornReset>>
  BY DEF ReturnRecord
<1> HIDE DEF AtRest
<1>5. /\ rec' \in [Recorders -> RecorderRecord] /\ rec'[r] = AtRest
      /\ \A q \in Recorders : q # r => rec'[q] = rec[q]
  BY <1>3, <1>4, RecorderSet DEF HistInv, HistType
<1>6. /\ hists' \in [1 .. 1 -> HistogramRecord] /\ hists'[1].count = hists[1].count
      /\ \/ hists'[1].max = hists[1].max /\ (~tornReset => us <= hists[1].max)
         \/ hists'[1].max = us /\ (~tornReset => hists[1].max < us)
  <2>1. CASE hists' = hists /\ (~tornReset => us <= hists[1].max)
    <3>1. hists'[1] = hists[1] /\ hists' \in [1 .. 1 -> HistogramRecord]
      BY <1>2, <2>1
    <3> QED  BY <2>1, <3>1
  <2>2. CASE hists' = [hists EXCEPT ![1].max = us] /\ (~tornReset => hists[1].max < us)
    <3> DEFINE g == [hists[1] EXCEPT !.max = us]
    <3>1. g \in HistogramRecord /\ g.count = hists[1].count /\ g.max = us
      BY <1>2, <1>3 DEF HistogramRecord
    <3>2. hists' = [hists EXCEPT ![1] = g]
      BY <2>2
    <3> HIDE DEF g
    <3>3. hists' \in [1 .. 1 -> HistogramRecord] /\ hists'[1] = g
      BY <1>2, <3>1, <3>2, HistogramSet
    <3> QED  BY <2>2, <3>1, <3>3
  <2> QED  BY <2>1, <2>2
<1>7. recorded \in Seq(Nat)
  BY DEF HistInv, HistType
<1>8. /\ recorded' \in Seq(Nat) /\ Len(recorded') = Len(recorded) + 1 /\ Len(recorded) \in Nat
      /\ DOMAIN recorded' = DOMAIN recorded \cup {Len(recorded) + 1} /\ recorded'[Len(recorded) + 1] = us
      /\ \A i \in DOMAIN recorded : recorded'[i] = recorded[i] /\ recorded[i] \in Nat
  BY <1>3, <1>4, <1>7, SMTT(30)
<1>9. HistType'
  <2>1. "idle" \notin Touching
    BY DEF Touching
  <2> QED  BY <1>2, <1>3, <1>4, <1>5, <1>6, <1>8, <2>1 DEF HistInv, HistType
<1>10. Counted' = Counted \ {r} /\ r \in Counted
  BY <1>3, <1>5 DEF Counted
<1>11. Cardinality(Counted') = Cardinality(Counted) - 1 /\ Cardinality(Counted) \in Nat
  <2>1. IsFiniteSet(Counted)
    BY FS_Subset DEF Counted
  <2> HIDE DEF Counted
  <2> QED  BY <1>10, <2>1, FS_RemoveElement, FS_CardinalityType
<1>12. ASSUME ~tornReset' PROVE TotalsSoFar'
  <2>1. TotalsSoFar /\ resetAt = "idle" /\ resetAt # "rest" /\ registry # 0 /\ ~tornReset
    BY <1>2, <1>4, <1>12, SMTT(30) DEF HistInv
  <2>2. hists'[1].count = Len(recorded') + Cardinality(Counted')
    <3>1. hists[1].count = Len(recorded) + Cardinality(Counted)
      BY <1>2, <2>1 DEF TotalsSoFar
    <3> QED  BY <1>6, <1>8, <1>11, <3>1, SMTT(30)
  <2>3. top \in Nat /\ us <= top /\ \A n \in Nat : n <= hists[1].max => n <= top
    BY <1>3, <1>6, <2>1, SMTT(30)
  <2>4. \A i \in DOMAIN recorded' : recorded'[i] <= top
    <3>1. \A i \in DOMAIN recorded : recorded[i] <= hists[1].max
      BY <1>2, <2>1 DEF TotalsSoFar
    <3> QED  BY <1>8, <2>3, <3>1
  <2>5. \A q \in Recorders : rec'[q].at = "cas" => rec'[q].cur <= top
    <3>1. \A q \in Recorders : rec[q].at = "cas" => rec[q].cur <= hists[1].max
      BY <1>2, <2>1 DEF TotalsSoFar
    <3>2. \A q \in Recorders : rec[q].cur \in Nat
      BY DEF HistInv, HistType, RecorderRecord
    <3>3. AtRest.at # "cas"
      BY <1>3
    <3> QED  BY <1>5, <2>3, <3>1, <3>2, <3>3
  <2>6. top = 0 \/ \E i \in DOMAIN recorded' : recorded'[i] = top
    <3>1. CASE top = us
      BY <1>8, <3>1
    <3>2. CASE top = hists[1].max
      <4>1. hists[1].max = 0 \/ \E i \in DOMAIN recorded : recorded[i] = hists[1].max
        BY <1>2, <2>1 DEF TotalsSoFar
      <4> QED  BY <1>8, <3>2, <4>1
    <3> QED  BY <1>6, <3>1, <3>2
  <2> QED  BY <1>2, <1>4, <2>1, <2>2, <2>4, <2>5, <2>6 DEF TotalsSoFar
<1> QED  BY <1>9, <1>12 DEF HistInv

\* The compare-exchange loop.
LEMMA RaiseKeeps == ASSUME IsFiniteSet(Recorders), HistInv, NEW r \in Recorders, RaiseMax(r) PROVE HistInv'
<1> DEFINE old == rec[r]
           max == hists[1].max
<1>1. old.at \in Touching /\ old.at = "cas"
  BY DEF RaiseMax, Touching
<1>2. old \in RecorderRecord /\ old.hist = 1 /\ registry = 1 /\ hists[1] \in HistogramRecord
  BY <1>1, Recorder
<1>3. old.us \in Nat /\ old.cur \in Nat /\ max \in Nat
  BY <1>2 DEF RecorderRecord, HistogramRecord
<1>4. ~tornReset => old.cur <= max
  BY <1>1, <1>2 DEF HistInv, TotalsSoFar
<1>5. CASE old.us <= old.cur /\ hists' = hists /\ ReturnRecord(r)
  <2>1. ~tornReset => old.us <= max
    BY <1>3, <1>4, <1>5, SMTT(30)
  <2> QED  BY <1>1, <1>5, <2>1, ReturnKeeps
<1>6. CASE old.us > old.cur /\ max = old.cur /\ hists' = [hists EXCEPT ![1].max = old.us] /\ ReturnRecord(r)
  <2>1. max < old.us
    BY <1>3, <1>6, SMTT(30)
  <2> QED  BY <1>1, <1>6, <2>1, ReturnKeeps
<1>7. CASE rec' = [rec EXCEPT ![r].cur = max] /\ UNCHANGED <<registry, hists, recorded, resetAt, tornReset>>
  <2> DEFINE c == [old EXCEPT !.at = "cas", !.cur = max]
  <2>1. c = [old EXCEPT !.cur = max]
    BY <1>1, <1>2 DEF RecorderRecord
  <2>2. rec' = [rec EXCEPT ![r] = [old EXCEPT !.cur = max]]
    BY <1>7
  <2>3. rec' = [rec EXCEPT ![r] = c] /\ old.at \in {"load", "cas"}
    BY <1>1, <2>1, <2>2
  <2> QED  BY <1>7, <2>3, LoadKeeps
<1> QED  BY <1>2, <1>5, <1>6, <1>7 DEF RaiseMax

\* reset_all: either half.
LEMMA ResetKeeps == ASSUME HistogramAssumption, HistInv, ResetBuckets \/ ResetRest PROVE HistInv'
<1>1. \/ registry = 1 /\ hists \in [1 .. 1 -> HistogramRecord] /\ hists[1] \in HistogramRecord
      \/ registry = 0 /\ hists = <<>>
  <2>1. 1 \in 1 .. 1
    BY SMTT(30)
  <2>2. (registry = 0 /\ hists = <<>>) \/ (registry = 1 /\ hists \in [1 .. 1 -> HistogramRecord])
    BY DEF HistInv, HistType
  <2> QED  BY <2>1, <2>2
<1>2. [b \in 0 .. HistBuckets |-> 0] \in [0 .. HistBuckets -> Nat]
  BY SMTT(30)
<1>3. CASE ResetBuckets
  <2> DEFINE g == [hists[1] EXCEPT !.buckets = NewHistogram.buckets]
  <2>1. registry = 1 /\ hists \in [1 .. 1 -> HistogramRecord] /\ hists[1] \in HistogramRecord
    BY <1>1, <1>3 DEF ResetBuckets
  <2>2. NewHistogram.buckets \in [0 .. HistBuckets -> Nat]
    BY <1>2 DEF NewHistogram
  <2>3. g \in HistogramRecord
    BY <2>1, <2>2 DEF HistogramRecord
  <2>4. hists' = [hists EXCEPT ![1] = g] /\ resetAt' = "rest" /\ recorded' = <<>> /\ UNCHANGED <<registry, rec>>
        /\ tornReset' = (tornReset \/ Recording)
    BY <1>3, <2>1 DEF ResetBuckets, ResetStep
  <2> HIDE DEF g
  <2>5. hists' \in [1 .. 1 -> HistogramRecord]
    BY <2>1, <2>3, <2>4, HistogramSet
  <2>6. recorded' \in Seq(Nat) /\ DOMAIN recorded' = {} /\ 1 # 0
    BY <2>4, SMTT(30)
  <2>7. HistType'
    BY <2>1, <2>4, <2>5, <2>6 DEF HistInv, HistType, Recording
  <2>8. ASSUME ~tornReset' PROVE TotalsSoFar'
    <3>1. \A r \in Recorders : rec'[r].at = "idle"
      BY <2>4, <2>8 DEF Recording, RestingRecorder
    <3> QED  BY <2>1, <2>4, <2>6, <3>1 DEF TotalsSoFar
  <2> QED  BY <2>7, <2>8 DEF HistInv
<1>4. CASE ResetRest
  <2> DEFINE g == [NewHistogram EXCEPT !.buckets = hists[registry].buckets]
  <2>1. /\ UNCHANGED <<registry, rec, recorded, tornReset>>
        /\ resetAt = "rest" /\ resetAt' = "idle" /\ hists' = [hists EXCEPT ![registry] = g]
    BY <1>4 DEF ResetRest, ResetStep
  <2>2. CASE registry = 1 /\ hists \in [1 .. 1 -> HistogramRecord] /\ hists[1] \in HistogramRecord
    <3>1. g \in HistogramRecord /\ g.count = 0 /\ g.max = 0
      BY <2>2, SMTT(30) DEF HistogramRecord, NewHistogram
    <3> HIDE DEF g
    <3>2. hists' \in [1 .. 1 -> HistogramRecord] /\ hists'[1] = g
      BY <2>1, <2>2, <3>1, HistogramSet
    <3>3. HistType'
      BY <2>1, <2>2, <3>2 DEF HistInv, HistType
    <3>4. ASSUME ~tornReset' PROVE TotalsSoFar'
      <4>1. recorded = <<>> /\ \A r \in Recorders : rec[r].at = "idle"
        BY <2>1, <3>4 DEF HistInv, TotalsSoFar
      <4>2. Counted' = {}
        BY <2>1, <4>1 DEF Counted
      <4>3. DOMAIN recorded = {} /\ 0 = Len(recorded) + 0 /\ 1 # 0
        BY <4>1, SMTT(30)
      <4>4. Cardinality(Counted') = 0
        BY <4>2, FS_EmptySet
      <4> QED  BY <2>1, <2>2, <3>1, <3>2, <4>1, <4>3, <4>4 DEF TotalsSoFar
    <3> QED  BY <3>3, <3>4 DEF HistInv
  <2>3. CASE registry = 0 /\ hists = <<>>
    <3>1. hists' = <<>> /\ tornReset
      <4>1. hists' = <<>>
        BY <2>1, <2>3, SMTT(30)
      <4>2. tornReset
        BY <2>1, <2>3 DEF HistInv, HistType, TotalsSoFar
      <4> QED  BY <4>1, <4>2
    <3> QED  BY <2>1, <2>3, <3>1 DEF HistInv, HistType
  <2> QED  BY <1>1, <2>2, <2>3
<1> QED  BY <1>3, <1>4

\* A snapshot, or no step.
LEMMA SnapKeeps == ASSUME HistInv, UNCHANGED <<registry, hists, rec, resetAt, recorded, tornReset>> PROVE HistInv'
<1>1. Counted' = Counted
  BY DEF Counted
<1> QED  BY <1>1 DEF HistInv, HistType, TotalsSoFar

\* When nobody records, all that was counted has returned.
LEMMA HistInvAgrees == ASSUME HistInv PROVE CountAndMaxAgree
<1> SUFFICES ASSUME Quiet, ~tornReset
             PROVE  /\ hists[registry].count = Len(recorded)
                    /\ \A i \in DOMAIN recorded : recorded[i] <= hists[registry].max
                    /\ hists[registry].max = 0 \/ \E i \in DOMAIN recorded : recorded[i] = hists[registry].max
  BY DEF CountAndMaxAgree
<1>1. registry = 1 /\ resetAt = "idle" /\ TotalsSoFar
  BY DEF Quiet, HistInv, HistType
<1>2. Counted = {}
  BY DEF Quiet, Recording, RestingRecorder, Counted
<1>3. Cardinality(Counted) = 0
  BY <1>2, FS_EmptySet
<1>4. Len(recorded) + 0 = Len(recorded)
  BY SMTT(30) DEF HistInv, HistType
<1> QED  BY <1>1, <1>3, <1>4 DEF TotalsSoFar

\* However many threads race to create the tag and to raise the maximum, count
\* and max are those of the samples once all have returned, as long as no reset
\* overlapped a record (record_global, record_us, reset).
THEOREM CountAndMaxHold ==
  ASSUME IsFiniteSet(Recorders)
  PROVE  HistogramInit /\ [][HistogramNext]_histVars => []CountAndMaxAgree
<1>1. HistogramInit => HistInv
  <2> SUFFICES ASSUME HistogramInit PROVE HistInv
    OBVIOUS
  <2>1. AtRest \in RecorderRecord /\ AtRest.at = "idle"
    BY SMTT(30) DEF AtRest, RecorderRecord
  <2> HIDE DEF AtRest
  <2>2. rec \in [Recorders -> RecorderRecord] /\ \A r \in Recorders : rec[r].at = "idle"
    BY <2>1 DEF HistogramInit
  <2>3. recorded \in Seq(Nat) /\ 0 # 1
    BY SMTT(30) DEF HistogramInit
  <2>4. "idle" \notin Touching /\ "idle" # "rest"
    BY DEF Touching
  <2> QED  BY <2>2, <2>3, <2>4 DEF HistogramInit, HistInv, HistType, TotalsSoFar
<1>2. HistInv /\ [HistogramNext]_histVars => HistInv'
  <2> SUFFICES ASSUME HistInv, [HistogramNext]_histVars PROVE HistInv'
    OBVIOUS
  <2>1. ASSUME NEW r \in Recorders,
               \/ \E us \in Samples : FindTag(r, us)
               \/ CreateTag(r) \/ BumpBucket(r) \/ BumpSum(r) \/ BumpCount(r) \/ RaiseMax(r)
        PROVE  HistInv'
    BY <2>1, HistogramAssumption, FindKeeps, CreateKeeps, BucketKeeps, CountKeeps, RaiseKeeps
  <2>2. ASSUME NEW r \in Recorders, LoadMax(r) PROVE HistInv'
    <3> DEFINE c == [rec[r] EXCEPT !.at = "cas", !.cur = hists[1].max]
    <3>1. rec[r].at \in {"load", "cas"} /\ rec[r].at \in Touching
      BY <2>2 DEF LoadMax, Touching
    <3>2. rec[r].hist = 1
      BY <3>1, Recorder
    <3>3. rec' = [rec EXCEPT ![r] = c] /\ UNCHANGED <<registry, hists, recorded, resetAt, tornReset>>
      BY <2>2, <3>2 DEF LoadMax
    <3> QED  BY <3>1, <3>3, LoadKeeps
  <2>3. CASE SnapBuckets \/ SnapCount \/ SnapMax
    BY <2>3, SnapKeeps DEF SnapBuckets, SnapCount, SnapMax, Snapshot
  <2>4. CASE ResetBuckets \/ ResetRest
    BY <2>4, HistogramAssumption, ResetKeeps
  <2>5. CASE UNCHANGED histVars
    BY <2>5, SnapKeeps DEF histVars
  <2> QED  BY <2>1, <2>2, <2>3, <2>4, <2>5 DEF HistogramNext
<1>3. HistInv => CountAndMaxAgree
  BY HistInvAgrees
<1> QED  BY <1>1, <1>2, <1>3, PTL
=============================================================================
