---------------------------- MODULE DispatchPool ----------------------------
(***************************************************************************)
(* The TCP side of the daemon: threads that share client objects, one      *)
(* connection task each, and the pool of dispatch workers behind one       *)
(* bounded queue. Frames travel whole here; HttpConnection looks inside.   *)
(***************************************************************************)
EXTENDS Naturals, Sequences, FiniteSets

CONSTANTS
    Callers,        \* threads that call a client
    Conns,          \* client objects, each with its connection
    ConnOf,         \* the client a thread calls
    PoolWorkers,    \* dispatch worker threads
    QueueDepth,     \* capacity of the queue (workers times four, eight at least)
    MaxRequests,    \* bound: calls of a thread
    MaxPanics,      \* bound: dispatches that panic
    MaxDrops        \* bound: connections the network drops, frames it damages

ASSUME PoolAssumption ==
    /\ ConnOf \in [Callers -> Conns]
    /\ Callers \cap {"nobody", "damaged"} = {}
    /\ {QueueDepth, MaxRequests, MaxPanics, MaxDrops} \subseteq Nat

VARIABLES
    caller,     \* each thread in a client method
    locked,     \* TcpKvClient.stream: who holds the mutex
    up, down,   \* frames on the wire to and from the daemon
    conn,       \* each connection task
    oneshot,    \* the reply channel of the job a connection waits for
    queue,
    pool,       \* each dispatch worker
    panics, drops

poolVars == <<caller, locked, up, down, conn, oneshot, queue, pool, panics, drops>>

Nobody == "nobody"
Resting == [at |-> "idle", calls |-> 0, result |-> "none"]
NoJob == [from |-> Nobody]
Intact(f) == f.from # "damaged"

PoolInit ==
    /\ caller = [t \in Callers |-> Resting]
    /\ locked = [c \in Conns |-> Nobody]
    /\ up = [c \in Conns |-> <<>>] /\ down = [c \in Conns |-> <<>>]
    /\ conn = [c \in Conns |-> [at |-> "read", job |-> NoJob]]
    /\ oneshot = [c \in Conns |-> NoJob]
    /\ queue = <<>>
    /\ pool = [w \in PoolWorkers |-> [at |-> "idle", conn |-> Nobody, job |-> NoJob]]
    /\ panics = 0 /\ drops = 0

ConnClosed(c) == conn[c].at = "closed"
Finish(t, result) ==
    caller' = [caller EXCEPT ![t].at = "idle", ![t].calls = @ + 1, ![t].result = result]
Wait(t) ==
    caller' = [caller EXCEPT ![t] = [at |-> "read", calls |-> @.calls, result |-> "none"]]

\* Faulty variant: the mutex covers the write alone.
WriteRequestUnlocked(t) ==
    LET c == ConnOf[t] IN
    /\ caller[t].at = "idle" /\ caller[t].calls < MaxRequests
    /\ IF ConnClosed(c)
       THEN Finish(t, "io") /\ UNCHANGED up
       ELSE /\ up' = [up EXCEPT ![c] = Append(@, [from |-> t])]
            /\ Wait(t)
    /\ UNCHANGED <<locked, down, conn, oneshot, queue, pool, panics, drops>>

\* TcpKvClient::roundtrip: the mutex is held from the write of the request to
\* the end of the read of the response; the response's id is not looked at.
WriteRequest(t) ==
    LET c == ConnOf[t] IN
    /\ caller[t].at = "idle" /\ caller[t].calls < MaxRequests
    /\ locked[c] = Nobody
    /\ IF ConnClosed(c)
       THEN Finish(t, "io") /\ UNCHANGED <<locked, up>>
       ELSE /\ locked' = [locked EXCEPT ![c] = t]
            /\ up' = [up EXCEPT ![c] = Append(@, [from |-> t])]
            /\ Wait(t)
    /\ UNCHANGED <<down, conn, oneshot, queue, pool, panics, drops>>

ReadResponse(t) ==
    LET c == ConnOf[t] IN
    /\ caller[t].at = "read"
    /\ IF down[c] # <<>>
       THEN /\ Finish(t, IF Intact(Head(down[c])) THEN Head(down[c]).from ELSE "codec")
            /\ down' = [down EXCEPT ![c] = Tail(@)]
       ELSE /\ ConnClosed(c)
            /\ Finish(t, "io") /\ UNCHANGED down
    /\ locked' = [locked EXCEPT ![c] = IF @ = t THEN Nobody ELSE @]
    /\ UNCHANGED <<up, conn, oneshot, queue, pool, panics, drops>>

\* handle_compio_connection_bridge: header, length, body, checksum, decode; a
\* frame that fails any of them ends the connection without an answer.
ReadFrame(c) ==
    /\ conn[c].at = "read" /\ up[c] # <<>>
    /\ up' = [up EXCEPT ![c] = Tail(@)]
    /\ conn' = [conn EXCEPT ![c] = IF Intact(Head(up[c]))
                                   THEN [at |-> "submit", job |-> Head(up[c])]
                                   ELSE [at |-> "closed", job |-> NoJob]]
    /\ UNCHANGED <<caller, locked, down, oneshot, queue, pool, panics, drops>>

\* DispatchHandle::dispatch_async: wait for room in the queue, then for the
\* reply; a job that is dropped closes its reply channel.
Submit(c) ==
    /\ conn[c].at = "submit" /\ Len(queue) < QueueDepth
    /\ queue' = Append(queue, c)
    /\ oneshot' = [oneshot EXCEPT ![c] = NoJob]
    /\ conn' = [conn EXCEPT ![c].at = "await"]
    /\ UNCHANGED <<caller, locked, up, down, pool, panics, drops>>

\* Faulty variant: an Err of the reply channel is taken for no reply yet.
ReplyFrameNoError(c) ==
    /\ conn[c].at = "await" /\ oneshot[c] # NoJob /\ Intact(oneshot[c])
    /\ down' = [down EXCEPT ![c] = Append(@, oneshot[c])]
    /\ conn' = [conn EXCEPT ![c] = [at |-> "read", job |-> NoJob]]
    /\ oneshot' = [oneshot EXCEPT ![c] = NoJob]
    /\ UNCHANGED <<caller, locked, up, queue, pool, panics, drops>>

ReplyFrame(c) ==
    /\ conn[c].at = "await" /\ oneshot[c] # NoJob
    /\ IF Intact(oneshot[c])
       THEN /\ down' = [down EXCEPT ![c] = Append(@, oneshot[c])]
            /\ conn' = [conn EXCEPT ![c] = [at |-> "read", job |-> NoJob]]
       ELSE /\ conn' = [conn EXCEPT ![c] = [at |-> "closed", job |-> NoJob]]
            /\ UNCHANGED down
    /\ oneshot' = [oneshot EXCEPT ![c] = NoJob]
    /\ UNCHANGED <<caller, locked, up, queue, pool, panics, drops>>

\* spawn_dispatch_workers: each worker takes jobs off the one queue. A dispatch
\* that panics takes its thread with it, and drops the job.
TakeJob(w) ==
    /\ pool[w].at = "idle" /\ queue # <<>>
    /\ pool' = [pool EXCEPT ![w] = [at |-> "busy", conn |-> Head(queue),
                                    job |-> conn[Head(queue)].job]]
    /\ queue' = Tail(queue)
    /\ UNCHANGED <<caller, locked, up, down, conn, oneshot, panics, drops>>

Leave(w, at) == pool' = [pool EXCEPT ![w] = [at |-> at, conn |-> Nobody, job |-> NoJob]]

AnswerJob(w) ==
    /\ pool[w].at = "busy"
    /\ oneshot' = [oneshot EXCEPT ![pool[w].conn] = pool[w].job]
    /\ Leave(w, "idle")
    /\ UNCHANGED <<caller, locked, up, down, conn, queue, panics, drops>>

PanicDispatch(w) ==
    /\ pool[w].at = "busy" /\ panics < MaxPanics
    /\ panics' = panics + 1
    /\ oneshot' = [oneshot EXCEPT ![pool[w].conn] = [from |-> "damaged"]]
    /\ Leave(w, "gone")
    /\ UNCHANGED <<caller, locked, up, down, conn, queue, drops>>

\* The network breaks a connection, or a frame arrives damaged.
NetworkFault(c) ==
    /\ conn[c].at = "read" /\ drops < MaxDrops
    /\ drops' = drops + 1
    /\ \/ /\ conn' = [conn EXCEPT ![c].at = "closed"]
          /\ up' = [up EXCEPT ![c] = <<>>] /\ down' = [down EXCEPT ![c] = <<>>]
       \/ /\ up[c] # <<>> /\ up' = [up EXCEPT ![c][1] = [from |-> "damaged"]]
          /\ UNCHANGED <<down, conn>>
       \/ /\ down[c] # <<>> /\ down' = [down EXCEPT ![c][1] = [from |-> "damaged"]]
          /\ UNCHANGED <<up, conn>>
    /\ UNCHANGED <<caller, locked, oneshot, queue, pool, panics>>

ConnStep(c) == ReadFrame(c) \/ Submit(c) \/ ReplyFrame(c)
WorkerStep(w) == TakeJob(w) \/ AnswerJob(w)

PoolNext ==
    \/ \E t \in Callers : WriteRequest(t) \/ ReadResponse(t)
    \/ \E c \in Conns : ConnStep(c) \/ NetworkFault(c)
    \/ \E w \in PoolWorkers : WorkerStep(w) \/ PanicDispatch(w)

\* Threads and tasks run, and the queue serves those who wait for room in turn.
PoolFairness ==
    /\ \A t \in Callers : WF_poolVars(ReadResponse(t))
    /\ \A c \in Conns : SF_poolVars(ConnStep(c))
    /\ \A w \in PoolWorkers : WF_poolVars(WorkerStep(w))

PoolSpec == PoolInit /\ [][PoolNext]_poolVars /\ PoolFairness

-----------------------------------------------------------------------------
\* A call returns the answer to its own request or an error, whatever the
\* threads that share the client, the workers and the network do: nothing but
\* the order of frames ties an answer to its request.
AnswersOwnRequest ==
    \A t \in Callers : caller[t].result \in {"none", "io", "codec", t}

\* Every call comes back while one worker of the pool lives: with an answer, or
\* with an error when its connection or its worker is lost.
CallsReturn ==
    \A t \in Callers : (caller[t].at = "read") ~> (caller[t].at = "idle")
=============================================================================
