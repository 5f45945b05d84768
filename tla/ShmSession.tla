----------------------------- MODULE ShmSession -----------------------------
(***************************************************************************)
(* The life of a shared-memory connection: client handles that claim the   *)
(* prefix through a heartbeat file, create and attach rings by name, call  *)
(* the daemon over them and close; and the daemon's worker of the prefix,  *)
(* which attaches, serves, and reopens when the heartbeat tells it to.     *)
(* Ring segments are external (the myelon transport): a create puts a new  *)
(* ring under its name, an attach opens the ring the name has now, and an  *)
(* unlinked ring lives on for those who have it open.                      *)
(***************************************************************************)
EXTENDS Naturals, Sequences, FiniteSets

CONSTANTS
    Handles,        \* client handles, one connection each
    StaleAfter,     \* ticks after which a record is stale
    ConnectTicks,   \* bound: ticks that pass while a handle connects
    MaxShmCalls,       \* bound: calls of a handle
    MaxOpens,       \* bound: response rings the daemon creates
    MaxOpenRetries, \* WMBT_KV_DAEMON_MAX_OPEN_RETRIES
    MaxShmFaults    \* bound: crashes of a client or of the daemon, slow calls

ASSUME ShmAssumption ==
    {StaleAfter, ConnectTicks, MaxShmCalls, MaxOpens, MaxOpenRetries, MaxShmFaults} \subseteq Nat

VARIABLES
    names,      \* the segment names: which ring each leads to
    reqs,       \* the request ring each handle created
    resps,      \* the response rings the daemon created
    hb,         \* the heartbeat file
    client,     \* each handle: its worker thread and its heartbeat thread
    dead,       \* handles whose call timed out
    daemon,     \* the worker of the prefix in serve_prefix
    spent,      \* ticks each handle spent connecting
    shmFaults

shmVars == <<names, reqs, resps, hb, client, dead, daemon, spent, shmFaults>>

NoRing == 0
NoHandle == "nobody"
NoNames == [req |-> NoHandle, resp |-> NoRing]
NoRecord == [id |-> NoHandle, age |-> 0]

FreshClient == [at |-> "new", resp |-> NoRing, beats |-> FALSE, calls |-> 0, got |-> NoHandle]
DownDaemon == [at |-> "down", req |-> NoHandle, resp |-> NoRing, expect |-> NoHandle, retries |-> 0]

ShmInit ==
    /\ names = NoNames
    /\ reqs = [h \in Handles |-> [attached |-> FALSE, queue |-> <<>>]]
    /\ resps = <<>>
    /\ hb = NoRecord
    /\ client = [h \in Handles |-> FreshClient]
    /\ dead = {}
    /\ daemon = DownDaemon
    /\ spent = [h \in Handles |-> 0]
    /\ shmFaults = 0

Connecting(h) == client[h].at \in {"clear", "beat", "create", "attach", "discover"}
Connected(h) == client[h].at \in {"ready", "waiting"}
Alive(h) == client[h].at \notin {"new", "crashed"}
SetClient(h, at) == client' = [client EXCEPT ![h].at = at]

ShmFault == shmFaults < MaxShmFaults /\ shmFaults' = shmFaults + 1

\* Nothing is about to happen within milliseconds: no handle is between two
\* steps of its own, and the daemon waits for somebody else. The attach
\* timeouts of thirty seconds fire, and time passes, only then.
Quiet ==
    /\ \A h \in Handles : client[h].at \notin {"clear", "unlink", "beat", "create"}
    /\ daemon.at \notin {"create", "close"}
    /\ \A h \in Handles : client[h].at = "attach" => names.resp = NoRing
    /\ \A h \in Handles : client[h].at = "discover" => ~ reqs[h].attached
    /\ daemon.at = "open" => names.req = NoHandle
    /\ daemon.at = "discover" => ~ resps[daemon.resp].attached

\* record_is_stale, and the test of acquire on the record it reads.
RecordIsStale == hb.age > StaleAfter
RecordActive == hb # NoRecord /\ Alive(hb.id) /\ ~ RecordIsStale

\* cleanup_prefix_segments: both names go; who has a ring open keeps it.
CleanupPrefixSegments == names' = NoNames

\* ClientHeartbeat::remove, which Drop runs: only a record of one's own.
RemoveHeartbeat(h) == hb' = IF hb.id = h THEN NoRecord ELSE hb

\* ClientHeartbeat::acquire, as the file system sees it: read the record and
\* refuse, clear what a predecessor left, write the first beat.
AcquireRead(h) ==
    /\ client[h].at = "new"
    /\ client' = [client EXCEPT ![h].at =
                    IF RecordActive THEN "refused"
                    ELSE IF hb # NoRecord THEN "clear"
                    ELSE IF names # NoNames THEN "unlink" ELSE "beat"]
    /\ UNCHANGED <<names, reqs, resps, hb, dead, daemon, spent, shmFaults>>

\* Faulty variant: of a predecessor that left a record only the record goes.
AcquireClearRecord(h) ==
    /\ client[h].at \in {"clear", "unlink"}
    /\ IF client[h].at = "clear"
       THEN hb' = NoRecord /\ UNCHANGED names
       ELSE CleanupPrefixSegments /\ UNCHANGED hb
    /\ SetClient(h, "beat")
    /\ UNCHANGED <<reqs, resps, dead, daemon, spent, shmFaults>>

AcquireClear(h) ==
    /\ client[h].at \in {"clear", "unlink"}
    /\ CleanupPrefixSegments
    /\ hb' = IF client[h].at = "clear" THEN NoRecord ELSE hb
    /\ SetClient(h, "beat")
    /\ UNCHANGED <<reqs, resps, dead, daemon, spent, shmFaults>>

AcquireBeat(h) ==
    /\ client[h].at = "beat"
    /\ IF hb = NoRecord
       THEN hb' = [id |-> h, age |-> 0] /\ SetClient(h, "create")
       ELSE hb' = hb /\ SetClient(h, "failed")
    /\ UNCHANGED <<names, reqs, resps, dead, daemon, spent, shmFaults>>

\* open_client: create the request ring, then attach the response ring.
CreateReq(h) ==
    /\ client[h].at = "create"
    /\ names' = [names EXCEPT !.req = h]
    /\ SetClient(h, "attach")
    /\ UNCHANGED <<reqs, resps, hb, dead, daemon, spent, shmFaults>>

AttachResp(h) ==
    /\ client[h].at = "attach" /\ names.resp # NoRing
    /\ resps' = [resps EXCEPT ![names.resp].attached = TRUE]
    /\ client' = [client EXCEPT ![h].at = "discover", ![h].resp = names.resp]
    /\ UNCHANGED <<names, reqs, hb, dead, daemon, spent, shmFaults>>

\* worker_loop: the daemon must have attached to this handle's own request
\* ring; only then is the handle ready and does its heartbeat thread start.
DiscoverDaemon(h) ==
    /\ client[h].at = "discover" /\ reqs[h].attached
    /\ client' = [client EXCEPT ![h].at = "ready", ![h].beats = TRUE]
    /\ UNCHANGED <<names, reqs, resps, hb, dead, daemon, spent, shmFaults>>

\* The attach timeout, in either wait. Drop removes the record.
ConnectTimeout(h) ==
    /\ Quiet /\ client[h].at \in {"attach", "discover"}
    /\ SetClient(h, "failed")
    /\ RemoveHeartbeat(h)
    /\ UNCHANGED <<names, reqs, resps, dead, daemon, spent, shmFaults>>

\* Faulty variant: the file is truncated and written in place, so that a
\* reader can find it empty.
BeatInPlace(h) ==
    /\ client[h].beats
    /\ hb' = IF hb = NoRecord THEN [id |-> h, age |-> 0] ELSE NoRecord
    /\ UNCHANGED <<names, reqs, resps, client, dead, daemon, spent, shmFaults>>

\* ClientHeartbeat::beat, in the thread: a record of somebody else ends it.
Beat(h) ==
    /\ client[h].beats
    /\ IF hb.id \in {h, NoHandle}
       THEN hb # [id |-> h, age |-> 0] /\ hb' = [id |-> h, age |-> 0] /\ UNCHANGED client
       ELSE hb' = hb /\ client' = [client EXCEPT ![h].beats = FALSE]
    /\ UNCHANGED <<names, reqs, resps, dead, daemon, spent, shmFaults>>

\* round_trip: publish the request under the next id of this handle; the
\* answer is taken when its id is the one sent. A CLOSE goes the same way.
Publish(h, op) ==
    reqs' = [reqs EXCEPT ![h].queue =
                Append(@, [op |-> op, id |-> client[h].calls, from |-> h])]

Call(h) ==
    /\ client[h].at = "ready" /\ h \notin dead /\ client[h].calls < MaxShmCalls
    /\ Publish(h, "CALL")
    /\ SetClient(h, "waiting")
    /\ UNCHANGED <<names, resps, hb, dead, daemon, spent, shmFaults>>

\* Drop sends Shutdown to the worker, which publishes a CLOSE when it is idle.
DropHandle(h) ==
    /\ client[h].at = "ready"
    /\ Publish(h, "CLOSE")
    /\ SetClient(h, "closing")
    /\ UNCHANGED <<names, resps, hb, dead, daemon, spent, shmFaults>>

Receive(h) ==
    /\ client[h].at \in {"waiting", "closing"}
    /\ resps[client[h].resp].queue # <<>>
    /\ LET resp == Head(resps[client[h].resp].queue) IN
        /\ resps' = [resps EXCEPT ![client[h].resp].queue = Tail(@)]
        /\ client' = [client EXCEPT
                        ![h].at = IF @ = "waiting" THEN "ready" ELSE "closed",
                        ![h].beats = @ /\ client[h].at = "waiting",
                        ![h].calls = @ + 1,
                        ![h].got = IF resp.id = client[h].calls THEN resp.from ELSE @]
        /\ IF client[h].at = "closing" THEN RemoveHeartbeat(h) ELSE UNCHANGED hb
    /\ UNCHANGED <<names, reqs, dead, daemon, spent, shmFaults>>

\* dispatch: the reply channel's timeout marks the handle dead; the worker
\* stays in recv_owned and the heartbeat thread goes on.
CallTimeout(h) ==
    /\ client[h].at = "waiting" /\ h \notin dead
    /\ ShmFault
    /\ dead' = dead \cup {h}
    /\ UNCHANGED <<names, reqs, resps, hb, client, daemon, spent>>

ClientCrash(h) ==
    /\ Connecting(h) \/ Connected(h)
    /\ ShmFault
    /\ client' = [client EXCEPT ![h].at = "crashed", ![h].beats = FALSE]
    /\ UNCHANGED <<names, reqs, resps, hb, dead, daemon, spent>>

SetDaemon(at) == daemon' = [daemon EXCEPT !.at = at]

\* serve_prefix, open_daemon: attach the request ring, create the response ring.
AttachReq ==
    /\ daemon.at = "open" /\ names.req # NoHandle
    /\ daemon' = [daemon EXCEPT !.at = "create", !.req = names.req, !.retries = 0]
    /\ reqs' = [reqs EXCEPT ![names.req].attached = TRUE]
    /\ UNCHANGED <<names, resps, hb, client, dead, spent, shmFaults>>

\* No request ring within the attach timeout; the last retry ends the worker.
OpenRetry ==
    /\ daemon.at = "open" /\ Quiet
    /\ daemon.retries < MaxOpenRetries
    /\ daemon' = [daemon EXCEPT !.retries = @ + 1,
                    !.at = IF daemon.retries + 1 >= MaxOpenRetries THEN "failed" ELSE @]
    /\ UNCHANGED <<names, reqs, resps, hb, client, dead, spent, shmFaults>>

CreateResp ==
    /\ daemon.at = "create" /\ Len(resps) < MaxOpens
    /\ resps' = Append(resps, [attached |-> FALSE, queue |-> <<>>])
    /\ names' = [names EXCEPT !.resp = Len(resps) + 1]
    /\ daemon' = [daemon EXCEPT !.at = "discover", !.resp = Len(resps) + 1]
    /\ UNCHANGED <<reqs, hb, client, dead, spent, shmFaults>>

\* discover_consumer_id, then HeartbeatMonitor::attach.
DiscoverClient ==
    /\ daemon.at = "discover" /\ resps[daemon.resp].attached
    /\ daemon' = [daemon EXCEPT !.at = "serve", !.expect = hb.id]
    /\ UNCHANGED <<names, reqs, resps, hb, client, dead, spent, shmFaults>>

DiscoverTimeout ==
    /\ daemon.at = "discover" /\ Quiet
    /\ SetDaemon("open")
    /\ UNCHANGED <<names, reqs, resps, hb, client, dead, spent, shmFaults>>

\* process_available: dispatch one request and publish its answer.
ServeRequest ==
    /\ daemon.at = "serve" /\ reqs[daemon.req].queue # <<>>
    /\ LET req == Head(reqs[daemon.req].queue) IN
        /\ reqs' = [reqs EXCEPT ![daemon.req].queue = Tail(@)]
        /\ resps' = [resps EXCEPT ![daemon.resp].queue =
                        Append(@, [id |-> req.id, from |-> req.from])]
        /\ SetDaemon(IF req.op = "CLOSE" THEN "close" ELSE "serve")
    /\ UNCHANGED <<names, hb, client, dead, spent, shmFaults>>

ClientClosed ==
    /\ daemon.at = "close"
    /\ CleanupPrefixSegments
    /\ SetDaemon("open")
    /\ UNCHANGED <<reqs, resps, hb, client, dead, spent, shmFaults>>

\* Faulty variant: only the generation of the record is compared.
ReopenReasonNoStale ==
    IF hb = NoRecord THEN "missing"
    ELSE IF hb.id # daemon.expect THEN "replaced"
    ELSE "none"

\* HeartbeatMonitor::poll_reopen_reason, when nothing was delivered; there is
\* no monitor when attach found no record.
ReopenReason ==
    IF hb = NoRecord THEN "missing"
    ELSE IF hb.id # daemon.expect THEN "replaced"
    ELSE IF RecordIsStale THEN "stale"
    ELSE "none"

PollHeartbeat ==
    /\ daemon.at = "serve" /\ reqs[daemon.req].queue = <<>>
    /\ daemon.expect # NoHandle /\ ReopenReason # "none"
    /\ IF ReopenReason \in {"missing", "stale"} THEN CleanupPrefixSegments ELSE UNCHANGED names
    /\ SetDaemon("open")
    /\ UNCHANGED <<reqs, resps, hb, client, dead, spent, shmFaults>>

\* The daemon is started, and may die: the names and the rings stay.
DaemonStart ==
    /\ daemon.at = "down"
    /\ SetDaemon("open")
    /\ UNCHANGED <<names, reqs, resps, hb, client, dead, spent, shmFaults>>

DaemonCrash ==
    /\ daemon.at \notin {"down", "failed"}
    /\ ShmFault
    /\ daemon' = DownDaemon
    /\ UNCHANGED <<names, reqs, resps, hb, client, dead, spent>>

\* A signal told the daemon to stop: the worker leaves between two batches and
\* takes the names with it.
ShutdownExit ==
    /\ daemon.at = "open" \/ (daemon.at = "serve" /\ reqs[daemon.req].queue = <<>>)
    /\ ShmFault
    /\ CleanupPrefixSegments
    /\ daemon' = DownDaemon
    /\ UNCHANGED <<reqs, resps, hb, client, dead, spent>>

\* Time: a heartbeat thread is never late, and connecting takes ConnectTicks
\* at most. The record's age is counted to one past StaleAfter.
Tick ==
    /\ Quiet /\ hb # NoRecord /\ hb.age <= StaleAfter
    /\ client[hb.id].beats => hb.age = 0
    /\ \A h \in Handles : Connecting(h) => spent[h] < ConnectTicks
    /\ hb' = [hb EXCEPT !.age = @ + 1]
    /\ spent' = [h \in Handles |-> IF Connecting(h) THEN spent[h] + 1 ELSE spent[h]]
    /\ UNCHANGED <<names, reqs, resps, client, dead, daemon, shmFaults>>

DaemonStep ==
    \/ AttachReq \/ OpenRetry \/ CreateResp \/ DiscoverClient \/ DiscoverTimeout
    \/ ServeRequest \/ ClientClosed \/ PollHeartbeat

ClientStep(h) ==
    \/ AcquireRead(h) \/ AcquireClear(h) \/ AcquireBeat(h) \/ CreateReq(h) \/ AttachResp(h)
    \/ DiscoverDaemon(h) \/ ConnectTimeout(h) \/ Beat(h) \/ Receive(h)

ShmNext ==
    \/ DaemonStep \/ DaemonStart \/ DaemonCrash \/ ShutdownExit \/ Tick
    \/ \E h \in Handles :
        ClientStep(h) \/ Call(h) \/ DropHandle(h) \/ CallTimeout(h) \/ ClientCrash(h)

\* Threads that can run do, and time passes. Nothing promises that a daemon
\* that is down is started.
ShmSpec ==
    /\ ShmInit /\ [][ShmNext]_shmVars
    /\ WF_shmVars(DaemonStep) /\ WF_shmVars(Tick)
    /\ \A h \in Handles : WF_shmVars(ClientStep(h))

-----------------------------------------------------------------------------
\* A call is answered with the answer to its own request, although every handle
\* counts its request ids from zero and the daemon may be serving, on the
\* response ring this handle attached, the ring of a predecessor.
AnswersMine == \A h \in Handles : client[h].got \in {h, NoHandle}

\* The daemon does not leave a connected client whose process lives and whose
\* calls are answered: it goes on serving that client's rings until the client
\* closes or the daemon dies.
RingsKept ==
    shmFaults = 0 =>
        \A h \in Handles : Connected(h) => daemon.req = h /\ daemon.at \in {"discover", "serve"}

\* A client that dies without closing is noticed by the monitor the daemon
\* attached to its record: the daemon stops serving its rings.
DeadReleased ==
    \A h \in Handles :
        (client[h].at = "crashed" /\ daemon.req = h /\ daemon.expect = h)
            ~> (daemon.at # "serve" \/ daemon.req # h)

\* The same of every client that dies, whatever the daemon found when it looked
\* for a record to monitor.
DeadAlwaysReleased ==
    \A h \in Handles :
        (client[h].at = "crashed" /\ daemon.req = h) ~> (daemon.at # "serve" \/ daemon.req # h)

\* A handle that timed out does not stand in the way of the next one: the
\* engine drops it and builds a new one.
DeadMakesRoom ==
    \A h \in Handles : client[h].at = "refused" => hb.id \notin dead
=============================================================================
