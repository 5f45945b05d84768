-------------------------- MODULE ShmSessionProofs --------------------------
(***************************************************************************)
(* RingsKept, and AnswersMine as long as nothing fails, for any number of  *)
(* handles. One handle at a time gets past acquire, because the record it  *)
(* wrote does not go stale while it connects. What it then has to find is  *)
(* its own daemon: the name of the response ring leads to a ring that      *)
(* nobody has attached, or to one that is about to be unlinked, whenever a *)
(* handle may attach. From there on the daemon and the handle are on the   *)
(* same two rings, with one request or its answer under way at most.       *)
(***************************************************************************)
EXTENDS ShmSession, SequenceTheorems, TLAPS

\* A leaf that names no prover is left to Zenon.
USE ZenonT(30)

\* What the argument needs of the constants: no handle is called like the
\* absent one, and a handle that connects cannot make its own record stale.
ShmConstants ==
    /\ NoHandle \notin Handles
    /\ StaleAfter \in Nat /\ ConnectTicks \in Nat
    /\ StaleAfter > 0 /\ ConnectTicks <= StaleAfter

ClientAt ==
    {"new", "refused", "clear", "unlink", "beat", "create", "attach", "discover",
     "ready", "waiting", "closing", "closed", "failed", "crashed"}
DaemonAt == {"down", "open", "create", "discover", "serve", "close", "failed"}
Answers == [id : Nat, from : Handles]
RespRing == [attached : BOOLEAN, queue : Seq(Answers)]
Requests == [op : {"CALL", "CLOSE"}, id : Nat, from : Handles]
ReqRing == [attached : BOOLEAN, queue : Seq(Requests)]

ClientType ==
    [at : ClientAt, resp : Nat, beats : BOOLEAN, calls : Nat, got : Handles \cup {NoHandle}]

DaemonType ==
    [at : DaemonAt, req : Handles \cup {NoHandle}, resp : Nat,
     expect : Handles \cup {NoHandle}, retries : Nat]

ShmType ==
    /\ names \in [req : Handles \cup {NoHandle}, resp : Nat]
    /\ reqs \in [Handles -> ReqRing]
    /\ resps \in Seq(RespRing)
    /\ hb \in [id : Handles \cup {NoHandle}, age : Nat]
    /\ client \in [Handles -> ClientType]
    /\ daemon \in DaemonType
    /\ spent \in [Handles -> Nat]
    /\ shmFaults \in Nat

Holds(h) == client[h].at \in {"create", "attach", "discover", "ready", "waiting", "closing"}
Early(h) == client[h].at \in {"new", "unlink", "beat", "create"}
RingOpen == daemon.at = "discover" /\ ~ resps[daemon.resp].attached

\* The record is that of the one handle that got past acquire, and no record
\* of a live handle is ever taken for a dead one's.
OwnRecord ==
    /\ \A h \in Handles : Holds(h) <=> hb.id = h
    /\ hb.id = NoHandle => hb = NoRecord
    /\ \A h \in Handles : client[h].at \notin {"clear", "crashed"}
    /\ \A h \in Handles : client[h].beats <=> client[h].at \in {"ready", "waiting", "closing"}

FreshRecord ==
    /\ hb.age <= StaleAfter
    /\ \A h \in Handles : spent[h] <= ConnectTicks
    /\ \A h \in Handles : hb.id = h /\ Connecting(h) => hb.age <= spent[h]

\* Where the names lead, and which rings the daemon has open.
NamesLead ==
    /\ names.resp \in {NoRing, daemon.resp}
    /\ daemon.resp \in 0..Len(resps)
    /\ daemon.at \in {"discover", "serve", "close"} => daemon.resp # NoRing
    /\ daemon.at \in {"create", "discover", "serve", "close"} => daemon.req \in Handles
    /\ \A h \in Handles : Holds(h) /\ client[h].at # "create" => names.req \in {h, NoHandle}
    /\ \A h \in Handles :
        client[h].at \in {"discover", "ready", "waiting", "closing"} =>
            client[h].resp \in 1..Len(resps)
    /\ \A h \in Handles : Early(h) => names.req # h /\ ~ reqs[h].attached

\* What a handle that is about to attach finds under the name of the response
\* ring: nothing, a ring nobody has, or one whose daemon is about to unlink it.
NothingStale ==
    \A h \in Handles :
        client[h].at \in {"create", "attach"} \/ (client[h].at = "beat" /\ hb = NoRecord) =>
            names.resp = NoRing \/ RingOpen \/ daemon.at = "close"

\* A handle whose request ring was attached while it waited for a response ring.
AttachWaits ==
    \A h \in Handles :
        client[h].at = "attach" /\ reqs[h].attached =>
            \/ daemon.req = h /\ (daemon.at = "create" \/ RingOpen)
            \/ daemon.at \in {"open", "failed"}

\* A handle with a response ring but no daemon on its request ring: it is never
\* given one, because the daemon stays with that response ring.
DiscoverWaits ==
    \A h \in Handles :
        client[h].at = "discover" /\ ~ reqs[h].attached =>
            \/ names.req # h
            \/ daemon.at = "close"
            \/ /\ daemon.at \in {"discover", "serve"} /\ resps[daemon.resp].attached
               /\ daemon.at = "serve" => daemon.expect = h

\* The daemon is on both rings of this handle and watches its record.
Served(h) ==
    /\ daemon.req = h /\ daemon.resp = client[h].resp
    /\ daemon.at \in {"discover", "serve"}
    /\ resps[daemon.resp].attached
    /\ daemon.at = "serve" => daemon.expect = h

InQueue(h) == reqs[h].queue
OutQueue(h) == resps[client[h].resp].queue
Asked(h, op) == InQueue(h) = <<[op |-> op, id |-> client[h].calls, from |-> h]>> /\ OutQueue(h) = <<>>
Answered(h) == OutQueue(h) = <<[id |-> client[h].calls, from |-> h]>>

Ready(h) ==
    client[h].at = "ready" \/ (client[h].at = "discover" /\ reqs[h].attached) =>
        Served(h) /\ OutQueue(h) = <<>>
Waiting(h) ==
    client[h].at = "waiting" =>
        Served(h) /\ (Asked(h, "CALL") \/ (InQueue(h) = <<>> /\ Answered(h)))
Closing(h) ==
    client[h].at = "closing" =>
        \/ Served(h) /\ Asked(h, "CLOSE")
        \/ /\ Answered(h)
           /\ daemon.at = "close" \/ (daemon.at \in {"open", "failed"} /\ names = NoNames)

\* One request under way at most, and its answer comes back on the same ring.
Idle(h) ==
    /\ Early(h) \/ client[h].at \in {"attach", "discover", "ready"} => InQueue(h) = <<>>
    /\ client[h].got \in {h, NoHandle}
OneCall ==
    /\ RingOpen => resps[daemon.resp].queue = <<>>
    /\ \A h \in Handles : Idle(h) /\ Ready(h) /\ Waiting(h) /\ Closing(h)

ShmInv ==
    /\ ShmType /\ OwnRecord /\ FreshRecord /\ NamesLead
    /\ NothingStale /\ AttachWaits /\ DiscoverWaits /\ OneCall

\* Nobody has a ring at the start.
LEMMA ShmStart == ASSUME ShmConstants, ShmInit PROVE ShmInv
<1> USE DEF ShmInit
<1>1. ShmType
  BY SMTT(30) DEF ShmType, NoNames, NoRecord, FreshClient, DownDaemon, ReqRing, ClientType,
     DaemonType, ClientAt, DaemonAt, NoRing
<1>2. OwnRecord
  BY DEF OwnRecord, Holds, NoRecord, FreshClient, ShmConstants
<1>3. FreshRecord
  BY SMTT(30) DEF FreshRecord, NoRecord, ShmConstants
<1>4. NamesLead
  BY SMTT(30) DEF NamesLead, NoNames, DownDaemon, FreshClient, Holds, Early, NoRing, ShmConstants
<1>5. NothingStale /\ AttachWaits /\ DiscoverWaits /\ OneCall
  BY DEF NothingStale, AttachWaits, DiscoverWaits, OneCall, Ready, Waiting, Closing, Idle, RingOpen,
     FreshClient, DownDaemon, NoNames, InQueue
<1> QED  BY <1>1, <1>2, <1>3, <1>4, <1>5 DEF ShmInv

\* What a step that only moves a handle leaves alone.
Moved(h, a) ==
    /\ client' \in [Handles -> ClientType]
    /\ client'[h].at = a
    /\ \A g \in Handles : g # h => client'[g] = client[g]
    /\ \A g \in Handles :
        /\ client'[g].resp = client[g].resp /\ client'[g].beats = client[g].beats
        /\ client'[g].calls = client[g].calls /\ client'[g].got = client[g].got

\* A step that sets where one handle is.
LEMMA MoveOnly ==
  ASSUME ShmType, NEW h \in Handles, NEW a \in ClientAt, SetClient(h, a)
  PROVE Moved(h, a)
<1> DEFINE c == [client[h] EXCEPT !.at = a]
<1>1. client \in [Handles -> ClientType] /\ client' = [client EXCEPT ![h] = c]
  BY DEF ShmType, SetClient
<1>2. /\ c \in ClientType /\ c.at = a /\ c.resp = client[h].resp /\ c.beats = client[h].beats
      /\ c.calls = client[h].calls /\ c.got = client[h].got
  BY <1>1 DEF ClientType
<1> HIDE DEF c
<1> QED  BY <1>1, <1>2 DEF Moved

\* The calls of a handle that a step does not concern.
CallOf(g) == Idle(g) /\ Ready(g) /\ Waiting(g) /\ Closing(g)

\* A step that leaves this handle, the rings and the daemon alone.
LEMMA SameCall ==
  ASSUME NEW g \in Handles, CallOf(g), client'[g] = client[g],
         UNCHANGED <<reqs, resps, daemon>>, names' \in {names, NoNames}
  PROVE CallOf(g)'
  BY DEF CallOf, Idle, Ready, Waiting, Closing, Early, Served, Asked, Answered, InQueue, OutQueue

\* A handle that does not hold the record has no call under way.
LEMMA NoHoldersCall ==
  ASSUME NEW g \in Handles, CallOf(g), client'[g].at = client[g].at, client'[g].got = client[g].got,
         ~ Holds(g), reqs'[g] = reqs[g]
  PROVE CallOf(g)'
  BY DEF CallOf, Idle, Ready, Waiting, Closing, Early, Holds, InQueue

\* The same of one that is leaving with nothing sent.
LEMMA LeftCall ==
  ASSUME NEW g \in Handles, CallOf(g), client'[g].got = client[g].got,
         client'[g].at \in {"refused", "closed", "failed"}
  PROVE CallOf(g)'
  BY DEF CallOf, Idle, Ready, Waiting, Closing, Early

\* A step that attaches a response ring, or that puts its queue to q.
LEMMA RingAttached ==
  ASSUME NEW s \in Seq(RespRing), NEW i \in 1..Len(s), NEW t, t = [s EXCEPT ![i].attached = TRUE]
  PROVE /\ t \in Seq(RespRing) /\ Len(t) = Len(s) /\ t[i].attached /\ t[i].queue = s[i].queue
        /\ \A j \in 1..Len(s) : j # i => t[j] = s[j]
<1> DEFINE e == [s[i] EXCEPT !.attached = TRUE]
<1>1. s[i] \in RespRing
  BY ElementOfSeq
<1>2. e \in RespRing /\ e.attached /\ e.queue = s[i].queue
  BY <1>1 DEF RespRing
<1> HIDE DEF e
<1>3. t = [s EXCEPT ![i] = e]
  BY DEF e
<1>4. /\ [s EXCEPT ![i] = e] \in Seq(RespRing) /\ Len([s EXCEPT ![i] = e]) = Len(s)
      /\ \A j \in 1..Len(s) : [s EXCEPT ![i] = e][j] = IF j = i THEN e ELSE s[j]
  BY <1>2, ExceptSeq, SMTT(30)
<1> QED  BY <1>2, <1>3, <1>4

\* A step that puts an answer into a response ring.
LEMMA RingQueued ==
  ASSUME NEW s \in Seq(RespRing), NEW i \in 1..Len(s), NEW q \in Seq(Answers)
  PROVE /\ [s EXCEPT ![i].queue = q] \in Seq(RespRing) /\ Len([s EXCEPT ![i].queue = q]) = Len(s)
        /\ [s EXCEPT ![i].queue = q][i].attached = s[i].attached
        /\ [s EXCEPT ![i].queue = q][i].queue = q
        /\ \A j \in 1..Len(s) : j # i => [s EXCEPT ![i].queue = q][j] = s[j]
<1> DEFINE e == [s[i] EXCEPT !.queue = q]
<1>1. s[i] \in RespRing
  BY ElementOfSeq
<1>2. e \in RespRing /\ e.attached = s[i].attached /\ e.queue = q
  BY <1>1 DEF RespRing
<1>3. [s EXCEPT ![i].queue = q] = [s EXCEPT ![i] = e]
  OBVIOUS
<1> HIDE DEF e
<1>4. /\ [s EXCEPT ![i] = e] \in Seq(RespRing) /\ Len([s EXCEPT ![i] = e]) = Len(s)
      /\ \A j \in 1..Len(s) : [s EXCEPT ![i] = e][j] = IF j = i THEN e ELSE s[j]
  BY <1>2, ExceptSeq, SMTT(30)
<1> QED  BY <1>2, <1>3, <1>4

\* A ring with one frame, once it is taken.
LEMMA RingTaken ==
  ASSUME resps \in Seq(RespRing), NEW r \in 1..Len(resps), NEW q \in Seq(Answers),
         resps' = [resps EXCEPT ![r].queue = q]
  PROVE /\ resps' \in Seq(RespRing) /\ Len(resps') = Len(resps)
        /\ resps'[r].attached = resps[r].attached /\ resps'[r].queue = q
        /\ \A j \in 1..Len(resps) : j # r => resps'[j] = resps[j]
  BY RingQueued, SMTT(30)

\* A step that puts a request into an empty request ring.
LEMMA RequestQueued ==
  ASSUME NEW f \in [Handles -> ReqRing], NEW h \in Handles, NEW q \in Seq(Requests),
         NEW t, t = [f EXCEPT ![h].queue = q]
  PROVE /\ t \in [Handles -> ReqRing] /\ t[h].queue = q
        /\ \A g \in Handles : t[g].attached = f[g].attached
        /\ \A g \in Handles : g # h => t[g] = f[g]
<1> DEFINE e == [f[h] EXCEPT !.queue = q]
<1>1. e \in ReqRing /\ e.attached = f[h].attached /\ e.queue = q
  BY DEF ReqRing
<1>2. t = [f EXCEPT ![h] = e]
  OBVIOUS
<1> HIDE DEF e
<1> QED  BY <1>1, <1>2

\* acquire: a record of a live handle refuses this one.
LEMMA ReadKeeps ==
  ASSUME ShmConstants, ShmInv, NEW h \in Handles, AcquireRead(h) PROVE ShmInv'
<1> DEFINE a == IF hb # NoRecord THEN "refused" ELSE IF names # NoNames THEN "unlink" ELSE "beat"
<1> USE DEF ShmInv
<1>1. client[h].at = "new" /\ SetClient(h, a)
  <2>1. ASSUME hb # NoRecord PROVE RecordActive
    <3>1. hb.id \in Handles /\ Holds(hb.id)
      BY <2>1 DEF OwnRecord, ShmType
    <3>2. Alive(hb.id)
      BY <3>1 DEF Holds, Alive
    <3>3. ~ RecordIsStale
      BY ShmConstants, SMTT(30) DEF RecordIsStale, FreshRecord, ShmType, ShmConstants
    <3> QED  BY <2>1, <3>2, <3>3 DEF RecordActive
  <2> QED  BY <2>1 DEF AcquireRead, SetClient, RecordActive
<1>2. a \in ClientAt /\ a \in {"refused", "unlink", "beat"} /\ (a = "beat" => names = NoNames)
  BY DEF ClientAt
<1> HIDE DEF a
<1>3. UNCHANGED <<names, reqs, resps, hb, dead, daemon, spent, shmFaults>>
  BY DEF AcquireRead
<1>4. Moved(h, a)
  BY <1>1, <1>2, MoveOnly
<1> USE <1>1, <1>2, <1>3, <1>4 DEF Moved
<1>5. ShmType'
  BY DEF ShmType
<1>6. OwnRecord'
  BY DEF OwnRecord, Holds
<1>7. FreshRecord'
  BY DEF FreshRecord, OwnRecord, Connecting, Holds
<1>8. NamesLead'
  BY DEF NamesLead, Holds, Early
<1>9. NothingStale'
  BY SMTT(30) DEF NothingStale, RingOpen, NoNames
<1>10. AttachWaits' /\ DiscoverWaits'
  BY SMTT(30) DEF AttachWaits, DiscoverWaits, RingOpen
<1>11. OneCall'
  <2>1. (RingOpen => resps[daemon.resp].queue = <<>>)'
    BY DEF OneCall, RingOpen
  <2>2. ASSUME NEW g \in Handles PROVE CallOf(g)'
    <3>1. CallOf(g)
      BY DEF OneCall, CallOf
    <3>2. CASE g = h
      BY <3>1, <3>2 DEF CallOf, Idle, Ready, Waiting, Closing, Early, InQueue
    <3>3. CASE g # h
      BY <3>1, <3>3, SameCall
    <3> QED  BY <3>2, <3>3
  <2> QED  BY <2>1, <2>2 DEF OneCall, CallOf
<1> QED  BY <1>5, <1>6, <1>7, <1>8, <1>9, <1>10, <1>11 DEF ShmInv

\* acquire: nobody's record is cleared; the names a predecessor left are.
LEMMA ClearKeeps ==
  ASSUME ShmConstants, ShmInv, NEW h \in Handles, AcquireClear(h) PROVE ShmInv'
<1> USE DEF ShmInv
<1>1. client[h].at = "unlink" /\ SetClient(h, "beat") /\ names' = NoNames
  BY DEF AcquireClear, OwnRecord, CleanupPrefixSegments
<1>2. UNCHANGED <<reqs, resps, hb, dead, daemon, spent, shmFaults>>
  BY <1>1 DEF AcquireClear
<1>3. Moved(h, "beat")
  BY <1>1, MoveOnly DEF ClientAt
<1> USE <1>1, <1>2, <1>3 DEF Moved
<1>5. ShmType'
  BY DEF ShmType, NoNames, NoRing
<1>6. OwnRecord'
  BY DEF OwnRecord, Holds
<1>7. FreshRecord'
  BY DEF FreshRecord, OwnRecord, Connecting, Holds
<1>8. NamesLead'
  BY ShmConstants DEF NamesLead, Holds, Early, NoNames, ShmConstants
<1>9. NothingStale'
  BY DEF NothingStale, NoNames
<1>10. AttachWaits' /\ DiscoverWaits'
  BY ShmConstants DEF AttachWaits, DiscoverWaits, RingOpen, NoNames, ShmConstants
<1>11. OneCall'
  <2>1. (RingOpen => resps[daemon.resp].queue = <<>>)'
    BY DEF OneCall, RingOpen
  <2>2. ASSUME NEW g \in Handles PROVE CallOf(g)'
    <3>1. CallOf(g)
      BY DEF OneCall, CallOf
    <3>2. CASE g = h
      BY <3>1, <3>2 DEF CallOf, Idle, Ready, Waiting, Closing, Early, InQueue
    <3>3. CASE g # h
      BY <3>1, <3>3, SameCall
    <3> QED  BY <3>2, <3>3
  <2> QED  BY <2>1, <2>2 DEF OneCall, CallOf
<1> QED  BY <1>5, <1>6, <1>7, <1>8, <1>9, <1>10, <1>11 DEF ShmInv

\* acquire: the first beat is written where there is no record.
LEMMA BeatKeeps ==
  ASSUME ShmConstants, ShmInv, NEW h \in Handles, AcquireBeat(h) PROVE ShmInv'
<1> USE DEF ShmInv
<1> DEFINE a == IF hb = NoRecord THEN "create" ELSE "failed"
<1>1. client[h].at = "beat" /\ SetClient(h, a) /\ a \in {"create", "failed"}
  BY DEF AcquireBeat
<1>2. UNCHANGED <<names, reqs, resps, dead, daemon, spent, shmFaults>>
  BY DEF AcquireBeat
<1>3. Moved(h, a)
  BY <1>1, MoveOnly DEF ClientAt
<1>4. IF hb = NoRecord THEN a = "create" /\ hb' = [id |-> h, age |-> 0]
                       ELSE a = "failed" /\ hb' = hb
  BY DEF AcquireBeat
<1> HIDE DEF a
<1> USE <1>1, <1>2, <1>3, <1>4 DEF Moved
<1>5. ShmType'
  <2>1. [id |-> h, age |-> 0] \in [id : Handles \cup {NoHandle}, age : Nat]
    OBVIOUS
  <2>2. hb' \in [id : Handles \cup {NoHandle}, age : Nat]
    BY <2>1, <1>4 DEF ShmType
  <2> QED  BY <2>2 DEF ShmType
<1>6. OwnRecord'
  BY ShmConstants, SMTT(30) DEF OwnRecord, Holds, NoRecord, ShmConstants
<1>7. FreshRecord'
  <2>1. spent[h] \in Nat /\ StaleAfter \in Nat
    BY ShmConstants DEF ShmType, ShmConstants
  <2>2. CASE hb = NoRecord
    BY <2>1, <2>2, SMTT(30) DEF FreshRecord
  <2>3. CASE hb # NoRecord
    BY <2>3 DEF FreshRecord, Connecting
  <2> QED  BY <2>2, <2>3
<1>8. NamesLead'
  BY DEF NamesLead, Holds, Early
<1>9. NothingStale'
  BY DEF NothingStale, RingOpen, NoRecord
<1>10. AttachWaits' /\ DiscoverWaits'
  BY SMTT(30) DEF AttachWaits, DiscoverWaits, RingOpen
<1>11. OneCall'
  <2>1. (RingOpen => resps[daemon.resp].queue = <<>>)'
    BY DEF OneCall, RingOpen
  <2>2. ASSUME NEW g \in Handles PROVE CallOf(g)'
    <3>1. CallOf(g)
      BY DEF OneCall, CallOf
    <3>2. CASE g = h
      BY <3>1, <3>2 DEF CallOf, Idle, Ready, Waiting, Closing, Early, InQueue
    <3>3. CASE g # h
      BY <3>1, <3>3, SameCall
    <3> QED  BY <3>2, <3>3
  <2> QED  BY <2>1, <2>2 DEF OneCall, CallOf
<1> QED  BY <1>5, <1>6, <1>7, <1>8, <1>9, <1>10, <1>11 DEF ShmInv

\* open_client: the request ring is put under its name.
LEMMA CreateReqKeeps ==
  ASSUME ShmConstants, ShmInv, NEW h \in Handles, CreateReq(h) PROVE ShmInv'
<1> USE DEF ShmInv
<1>1. client[h].at = "create" /\ SetClient(h, "attach")
  BY DEF CreateReq
<1>2. /\ names' = [names EXCEPT !.req = h] /\ names'.req = h /\ names'.resp = names.resp
      /\ UNCHANGED <<reqs, resps, hb, dead, daemon, spent, shmFaults>>
  BY DEF CreateReq, ShmType
<1>3. Moved(h, "attach")
  BY <1>1, MoveOnly DEF ClientAt
<1>4. \A g \in Handles : g # h => ~ Holds(g)
  BY <1>1 DEF OwnRecord, Holds
<1> USE <1>1, <1>2, <1>3, <1>4 DEF Moved
<1>5. ShmType'
  BY DEF ShmType
<1>6. OwnRecord'
  BY DEF OwnRecord, Holds
<1>7. FreshRecord'
  BY DEF FreshRecord, Connecting
<1>8. NamesLead'
  BY DEF NamesLead, Holds, Early
<1>9. NothingStale'
  BY DEF NothingStale, RingOpen
<1>10. AttachWaits' /\ DiscoverWaits'
  BY SMTT(30) DEF AttachWaits, DiscoverWaits, RingOpen, Holds, NamesLead, Early
<1>11. OneCall'
  <2>1. (RingOpen => resps[daemon.resp].queue = <<>>)'
    BY DEF OneCall, RingOpen
  <2>2. ASSUME NEW g \in Handles PROVE CallOf(g)'
    <3>1. CallOf(g)
      BY DEF OneCall, CallOf
    <3>2. CASE g = h
      BY <3>1, <3>2 DEF CallOf, Idle, Ready, Waiting, Closing, Early, InQueue
    <3>3. CASE g # h
      BY <3>1, <3>3, NoHoldersCall
    <3> QED  BY <3>2, <3>3
  <2> QED  BY <2>1, <2>2 DEF OneCall, CallOf
<1> QED  BY <1>5, <1>6, <1>7, <1>8, <1>9, <1>10, <1>11 DEF ShmInv

\* open_client: whatever ring the name leads to is fresh, or about to go.
LEMMA AttachRespKeeps ==
  ASSUME ShmConstants, ShmInv, NEW h \in Handles, AttachResp(h) PROVE ShmInv'
<1> USE DEF ShmInv
<1> DEFINE r == names.resp
<1>1. client[h].at = "attach" /\ r = daemon.resp /\ r \in 1..Len(resps) /\ r # NoRing
  BY SMTT(30) DEF AttachResp, NamesLead, NoRing
<1>2. UNCHANGED <<names, reqs, hb, dead, daemon, spent, shmFaults>>
  BY DEF AttachResp
<1>3. /\ resps' \in Seq(RespRing)
      /\ Len(resps') = Len(resps) /\ resps'[r].attached /\ resps'[r].queue = resps[r].queue
  <2>1. resps \in Seq(RespRing) /\ resps' = [resps EXCEPT ![r].attached = TRUE]
    BY DEF AttachResp, ShmType
  <2> HIDE DEF r
  <2> QED  BY <1>1, <2>1, RingAttached, SMTT(30)
<1>4. /\ client' \in [Handles -> ClientType]
      /\ client'[h].at = "discover" /\ client'[h].resp = r
      /\ \A g \in Handles : g # h => client'[g] = client[g]
      /\ \A g \in Handles : client'[g].beats = client[g].beats /\ client'[g].got = client[g].got
  <2>1. client[h] \in ClientType /\ client \in [Handles -> ClientType] /\ r \in Nat
    BY <1>1 DEF ShmType
  <2> DEFINE c == [client[h] EXCEPT !.at = "discover", !.resp = r]
  <2>2. /\ c \in ClientType /\ c.at = "discover" /\ c.resp = r
        /\ c.beats = client[h].beats /\ c.got = client[h].got
    BY <2>1 DEF ClientType, ClientAt
  <2>3. client' = [client EXCEPT ![h] = c]
    BY <2>1 DEF AttachResp
  <2> HIDE DEF c
  <2> QED  BY <2>1, <2>2, <2>3
<1>5. \A g \in Handles : g # h => ~ Holds(g)
  BY <1>1 DEF OwnRecord, Holds
<1>6. RingOpen \/ daemon.at = "close"
  BY <1>1 DEF NothingStale
<1> HIDE DEF r
<1> USE <1>1, <1>2, <1>3, <1>4, <1>5, <1>6
<1>7. ShmType'
  BY DEF ShmType
<1>8. OwnRecord'
  BY DEF OwnRecord, Holds
<1>9. FreshRecord'
  BY DEF FreshRecord, Connecting
<1>10. NamesLead'
  BY SMTT(30) DEF NamesLead, Holds, Early
<1>11. NothingStale'
  BY ShmConstants, SMTT(30) DEF NothingStale, Holds, OwnRecord, NoRecord, ShmConstants
<1>12. AttachWaits' /\ DiscoverWaits'
  BY DEF AttachWaits, DiscoverWaits, RingOpen, Holds
<1>13. OneCall'
  <2>1. (RingOpen => resps[daemon.resp].queue = <<>>)'
    BY DEF RingOpen
  <2>2. ASSUME NEW g \in Handles PROVE CallOf(g)'
    <3>1. CallOf(g)
      BY DEF OneCall, CallOf
    <3>2. CASE g = h
      <4>1. Idle(h)' /\ Waiting(h)' /\ Closing(h)'
        BY <3>1, <3>2 DEF CallOf, Idle, Waiting, Closing, Early, InQueue
      <4>2. ASSUME reqs[h].attached PROVE Served(h)' /\ OutQueue(h)' = <<>>
        <5>1. daemon.req = h /\ RingOpen
          BY <4>2 DEF AttachWaits, RingOpen
        <5> QED  BY <5>1 DEF Served, RingOpen, OutQueue, OneCall
      <4>3. Ready(h)'
        BY <4>2 DEF Ready
      <4> QED  BY <3>2, <4>1, <4>3 DEF CallOf
    <3>3. CASE g # h
      BY <3>1, <3>3, NoHoldersCall
    <3> QED  BY <3>2, <3>3
  <2> QED  BY <2>1, <2>2 DEF OneCall, CallOf
<1> QED  BY <1>7, <1>8, <1>9, <1>10, <1>11, <1>12, <1>13 DEF ShmInv

\* worker_loop: a daemon on this request ring is on the response ring as well.
LEMMA DiscoverDaemonKeeps ==
  ASSUME ShmConstants, ShmInv, NEW h \in Handles, DiscoverDaemon(h) PROVE ShmInv'
<1> USE DEF ShmInv
<1>1. client[h].at = "discover" /\ reqs[h].attached
  BY DEF DiscoverDaemon
<1>2. UNCHANGED <<names, reqs, resps, hb, dead, daemon, spent, shmFaults>>
  BY DEF DiscoverDaemon
<1>3. /\ client' \in [Handles -> ClientType]
      /\ client'[h].at = "ready" /\ client'[h].beats
      /\ \A g \in Handles : g # h => client'[g] = client[g]
      /\ \A g \in Handles : client'[g].resp = client[g].resp /\ client'[g].got = client[g].got
  <2>1. client[h] \in ClientType /\ client \in [Handles -> ClientType]
    BY <1>1 DEF ShmType
  <2> DEFINE c == [client[h] EXCEPT !.at = "ready", !.beats = TRUE]
  <2>2. /\ c \in ClientType /\ c.at = "ready" /\ c.beats
        /\ c.resp = client[h].resp /\ c.got = client[h].got
    BY <2>1 DEF ClientType, ClientAt
  <2>3. client' = [client EXCEPT ![h] = c]
    BY <2>1 DEF DiscoverDaemon
  <2> HIDE DEF c
  <2> QED  BY <2>1, <2>2, <2>3
<1>4. Served(h) /\ OutQueue(h) = <<>>
  BY <1>1 DEF OneCall, Ready
<1> USE <1>1, <1>2, <1>3, <1>4
<1>5. ShmType'
  BY DEF ShmType
<1>6. OwnRecord'
  BY SMTT(30) DEF OwnRecord, Holds
<1>7. FreshRecord'
  BY DEF FreshRecord, Connecting
<1>8. NamesLead'
  BY SMTT(30) DEF NamesLead, Holds, Early
<1>9. NothingStale'
  BY DEF NothingStale, RingOpen
<1>10. AttachWaits' /\ DiscoverWaits'
  BY SMTT(30) DEF AttachWaits, DiscoverWaits, RingOpen
<1>11. OneCall'
  <2>1. (RingOpen => resps[daemon.resp].queue = <<>>)'
    BY DEF OneCall, RingOpen
  <2>2. ASSUME NEW g \in Handles PROVE CallOf(g)'
    <3>1. CallOf(g)
      BY DEF OneCall, CallOf
    <3>2. CASE g = h
      BY <3>1, <3>2 DEF CallOf, Idle, Ready, Waiting, Closing, InQueue, Served, OutQueue
    <3>3. CASE g # h
      BY <3>1, <3>3, SameCall
    <3> QED  BY <3>2, <3>3
  <2> QED  BY <2>1, <2>2 DEF OneCall, CallOf
<1> QED  BY <1>5, <1>6, <1>7, <1>8, <1>9, <1>10, <1>11 DEF ShmInv

\* The attach timeout: the record goes with the handle.
LEMMA ConnectTimeoutKeeps ==
  ASSUME ShmConstants, ShmInv, NEW h \in Handles, ConnectTimeout(h) PROVE ShmInv'
<1> USE DEF ShmInv
<1>1. client[h].at \in {"attach", "discover"} /\ SetClient(h, "failed") /\ Holds(h)
  BY DEF ConnectTimeout, Holds
<1>2. hb' = NoRecord /\ UNCHANGED <<names, reqs, resps, dead, daemon, spent, shmFaults>>
  BY <1>1 DEF ConnectTimeout, RemoveHeartbeat, OwnRecord
<1>3. Moved(h, "failed")
  BY <1>1, MoveOnly DEF ClientAt
<1>4. \A g \in Handles : g # h => ~ Holds(g)
  BY <1>1 DEF OwnRecord
<1> USE <1>1, <1>2, <1>3, <1>4 DEF Moved
<1>5. ShmType'
  BY DEF ShmType, NoRecord
<1>6. OwnRecord'
  BY ShmConstants, SMTT(30) DEF OwnRecord, Holds, NoRecord, ShmConstants
<1>7. FreshRecord'
  BY ShmConstants, SMTT(30) DEF FreshRecord, NoRecord, ShmConstants
<1>8. NamesLead'
  BY DEF NamesLead, Holds, Early
<1>9. NothingStale'
  <2>1. \A g \in Handles : client[g].at \notin {"beat", "create"}
    BY DEF ConnectTimeout, Quiet
  <2> QED  BY <2>1 DEF NothingStale, Holds
<1>10. AttachWaits' /\ DiscoverWaits'
  BY SMTT(30) DEF AttachWaits, DiscoverWaits, Holds
<1>11. OneCall'
  <2>1. (RingOpen => resps[daemon.resp].queue = <<>>)'
    BY DEF OneCall, RingOpen
  <2>2. ASSUME NEW g \in Handles PROVE CallOf(g)'
    <3>1. CallOf(g)
      BY DEF OneCall, CallOf
    <3>2. CASE g = h
      BY <3>1, <3>2, LeftCall
    <3>3. CASE g # h
      BY <3>1, <3>3, NoHoldersCall
    <3> QED  BY <3>2, <3>3
  <2> QED  BY <2>1, <2>2 DEF OneCall, CallOf
<1> QED  BY <1>5, <1>6, <1>7, <1>8, <1>9, <1>10, <1>11 DEF ShmInv

\* The heartbeat thread finds its own record.
LEMMA ThreadBeatKeeps ==
  ASSUME ShmConstants, ShmInv, NEW h \in Handles, Beat(h) PROVE ShmInv'
<1> USE DEF ShmInv
<1>1. hb.id = h
  BY DEF Beat, OwnRecord, Holds
<1>2. hb' = [id |-> h, age |-> 0] /\ UNCHANGED <<names, reqs, resps, client, dead, daemon, spent, shmFaults>>
  BY <1>1 DEF Beat
<1> USE <1>1, <1>2
<1>3. ShmType'
  BY DEF ShmType
<1>4. OwnRecord'
  BY ShmConstants DEF OwnRecord, Holds, ShmConstants
<1>5. FreshRecord'
  BY ShmConstants, SMTT(30) DEF FreshRecord, Connecting, ShmType, ShmConstants
<1>6. NamesLead' /\ AttachWaits' /\ DiscoverWaits'
  BY DEF NamesLead, Holds, Early, AttachWaits, DiscoverWaits, RingOpen
<1>7. NothingStale'
  BY ShmConstants DEF NothingStale, RingOpen, NoRecord, ShmConstants
<1>8. OneCall'
  <2>1. (RingOpen => resps[daemon.resp].queue = <<>>)'
    BY DEF OneCall, RingOpen
  <2>2. ASSUME NEW g \in Handles PROVE CallOf(g)'
    <3>1. CallOf(g)
      BY DEF OneCall, CallOf
    <3> QED  BY <3>1, SameCall
  <2> QED  BY <2>1, <2>2 DEF OneCall, CallOf
<1> QED  BY <1>3, <1>4, <1>5, <1>6, <1>7, <1>8 DEF ShmInv

\* Time: the record ages no further than its handle has been connecting.
LEMMA TickKeeps ==
  ASSUME ShmConstants, ShmInv, Tick PROVE ShmInv'
<1> USE DEF ShmInv
<1>1. /\ hb # NoRecord /\ hb' = [hb EXCEPT !.age = @ + 1]
      /\ hb'.id = hb.id /\ hb'.age = hb.age + 1 /\ hb' \in [id : Handles \cup {NoHandle}, age : Nat]
      /\ hb.age \in Nat
  <2>1. hb \in [id : Handles \cup {NoHandle}, age : Nat]
    BY DEF ShmType
  <2>2. hb # NoRecord /\ hb' = [hb EXCEPT !.age = @ + 1]
    BY DEF Tick
  <2> QED  BY <2>1, <2>2, SMTT(30)
<1>2. UNCHANGED <<names, reqs, resps, client, dead, daemon, shmFaults>>
  BY DEF Tick
<1>3. hb.id \in Handles /\ Holds(hb.id)
  BY <1>1 DEF OwnRecord, ShmType
<1>4. /\ spent' \in [Handles -> Nat]
      /\ \A g \in Handles : spent'[g] = IF Connecting(g) THEN spent[g] + 1 ELSE spent[g]
      /\ \A g \in Handles : Connecting(g) => spent[g] < ConnectTicks
  <2>1. spent \in [Handles -> Nat]
    BY DEF ShmType
  <2>2. /\ spent' = [g \in Handles |-> IF Connecting(g) THEN spent[g] + 1 ELSE spent[g]]
        /\ \A g \in Handles : Connecting(g) => spent[g] < ConnectTicks
    BY DEF Tick
  <2> QED  BY <2>1, <2>2, SMTT(30)
<1> USE <1>1, <1>2, <1>3, <1>4
<1>5. ShmType'
  BY DEF ShmType
<1>6. OwnRecord'
  BY ShmConstants DEF OwnRecord, Holds, ShmConstants
<1>7. FreshRecord'
  <2>1. \A g \in Handles : spent[g] \in Nat /\ spent[g] <= ConnectTicks /\ ConnectTicks \in Nat
    BY ShmConstants DEF FreshRecord, ShmType, ShmConstants
  <2>2. \A g \in Handles : spent'[g] <= ConnectTicks
    BY <2>1, SMTT(30)
  <2>3. \A g \in Handles : hb'.id = g /\ Connecting(g)' => hb'.age <= spent'[g]
    BY <2>1, SMTT(30) DEF FreshRecord, Connecting
  <2>4. CASE client[hb.id].beats
    <3>1. hb.age = 0
      BY <2>4 DEF Tick
    <3> QED  BY ShmConstants, <3>1, <2>2, <2>3, SMTT(30) DEF FreshRecord, ShmConstants
  <2>5. CASE ~ client[hb.id].beats
    <3>1. Connecting(hb.id)
      BY <2>5 DEF OwnRecord, Holds, Connecting
    <3>2. hb.age <= spent[hb.id] /\ spent[hb.id] < ConnectTicks
      BY <3>1 DEF FreshRecord
    <3> QED  BY ShmConstants, <3>2, <2>1, <2>2, <2>3, SMTT(30) DEF FreshRecord, ShmConstants
  <2> QED  BY <2>4, <2>5
<1>8. NamesLead' /\ AttachWaits' /\ DiscoverWaits'
  BY DEF NamesLead, Holds, Early, AttachWaits, DiscoverWaits, RingOpen
<1>9. NothingStale'
  BY ShmConstants DEF NothingStale, RingOpen, NoRecord, ShmConstants
<1>10. OneCall'
  <2>1. (RingOpen => resps[daemon.resp].queue = <<>>)'
    BY DEF OneCall, RingOpen
  <2>2. ASSUME NEW g \in Handles PROVE CallOf(g)'
    <3>1. CallOf(g)
      BY DEF OneCall, CallOf
    <3> QED  BY <3>1, SameCall
  <2> QED  BY <2>1, <2>2 DEF OneCall, CallOf
<1> QED  BY <1>5, <1>6, <1>7, <1>8, <1>9, <1>10 DEF ShmInv

\* round_trip: a request goes into an empty ring whose daemon is there.
LEMMA AskKeeps ==
  ASSUME ShmConstants, ShmInv, NEW h \in Handles, NEW op \in {"CALL", "CLOSE"},
         client[h].at = "ready", Publish(h, op),
         SetClient(h, IF op = "CALL" THEN "waiting" ELSE "closing"),
         UNCHANGED <<names, resps, hb, dead, daemon, spent, shmFaults>>
  PROVE ShmInv'
<1> USE DEF ShmInv
<1> DEFINE a == IF op = "CALL" THEN "waiting" ELSE "closing"
           req == [op |-> op, id |-> client[h].calls, from |-> h]
<1>1. Moved(h, a)
  BY MoveOnly DEF ClientAt
<1>2. /\ reqs' \in [Handles -> ReqRing]
      /\ reqs'[h].queue = <<req>>
      /\ \A g \in Handles : reqs'[g].attached = reqs[g].attached
      /\ \A g \in Handles : g # h => reqs'[g] = reqs[g]
  <2>1. InQueue(h) = <<>> /\ req \in Requests
    BY DEF OneCall, Idle, Requests, ShmType, ClientType
  <2>2. Append(InQueue(h), req) = <<req>> /\ <<req>> \in Seq(Requests)
    BY <2>1, SMTT(30)
  <2> DEFINE q == <<req>>
  <2>3. reqs' = [reqs EXCEPT ![h].queue = q] /\ reqs \in [Handles -> ReqRing] /\ q \in Seq(Requests)
    BY <2>1, <2>2 DEF Publish, InQueue, ShmType
  <2> HIDE DEF q
  <2>4. /\ reqs' \in [Handles -> ReqRing] /\ reqs'[h].queue = q
        /\ \A g \in Handles : reqs'[g].attached = reqs[g].attached
        /\ \A g \in Handles : g # h => reqs'[g] = reqs[g]
    BY <2>3, RequestQueued, SMTT(30)
  <2> QED  BY <2>4 DEF q
<1>3. \A g \in Handles : g # h => ~ Holds(g)
  BY DEF OwnRecord, Holds
<1>4. Served(h) /\ OutQueue(h) = <<>>
  BY DEF OneCall, Ready
<1>5. a \in {"waiting", "closing"} /\ (a = "waiting" => op = "CALL") /\ (a = "closing" => op = "CLOSE")
  OBVIOUS
<1> HIDE DEF a
<1> USE <1>1, <1>2, <1>3, <1>4, <1>5 DEF Moved
<1>6. ShmType'
  BY DEF ShmType
<1>7. OwnRecord'
  BY DEF OwnRecord, Holds
<1>8. FreshRecord'
  BY DEF FreshRecord, Connecting
<1>9. NamesLead'
  BY SMTT(30) DEF NamesLead, Holds, Early
<1>10. NothingStale'
  BY SMTT(30) DEF NothingStale, RingOpen
<1>11. AttachWaits' /\ DiscoverWaits'
  BY SMTT(30) DEF AttachWaits, DiscoverWaits, RingOpen
<1>12. OneCall'
  <2>1. (RingOpen => resps[daemon.resp].queue = <<>>)'
    BY DEF OneCall, RingOpen
  <2>2. ASSUME NEW g \in Handles PROVE CallOf(g)'
    <3>1. CallOf(g)
      BY DEF OneCall, CallOf
    <3>2. CASE g = h
      <4>1. Idle(h)' /\ Ready(h)'
        BY <3>1, <3>2 DEF CallOf, Idle, Ready, Early
      <4>2. Served(h)' /\ Asked(h, op)'
        BY DEF Served, Asked, InQueue, OutQueue
      <4>3. Waiting(h)' /\ Closing(h)'
        BY <4>2 DEF Waiting, Closing
      <4> QED  BY <3>2, <4>1, <4>3 DEF CallOf
    <3>3. CASE g # h
      BY <3>1, <3>3, NoHoldersCall
    <3> QED  BY <3>2, <3>3
  <2> QED  BY <2>1, <2>2 DEF OneCall, CallOf
<1> QED  BY <1>6, <1>7, <1>8, <1>9, <1>10, <1>11, <1>12 DEF ShmInv

\* What a handle receives: the answer to what it sent, alone in its ring.
LEMMA Receives ==
  ASSUME ShmInv, NEW h \in Handles, Receive(h)
  PROVE /\ client[h].at \in {"waiting", "closing"} /\ client[h].resp \in 1..Len(resps) /\ Holds(h)
        /\ \A g \in Handles : g # h => ~ Holds(g)
        /\ resps[client[h].resp].queue # <<>>
        /\ Head(resps[client[h].resp].queue).id = client[h].calls
        /\ Head(resps[client[h].resp].queue).from = h
        /\ resps' \in Seq(RespRing) /\ Len(resps') = Len(resps) /\ resps'[client[h].resp].queue = <<>>
        /\ \A j \in 1..Len(resps) : resps'[j].attached = resps[j].attached
        /\ \A j \in 1..Len(resps) : j # client[h].resp => resps'[j] = resps[j]
        /\ UNCHANGED <<names, reqs, dead, daemon, spent, shmFaults>>
<1> DEFINE r == client[h].resp
<1> USE DEF ShmInv
<1>1. client[h].at \in {"waiting", "closing"} /\ r \in 1..Len(resps) /\ Holds(h)
  BY DEF Receive, NamesLead, Holds
<1>2. resps[r].queue = <<[id |-> client[h].calls, from |-> h]>>
  BY <1>1 DEF Receive, OneCall, Waiting, Closing, Asked, Answered, OutQueue
<1>3. resps \in Seq(RespRing) /\ resps' = [resps EXCEPT ![r].queue = Tail(resps[r].queue)]
  BY DEF Receive, ShmType
<1>4. Tail(resps[r].queue) = <<>> /\ <<>> \in Seq(Answers)
  BY <1>2, SMTT(30)
<1>5. /\ resps' \in Seq(RespRing) /\ Len(resps') = Len(resps)
      /\ resps'[r].attached = resps[r].attached /\ resps'[r].queue = <<>>
      /\ \A j \in 1..Len(resps) : j # r => resps'[j] = resps[j]
  <2> DEFINE q == Tail(resps[r].queue)
  <2>1. /\ r \in 1..Len(resps) /\ resps \in Seq(RespRing) /\ q \in Seq(Answers)
        /\ q = <<>> /\ resps' = [resps EXCEPT ![r].queue = q]
    BY <1>1, <1>3, <1>4
  <2> HIDE DEF q, r
  <2> QED  BY <2>1, RingTaken
<1>6. \A j \in 1..Len(resps) : resps'[j].attached = resps[j].attached
  BY <1>5
<1>7. UNCHANGED <<names, reqs, dead, daemon, spent, shmFaults>>
  BY DEF Receive
<1>8. \A g \in Handles : g # h => ~ Holds(g)
  BY <1>1 DEF OwnRecord
<1>9. resps[r].queue # <<>> /\ Head(resps[r].queue).id = client[h].calls /\ Head(resps[r].queue).from = h
  BY <1>2, SMTT(30)
<1> QED
  BY <1>1, <1>2, <1>5, <1>6, <1>7, <1>8, <1>9

\* The handle once it has taken the answer.
LEMMA ReceivedBy ==
  ASSUME ShmInv, NEW h \in Handles, Receive(h), NEW a \in ClientAt, NEW b \in BOOLEAN,
         a = IF client[h].at = "waiting" THEN "ready" ELSE "closed",
         b = (client[h].beats /\ client[h].at = "waiting")
  PROVE /\ client' \in [Handles -> ClientType]
        /\ client'[h].at = a /\ client'[h].resp = client[h].resp /\ client'[h].got = h
        /\ client'[h].beats = b
        /\ \A g \in Handles : g # h => client'[g] = client[g]
<1>1. client[h] \in ClientType /\ client \in [Handles -> ClientType]
  BY DEF ShmInv, ShmType
<1> DEFINE n == client[h].calls + 1
           c == [client[h] EXCEPT !.at = a, !.beats = b, !.calls = n, !.got = h]
<1>2. /\ c \in ClientType /\ c.at = a /\ c.resp = client[h].resp /\ c.got = h /\ c.beats = b
  <2>1. n \in Nat
    BY <1>1, SMTT(30) DEF ClientType
  <2> HIDE DEF n
  <2> QED  BY <1>1, <2>1 DEF ClientType
<1>3. /\ Head(resps[client[h].resp].queue).id = client[h].calls
      /\ Head(resps[client[h].resp].queue).from = h
  BY Receives
<1>4. client' = [client EXCEPT ![h] = c]
  BY <1>1, <1>3 DEF Receive
<1> HIDE DEF c
<1> QED  BY <1>1, <1>2, <1>4

\* round_trip: the answer to a call.
LEMMA AnswerKeeps ==
  ASSUME ShmConstants, ShmInv, NEW h \in Handles, Receive(h), client[h].at = "waiting"
  PROVE ShmInv'
<1> USE DEF ShmInv
<1> DEFINE r == client[h].resp
<1>1. /\ r \in 1..Len(resps) /\ Holds(h)
      /\ \A g \in Handles : g # h => ~ Holds(g)
      /\ resps[r].queue # <<>>
      /\ resps' \in Seq(RespRing) /\ Len(resps') = Len(resps) /\ resps'[r].queue = <<>>
      /\ \A j \in 1..Len(resps) : resps'[j].attached = resps[j].attached
      /\ \A j \in 1..Len(resps) : j # r => resps'[j] = resps[j]
      /\ UNCHANGED <<names, reqs, dead, daemon, spent, shmFaults>>
  BY Receives
<1>2. /\ client' \in [Handles -> ClientType]
      /\ client'[h].at = "ready" /\ client'[h].resp = r /\ client'[h].got = h
      /\ client'[h].beats = TRUE
      /\ \A g \in Handles : g # h => client'[g] = client[g]
  <2>1. client[h].beats = TRUE
    BY DEF OwnRecord, ShmType, ClientType
  <2> QED  BY <2>1, ReceivedBy DEF ClientAt
<1>3. hb' = hb
  BY DEF Receive
<1>4. Served(h) /\ InQueue(h) = <<>>
  BY <1>1 DEF OneCall, Waiting, Asked, OutQueue
<1> HIDE DEF r
<1> USE <1>1, <1>2, <1>3, <1>4
<1>10. ShmType'
  BY DEF ShmType
<1>11. OwnRecord'
  BY SMTT(30) DEF OwnRecord, Holds
<1>12. FreshRecord'
  BY DEF FreshRecord, Connecting
<1>13. NamesLead'
  BY SMTT(30) DEF NamesLead, Holds, Early, r
<1>14. ~ RingOpen /\ ~ RingOpen'
  BY DEF RingOpen, Served, r
<1>15. NothingStale'
  BY <1>14 DEF NothingStale
<1>16. AttachWaits' /\ DiscoverWaits'
  BY SMTT(30) DEF AttachWaits, DiscoverWaits, Holds
<1>17. OneCall'
  <2>2. ASSUME NEW g \in Handles PROVE CallOf(g)'
    <3>1. CallOf(g)
      BY DEF OneCall, CallOf
    <3>2. CASE g = h
      <4>1. Idle(h)' /\ Waiting(h)' /\ Closing(h)'
        BY <3>1, <3>2 DEF Idle, Waiting, Closing, Early, InQueue
      <4>2. Ready(h)'
        BY DEF Ready, Served, OutQueue, r
      <4> QED  BY <3>2, <4>1, <4>2 DEF CallOf
    <3>4. CASE g # h
      BY <3>1, <3>4, NoHoldersCall
    <3> QED  BY <3>2, <3>4
  <2> QED  BY <1>14, <2>2 DEF OneCall, CallOf
<1> QED  BY <1>10, <1>11, <1>12, <1>13, <1>15, <1>16, <1>17 DEF ShmInv

\* round_trip: the answer to a CLOSE, with which the record goes.
LEMMA CloseKeeps ==
  ASSUME ShmConstants, ShmInv, NEW h \in Handles, Receive(h), client[h].at = "closing"
  PROVE ShmInv'
<1> USE DEF ShmInv
<1> DEFINE r == client[h].resp
<1>1. /\ r \in 1..Len(resps) /\ Holds(h)
      /\ \A g \in Handles : g # h => ~ Holds(g)
      /\ resps[r].queue # <<>>
      /\ resps' \in Seq(RespRing) /\ Len(resps') = Len(resps)
      /\ UNCHANGED <<names, reqs, dead, daemon, spent, shmFaults>>
  BY Receives
<1>2. /\ client' \in [Handles -> ClientType]
      /\ client'[h].at = "closed" /\ client'[h].got = h /\ client'[h].beats = FALSE
      /\ \A g \in Handles : g # h => client'[g] = client[g]
  BY ReceivedBy DEF ClientAt
<1>3. hb' = NoRecord
  BY <1>1 DEF Receive, RemoveHeartbeat, OwnRecord
<1>4. daemon.at = "close" \/ (daemon.at \in {"open", "failed"} /\ names = NoNames)
  BY <1>1 DEF OneCall, Closing, Asked, OutQueue
<1> HIDE DEF r
<1> USE <1>1, <1>2, <1>3, <1>4
<1>10. ShmType'
  BY DEF ShmType, NoRecord
<1>11. OwnRecord'
  BY ShmConstants DEF OwnRecord, Holds, NoRecord, ShmConstants
<1>12. FreshRecord'
  BY ShmConstants, SMTT(30) DEF FreshRecord, Connecting, NoRecord, ShmConstants
<1>13. NamesLead'
  BY DEF NamesLead, Holds, Early
<1>14. NothingStale'
  BY SMTT(30) DEF NothingStale, NoNames
<1>16. AttachWaits' /\ DiscoverWaits'
  BY DEF AttachWaits, DiscoverWaits, Holds
<1>17. OneCall'
  <2>1. ~ RingOpen'
    BY DEF RingOpen
  <2>2. ASSUME NEW g \in Handles PROVE CallOf(g)'
    <3>1. CallOf(g)
      BY DEF OneCall, CallOf
    <3>3. CASE g = h
      BY <3>3 DEF CallOf, Idle, Ready, Waiting, Closing, Early
    <3>4. CASE g # h
      BY <3>1, <3>4, NoHoldersCall
    <3> QED  BY <3>3, <3>4
  <2> QED  BY <2>1, <2>2 DEF OneCall, CallOf
<1> QED  BY <1>10, <1>11, <1>12, <1>13, <1>14, <1>16, <1>17 DEF ShmInv

\* A step of the daemon leaves the record and the handles alone.
LEMMA RecordKept ==
  ASSUME OwnRecord, FreshRecord, UNCHANGED <<client, hb, spent>>
  PROVE OwnRecord' /\ FreshRecord'
  BY DEF OwnRecord, FreshRecord, Holds, Connecting

DaemonMoved(a) ==
    /\ daemon' \in DaemonType /\ daemon'.at = a
    /\ daemon'.req = daemon.req /\ daemon'.resp = daemon.resp /\ daemon'.expect = daemon.expect

\* A step that sets where the daemon is.
LEMMA DaemonMoves ==
  ASSUME ShmType, NEW a \in DaemonAt, SetDaemon(a) PROVE DaemonMoved(a)
  BY DEF ShmType, SetDaemon, DaemonMoved, DaemonType

\* open_daemon: the request ring found under the name is attached.
LEMMA AttachReqKeeps ==
  ASSUME ShmConstants, ShmInv, AttachReq PROVE ShmInv'
<1> USE DEF ShmInv
<1> DEFINE n == names.req
<1>1. daemon.at = "open" /\ n \in Handles
  BY DEF AttachReq, ShmType
<1>2. /\ daemon' \in DaemonType /\ daemon'.at = "create" /\ daemon'.req = n
      /\ daemon'.resp = daemon.resp /\ daemon'.expect = daemon.expect
  <2>1. daemon \in DaemonType /\ daemon' = [daemon EXCEPT !.at = "create", !.req = n, !.retries = 0]
    BY DEF ShmType, AttachReq
  <2> HIDE DEF n
  <2> QED  BY <1>1, <2>1 DEF DaemonType, DaemonAt
<1>3. /\ reqs' \in [Handles -> ReqRing] /\ reqs'[n].attached
      /\ \A g \in Handles : reqs'[g].queue = reqs[g].queue
      /\ \A g \in Handles : g # n => reqs'[g] = reqs[g]
  <2>1. reqs \in [Handles -> ReqRing] /\ reqs' = [reqs EXCEPT ![n].attached = TRUE]
    BY DEF ShmType, AttachReq
  <2> HIDE DEF n
  <2> QED  BY <1>1, <2>1 DEF ReqRing
<1>4. UNCHANGED <<names, resps, hb, client, dead, spent, shmFaults>>
  BY DEF AttachReq
<1>5. ~ RingOpen /\ ~ RingOpen'
  BY <1>1, <1>2 DEF RingOpen
<1> USE <1>1, <1>2, <1>3, <1>4, <1>5
<1>6. ShmType'
  BY DEF ShmType
<1>7. OwnRecord' /\ FreshRecord'
  BY RecordKept
<1>8. NamesLead'
  BY DEF NamesLead, Holds, Early
<1>9. NothingStale'
  BY DEF NothingStale
<1>10. AttachWaits'
  BY ShmConstants DEF AttachWaits, NamesLead, Holds, ShmConstants
<1>11. DiscoverWaits'
  BY DEF DiscoverWaits
<1>12. ASSUME NEW g \in Handles PROVE CallOf(g)'
  <2>1. CallOf(g) /\ ~ Served(g)
    BY DEF OneCall, CallOf, Served
  <2>2. Idle(g)'
    BY <2>1 DEF CallOf, Idle, Early, InQueue
  <2>3. client[g].at # "ready" /\ client[g].at # "waiting" /\ client[g].at # "closing"
    BY <2>1, ShmConstants, SMTT(30) DEF CallOf, Ready, Waiting, Closing, NoNames, ShmConstants
  <2>4. ASSUME client[g].at = "discover" PROVE ~ reqs'[g].attached
    <3>1. ~ reqs[g].attached
      BY <2>1, <2>4 DEF CallOf, Ready
    <3> QED  BY <2>4, <3>1 DEF DiscoverWaits
  <2> QED  BY <2>2, <2>3, <2>4 DEF CallOf, Ready, Waiting, Closing
<1> QED  BY <1>6, <1>7, <1>8, <1>9, <1>10, <1>11, <1>12 DEF ShmInv, OneCall, CallOf

\* serve_prefix: no request ring within the attach timeout.
LEMMA OpenRetryKeeps ==
  ASSUME ShmConstants, ShmInv, OpenRetry PROVE ShmInv'
<1> USE DEF ShmInv
<1>1. daemon.at = "open" /\ UNCHANGED <<names, reqs, resps, hb, client, dead, spent, shmFaults>>
  BY DEF OpenRetry
<1>2. /\ daemon' \in DaemonType /\ daemon'.at \in {"open", "failed"} /\ daemon'.req = daemon.req
      /\ daemon'.resp = daemon.resp /\ daemon'.expect = daemon.expect
  <2> DEFINE a == IF daemon.retries + 1 >= MaxOpenRetries THEN "failed" ELSE daemon.at
         m == daemon.retries + 1
  <2>1. daemon \in DaemonType /\ daemon' = [daemon EXCEPT !.retries = m, !.at = a]
    BY DEF ShmType, OpenRetry
  <2>2. a \in {"open", "failed"} /\ a \in DaemonAt
    BY <1>1 DEF DaemonAt
  <2>3. m \in Nat
    BY <2>1, SMTT(30) DEF DaemonType
  <2> HIDE DEF a, m
  <2> QED  BY <2>1, <2>2, <2>3 DEF DaemonType
<1>3. ~ RingOpen /\ ~ RingOpen'
  BY <1>1, <1>2 DEF RingOpen
<1> USE <1>1, <1>2, <1>3
<1>4. ShmType'
  BY DEF ShmType
<1>5. OwnRecord' /\ FreshRecord'
  BY RecordKept
<1>6. NamesLead'
  BY DEF NamesLead, Holds, Early
<1>7. NothingStale' /\ AttachWaits' /\ DiscoverWaits'
  BY DEF NothingStale, AttachWaits, DiscoverWaits
<1>8. ASSUME NEW g \in Handles PROVE CallOf(g)'
  <2>1. CallOf(g) /\ ~ Served(g)
    BY DEF OneCall, CallOf, Served
  <2> QED  BY <2>1 DEF CallOf, Idle, Early, InQueue, Ready, Waiting, Closing, Answered, OutQueue
<1> QED  BY <1>4, <1>5, <1>6, <1>7, <1>8 DEF ShmInv, OneCall, CallOf

\* open_daemon: a new response ring takes the name.
LEMMA CreateRespKeeps ==
  ASSUME ShmConstants, ShmInv, CreateResp PROVE ShmInv'
<1> USE DEF ShmInv
<1> DEFINE n == Len(resps) + 1
<1>1. daemon.at = "create" /\ UNCHANGED <<reqs, hb, client, dead, spent, shmFaults>>
  BY DEF CreateResp
<1>2. n \in Nat /\ n # NoRing /\ Len(resps) \in Nat /\ n = Len(resps) + 1
  BY SMTT(30) DEF ShmType, NoRing
<1>3. /\ resps' \in Seq(RespRing) /\ Len(resps') = n
      /\ ~ resps'[n].attached /\ resps'[n].queue = <<>>
  <2> DEFINE e == [attached |-> FALSE, queue |-> <<>>]
  <2>1. resps \in Seq(RespRing) /\ resps' = Append(resps, e)
    BY DEF ShmType, CreateResp
  <2>2. e \in RespRing /\ ~ e.attached /\ e.queue = <<>>
    BY SMTT(30) DEF RespRing
  <2> HIDE DEF e
  <2>3. resps' \in Seq(RespRing) /\ Len(resps') = n /\ resps'[n] = e
    BY <2>1, <2>2, SMTT(30)
  <2> QED  BY <2>2, <2>3
<1>4. /\ names' \in [req : Handles \cup {NoHandle}, resp : Nat]
      /\ names'.req = names.req /\ names'.resp = n
  <2>1. names' = [names EXCEPT !.resp = n]
    BY DEF CreateResp
  <2> HIDE DEF n
  <2> QED  BY <1>2, <2>1 DEF ShmType
<1>5. /\ daemon' \in DaemonType /\ daemon'.at = "discover" /\ daemon'.req = daemon.req
      /\ daemon'.resp = n /\ daemon'.expect = daemon.expect
  <2>1. daemon \in DaemonType /\ daemon' = [daemon EXCEPT !.at = "discover", !.resp = n]
    BY DEF ShmType, CreateResp
  <2> HIDE DEF n
  <2> QED  BY <1>2, <2>1 DEF DaemonType, DaemonAt
<1> HIDE DEF n
<1> USE <1>1, <1>2, <1>3, <1>4, <1>5
<1>6. RingOpen' /\ resps'[daemon'.resp].queue = <<>>
  BY DEF RingOpen
<1>7. ShmType'
  BY DEF ShmType
<1>8. OwnRecord' /\ FreshRecord'
  BY RecordKept
<1>9. NamesLead'
  BY SMTT(30) DEF NamesLead, Holds, Early
<1>10. NothingStale' /\ AttachWaits' /\ DiscoverWaits'
  BY <1>6 DEF NothingStale, AttachWaits, DiscoverWaits, RingOpen
<1>11. ASSUME NEW g \in Handles PROVE CallOf(g)'
  <2>1. CallOf(g) /\ ~ Served(g)
    BY DEF OneCall, CallOf, Served
  <2> QED  BY <2>1 DEF CallOf, Idle, Early, InQueue, Ready, Waiting, Closing
<1> QED  BY <1>6, <1>7, <1>8, <1>9, <1>10, <1>11 DEF ShmInv, OneCall, CallOf

\* serve_prefix: the record found is that of the handle on the ring.
LEMMA DiscoverClientKeeps ==
  ASSUME ShmConstants, ShmInv, DiscoverClient PROVE ShmInv'
<1> USE DEF ShmInv
<1>1. /\ daemon.at = "discover" /\ resps[daemon.resp].attached
      /\ UNCHANGED <<names, reqs, resps, hb, client, dead, spent, shmFaults>>
  BY DEF DiscoverClient
<1>2. /\ daemon' \in DaemonType /\ daemon'.at = "serve" /\ daemon'.req = daemon.req
      /\ daemon'.resp = daemon.resp /\ daemon'.expect = hb.id
  BY DEF ShmType, DiscoverClient, DaemonType, DaemonAt
<1>3. ~ RingOpen /\ ~ RingOpen'
  BY <1>1, <1>2 DEF RingOpen
<1> USE <1>1, <1>2, <1>3
<1>4. ShmType'
  BY DEF ShmType
<1>5. OwnRecord' /\ FreshRecord'
  BY RecordKept
<1>6. NamesLead'
  BY DEF NamesLead, Holds, Early
<1>7. NothingStale' /\ AttachWaits'
  BY DEF NothingStale, AttachWaits
<1>8. DiscoverWaits'
  BY DEF DiscoverWaits, OwnRecord, Holds
<1>9. ASSUME NEW g \in Handles PROVE CallOf(g)'
  <2>1. CallOf(g)
    BY DEF OneCall, CallOf
  <2>2. Served(g) /\ Holds(g) => Served(g)'
    BY DEF Served, OwnRecord
  <2> QED
    BY <2>1, <2>2
    DEF CallOf, Idle, Early, Holds, InQueue, OutQueue, Ready, Waiting, Closing, Asked, Answered
<1> QED  BY <1>4, <1>5, <1>6, <1>7, <1>8, <1>9 DEF ShmInv, OneCall, CallOf

\* serve_prefix: no client within the attach timeout, so none has the ring.
LEMMA DiscoverTimeoutKeeps ==
  ASSUME ShmConstants, ShmInv, DiscoverTimeout PROVE ShmInv'
<1> USE DEF ShmInv
<1>1. /\ daemon.at = "discover" /\ RingOpen
      /\ UNCHANGED <<names, reqs, resps, hb, client, dead, spent, shmFaults>>
  BY DEF DiscoverTimeout, Quiet, RingOpen
<1>2. DaemonMoved("open")
  BY DaemonMoves DEF DiscoverTimeout, DaemonAt
<1>3. \A g \in Handles :
        /\ client[g].at \notin {"beat", "create"}
        /\ client[g].at = "attach" => names.resp = NoRing
  BY DEF DiscoverTimeout, Quiet
<1>4. ~ RingOpen'
  BY <1>2 DEF RingOpen, DaemonMoved
<1> USE <1>1, <1>2, <1>3, <1>4 DEF DaemonMoved
<1>5. ShmType'
  BY DEF ShmType
<1>6. OwnRecord' /\ FreshRecord'
  BY RecordKept
<1>7. NamesLead'
  BY DEF NamesLead, Holds, Early
<1>8. NothingStale'
  BY DEF NothingStale
<1>9. AttachWaits' /\ DiscoverWaits'
  BY DEF AttachWaits, DiscoverWaits, RingOpen
<1>10. ASSUME NEW g \in Handles PROVE CallOf(g)'
  <2>1. CallOf(g) /\ ~ Served(g)
    BY DEF OneCall, CallOf, Served, RingOpen
  <2> QED  BY <2>1 DEF CallOf, Idle, Early, InQueue, Ready, Waiting, Closing
<1> QED  BY <1>4, <1>5, <1>6, <1>7, <1>8, <1>9, <1>10 DEF ShmInv, OneCall, CallOf

\* process_available: the one request of the handle is answered to it.
LEMMA ServeKeeps ==
  ASSUME ShmConstants, ShmInv, ServeRequest PROVE ShmInv'
<1> USE DEF ShmInv
<1> DEFINE d == daemon.req
           req == Head(reqs[d].queue)
           a == IF req.op = "CLOSE" THEN "close" ELSE "serve"
<1>1. daemon.at = "serve" /\ d \in Handles /\ reqs[d].queue # <<>> /\ daemon.resp \in 1..Len(resps)
  BY SMTT(30) DEF ServeRequest, NamesLead, NoRing
<1>2. req \in Requests /\ reqs[d].queue \in Seq(Requests)
  BY <1>1, SMTT(30) DEF ShmType, ReqRing
<1>3. UNCHANGED <<names, hb, client, dead, spent, shmFaults>>
  BY DEF ServeRequest
<1>4. DaemonMoved(a) /\ a \in {"close", "serve"}
  BY DaemonMoves DEF ServeRequest, DaemonAt
<1>5. /\ reqs' \in [Handles -> ReqRing] /\ reqs'[d].queue = Tail(reqs[d].queue)
      /\ \A g \in Handles : reqs'[g].attached = reqs[g].attached
      /\ \A g \in Handles : g # d => reqs'[g] = reqs[g]
  <2> DEFINE q == Tail(reqs[d].queue)
  <2>1. reqs \in [Handles -> ReqRing] /\ q \in Seq(Requests) /\ reqs' = [reqs EXCEPT ![d].queue = q]
    BY <1>1, <1>2, SMTT(30) DEF ShmType, ServeRequest
  <2> HIDE DEF q, d
  <2>2. /\ reqs' \in [Handles -> ReqRing] /\ reqs'[d].queue = q
        /\ \A g \in Handles : reqs'[g].attached = reqs[g].attached
        /\ \A g \in Handles : g # d => reqs'[g] = reqs[g]
    BY <1>1, <2>1, RequestQueued, SMTT(30)
  <2> QED  BY <2>2 DEF q
<1>6. /\ resps' \in Seq(RespRing) /\ Len(resps') = Len(resps)
      /\ \A j \in 1..Len(resps) : resps'[j].attached = resps[j].attached
      /\ resps'[daemon.resp].queue = Append(resps[daemon.resp].queue, [id |-> req.id, from |-> req.from])
  <2> DEFINE r == daemon.resp
             q == Append(resps[r].queue, [id |-> req.id, from |-> req.from])
  <2>1. resps \in Seq(RespRing) /\ resps' = [resps EXCEPT ![r].queue = q] /\ r \in 1..Len(resps)
    BY <1>1 DEF ShmType, ServeRequest
  <2>2. [id |-> req.id, from |-> req.from] \in Answers
    BY <1>2 DEF Requests, Answers
  <2>3. resps[r].queue \in Seq(Answers)
    <3>1. resps[r] \in RespRing
      BY <2>1, ElementOfSeq
    <3> QED  BY <3>1 DEF RespRing
  <2>4. q \in Seq(Answers)
    BY <2>2, <2>3, SMTT(30)
  <2> HIDE DEF q, r
  <2>5. /\ resps' \in Seq(RespRing) /\ Len(resps') = Len(resps)
        /\ resps'[r].attached = resps[r].attached /\ resps'[r].queue = q
        /\ \A j \in 1..Len(resps) : j # r => resps'[j] = resps[j]
    BY <2>1, <2>4, RingTaken
  <2>6. \A j \in 1..Len(resps) : resps'[j].attached = resps[j].attached
    BY <2>5
  <2> QED  BY <2>5, <2>6 DEF q, r
<1>7. ~ RingOpen /\ ~ RingOpen'
  BY <1>1, <1>4 DEF RingOpen, DaemonMoved
<1>8. a = "close" <=> req.op = "CLOSE"
  OBVIOUS
<1> HIDE DEF d, req, a
<1> USE <1>1, <1>3, <1>4, <1>5, <1>6, <1>7 DEF DaemonMoved
<1>9. ShmType'
  BY DEF ShmType
<1>10. OwnRecord' /\ FreshRecord'
  BY RecordKept
<1>11. NamesLead'
  BY DEF NamesLead, Holds, Early
<1>12. NothingStale' /\ AttachWaits'
  BY DEF NothingStale, AttachWaits
<1>13. DiscoverWaits'
  BY DEF DiscoverWaits
<1>14. ASSUME NEW g \in Handles PROVE CallOf(g)'
  <2>1. CallOf(g)
    BY DEF OneCall, CallOf
  <2>2. CASE g # d
    <3>1. ~ Served(g)
      BY <2>2 DEF Served, d
    <3> QED  BY <2>1, <2>2, <3>1 DEF CallOf, Idle, Early, InQueue, Ready, Waiting, Closing
  <2>3. CASE g = d
    <3>1. InQueue(g) # <<>>
      BY <2>3 DEF InQueue
    <3>2. client[g].at \notin {"new", "unlink", "beat", "create", "attach", "discover", "ready"}
      BY <2>1, <3>1 DEF CallOf, Idle, Early
    <3>3. Idle(g)' /\ Ready(g)'
      BY <2>1, <3>2 DEF CallOf, Idle, Early, Ready
    <3>4. ASSUME NEW op, Served(g), Asked(g, op) PROVE Answered(g)' /\ InQueue(g)' = <<>> /\ req.op = op
      <4>1. req = [op |-> op, id |-> client[g].calls, from |-> g] /\ Tail(reqs[g].queue) = <<>>
        BY <2>3, <3>4, SMTT(30) DEF Asked, InQueue, req
      <4>2. resps[daemon.resp].queue = <<>> /\ client[g].resp = daemon.resp
        BY <3>4 DEF Asked, OutQueue, Served
      <4>3. resps'[daemon.resp].queue = <<[id |-> client[g].calls, from |-> g]>>
        BY <4>1, <4>2, SMTT(30)
      <4> QED  BY <2>3, <4>1, <4>2, <4>3 DEF Answered, InQueue, OutQueue
    <3>5. Waiting(g)'
      <4>1. SUFFICES ASSUME client[g].at = "waiting" PROVE Served(g)' /\ InQueue(g)' = <<>> /\ Answered(g)'
        BY DEF Waiting
      <4>2. Served(g) /\ Asked(g, "CALL")
        BY <2>1, <3>1, <4>1 DEF CallOf, Waiting
      <4>3. Answered(g)' /\ InQueue(g)' = <<>> /\ a = "serve"
        BY <3>4, <4>2, <1>8, SMTT(30)
      <4>4. Served(g)'
        BY <4>2, <4>3 DEF Served
      <4> QED  BY <4>3, <4>4
    <3>6. Closing(g)'
      <4>1. SUFFICES ASSUME client[g].at = "closing" PROVE Answered(g)' /\ daemon'.at = "close"
        BY DEF Closing
      <4>2. Served(g) /\ Asked(g, "CLOSE")
        BY <2>1, <4>1 DEF CallOf, Closing
      <4> QED  BY <3>4, <4>2, <1>8
    <3> QED  BY <3>3, <3>5, <3>6 DEF CallOf
  <2> QED  BY <2>2, <2>3
<1> QED  BY <1>9, <1>10, <1>11, <1>12, <1>13, <1>14 DEF ShmInv, OneCall, CallOf

\* serve_prefix: after a CLOSE the names go.
LEMMA ClientClosedKeeps ==
  ASSUME ShmConstants, ShmInv, ClientClosed PROVE ShmInv'
<1> USE DEF ShmInv
<1>1. /\ daemon.at = "close" /\ names' = NoNames
      /\ UNCHANGED <<reqs, resps, hb, client, dead, spent, shmFaults>>
  BY DEF ClientClosed, CleanupPrefixSegments
<1>2. DaemonMoved("open")
  BY DaemonMoves DEF ClientClosed, DaemonAt
<1>3. ~ RingOpen /\ ~ RingOpen'
  BY <1>1, <1>2 DEF RingOpen, DaemonMoved
<1> USE <1>1, <1>2, <1>3 DEF DaemonMoved
<1>4. ShmType'
  BY DEF ShmType, NoNames, NoRing
<1>5. OwnRecord' /\ FreshRecord'
  BY RecordKept
<1>6. NamesLead'
  BY ShmConstants DEF NamesLead, Holds, Early, NoNames, ShmConstants
<1>7. NothingStale'
  BY DEF NothingStale, NoNames
<1>8. AttachWaits' /\ DiscoverWaits'
  BY ShmConstants DEF AttachWaits, DiscoverWaits, NoNames, ShmConstants
<1>9. ASSUME NEW g \in Handles PROVE CallOf(g)'
  <2>1. CallOf(g) /\ ~ Served(g)
    BY DEF OneCall, CallOf, Served
  <2> QED  BY <2>1 DEF CallOf, Idle, Early, InQueue, Ready, Waiting, Closing, Answered, OutQueue
<1> QED  BY <1>3, <1>4, <1>5, <1>6, <1>7, <1>8, <1>9 DEF ShmInv, OneCall, CallOf

\* The monitor finds nothing wrong with the record of the handle it watches.
LEMMA PollKeeps ==
  ASSUME ShmConstants, ShmInv, PollHeartbeat PROVE ShmInv'
<1> USE DEF ShmInv
<1>1. /\ daemon.at = "serve" /\ daemon.req \in Handles /\ InQueue(daemon.req) = <<>>
      /\ names' \in {names, NoNames}
      /\ UNCHANGED <<reqs, resps, hb, client, dead, spent, shmFaults>>
  BY DEF PollHeartbeat, CleanupPrefixSegments, NamesLead, InQueue
<1>2. DaemonMoved("open")
  BY DaemonMoves DEF PollHeartbeat, DaemonAt
<1>3. ~ RingOpen /\ ~ RingOpen'
  BY <1>1, <1>2 DEF RingOpen, DaemonMoved
<1>4. ASSUME NEW g \in Handles, Holds(g) PROVE daemon.expect # g
  <2>1. hb.id = g /\ hb # NoRecord
    BY <1>4, ShmConstants, SMTT(30) DEF OwnRecord, NoRecord, ShmConstants
  <2>2. ~ RecordIsStale
    BY ShmConstants, SMTT(30) DEF RecordIsStale, FreshRecord, ShmType, ShmConstants
  <2> QED  BY <2>1, <2>2 DEF PollHeartbeat, ReopenReason
<1> USE <1>1, <1>2, <1>3 DEF DaemonMoved
<1>5. ShmType'
  BY SMTT(30) DEF ShmType, NoNames, NoRing
<1>6. OwnRecord' /\ FreshRecord'
  BY RecordKept
<1>7. NamesLead'
  BY ShmConstants, SMTT(30) DEF NamesLead, Holds, Early, NoNames, ShmConstants
<1>8. NothingStale'
  BY SMTT(30) DEF NothingStale, NoNames
<1>9. AttachWaits'
  BY DEF AttachWaits
<1>10. DiscoverWaits'
  BY <1>4, ShmConstants, SMTT(30) DEF DiscoverWaits, NoNames, Holds, ShmConstants
<1>11. ASSUME NEW g \in Handles PROVE CallOf(g)'
  <2>1. CallOf(g)
    BY DEF OneCall, CallOf
  <2>2. Holds(g) => ~ Served(g)
    BY <1>4 DEF Served
  <2> QED  BY <2>1, <2>2 DEF CallOf, Idle, Early, Holds, InQueue, Ready, Waiting, Closing
<1> QED  BY <1>3, <1>5, <1>6, <1>7, <1>8, <1>9, <1>10, <1>11 DEF ShmInv, OneCall, CallOf

\* A daemon that starts finds no ring of its own.
LEMMA DaemonStartKeeps ==
  ASSUME ShmConstants, ShmInv, DaemonStart PROVE ShmInv'
<1> USE DEF ShmInv
<1>1. daemon.at = "down" /\ UNCHANGED <<names, reqs, resps, hb, client, dead, spent, shmFaults>>
  BY DEF DaemonStart
<1>2. DaemonMoved("open")
  BY DaemonMoves DEF DaemonStart, DaemonAt
<1>3. ~ RingOpen /\ ~ RingOpen'
  BY <1>1, <1>2 DEF RingOpen, DaemonMoved
<1> USE <1>1, <1>2, <1>3 DEF DaemonMoved
<1>4. ShmType'
  BY DEF ShmType
<1>5. OwnRecord' /\ FreshRecord'
  BY RecordKept
<1>6. NamesLead'
  BY DEF NamesLead, Holds, Early
<1>7. NothingStale' /\ AttachWaits' /\ DiscoverWaits'
  BY DEF NothingStale, AttachWaits, DiscoverWaits
<1>8. ASSUME NEW g \in Handles PROVE CallOf(g)'
  <2>1. CallOf(g) /\ ~ Served(g)
    BY DEF OneCall, CallOf, Served
  <2> QED  BY <2>1 DEF CallOf, Idle, Early, InQueue, Ready, Waiting, Closing
<1> QED  BY <1>3, <1>4, <1>5, <1>6, <1>7, <1>8 DEF ShmInv, OneCall, CallOf

\* A client or a daemon that dies, a daemon that is stopped and a call that is
\* given up are counted, and nothing else is.
FaultStep ==
    \/ DaemonCrash \/ ShutdownExit
    \/ \E h \in Handles : CallTimeout(h) \/ ClientCrash(h)

\* Every step without a fault keeps the invariant.
LEMMA CalmStep ==
  ASSUME ShmConstants, ShmInv, ShmNext, ~ FaultStep PROVE ShmInv'
<1>1. CASE DaemonStep
  BY <1>1, AttachReqKeeps, OpenRetryKeeps, CreateRespKeeps, DiscoverClientKeeps, DiscoverTimeoutKeeps,
     ServeKeeps, ClientClosedKeeps, PollKeeps DEF DaemonStep
<1>2. CASE DaemonStart \/ Tick
  BY <1>2, DaemonStartKeeps, TickKeeps
<1>3. ASSUME NEW h \in Handles, ClientStep(h) PROVE ShmInv'
  <2>1. CASE Receive(h)
    <3>1. client[h].at \in {"waiting", "closing"}
      BY <2>1 DEF Receive
    <3> QED  BY <2>1, <3>1, AnswerKeeps, CloseKeeps
  <2> QED
    BY <1>3, <2>1, ReadKeeps, ClearKeeps, BeatKeeps, CreateReqKeeps, AttachRespKeeps,
       DiscoverDaemonKeeps, ConnectTimeoutKeeps, ThreadBeatKeeps DEF ClientStep
<1>4. ASSUME NEW h \in Handles, Call(h) PROVE ShmInv'
  <2>1. client[h].at = "ready" /\ Publish(h, "CALL") /\ SetClient(h, "waiting")
    BY <1>4 DEF Call
  <2>2. UNCHANGED <<names, resps, hb, dead, daemon, spent, shmFaults>>
    BY <1>4 DEF Call
  <2> QED  BY <2>1, <2>2, AskKeeps
<1>5. ASSUME NEW h \in Handles, DropHandle(h) PROVE ShmInv'
  <2>1. client[h].at = "ready" /\ Publish(h, "CLOSE") /\ SetClient(h, "closing")
    BY <1>5 DEF DropHandle
  <2>2. UNCHANGED <<names, resps, hb, dead, daemon, spent, shmFaults>>
    BY <1>5 DEF DropHandle
  <2> QED  BY <2>1, <2>2, AskKeeps
<1> QED  BY <1>1, <1>2, <1>3, <1>4, <1>5 DEF ShmNext, FaultStep

\* A fault is never taken back.
LEMMA FaultsCounted ==
  ASSUME shmFaults \in Nat, ShmNext
  PROVE shmFaults' \in Nat /\ (shmFaults' = 0 => shmFaults = 0 /\ ~ FaultStep)
<1>1. CASE FaultStep
  <2>1. shmFaults' = shmFaults + 1
    BY <1>1 DEF FaultStep, DaemonCrash, ShutdownExit, CallTimeout, ClientCrash, ShmFault
  <2> QED  BY <2>1, SMTT(30)
<1>2. CASE ~ FaultStep
  <2>1. CASE DaemonStep
    BY <2>1, <1>2 DEF DaemonStep, AttachReq, OpenRetry, CreateResp, DiscoverClient, DiscoverTimeout,
       ServeRequest, ClientClosed, PollHeartbeat
  <2>2. CASE DaemonStart \/ Tick
    BY <2>2, <1>2 DEF DaemonStart, Tick
  <2>3. ASSUME NEW h \in Handles, ClientStep(h) \/ Call(h) \/ DropHandle(h) PROVE shmFaults' = shmFaults
    BY <2>3 DEF ClientStep, AcquireRead, AcquireClear, AcquireBeat, CreateReq, AttachResp,
       DiscoverDaemon, ConnectTimeout, Beat, Receive, Call, DropHandle
  <2> QED  BY <1>2, <2>1, <2>2, <2>3 DEF ShmNext, FaultStep
<1> QED  BY <1>1, <1>2

\* The invariant is claimed until the first fault.
CalmInv == shmFaults \in Nat /\ (shmFaults = 0 => ShmInv)

\* The inductive invariant.
LEMMA CalmInductive ==
  ASSUME ShmConstants PROVE (ShmInit => CalmInv) /\ (CalmInv /\ [ShmNext]_shmVars => CalmInv')
<1>1. ShmInit => CalmInv
  BY ShmStart, SMTT(30) DEF CalmInv, ShmInit
<1>2. ASSUME CalmInv, ShmNext PROVE CalmInv'
  BY <1>2, CalmStep, FaultsCounted DEF CalmInv
<1>3. ASSUME CalmInv, UNCHANGED shmVars PROVE CalmInv'
  <2>1. ShmType => ShmType'
    BY <1>3 DEF shmVars, ShmType
  <2>2. (OwnRecord => OwnRecord') /\ (FreshRecord => FreshRecord')
    BY <1>3, SMTT(30) DEF shmVars, OwnRecord, FreshRecord, Holds, Connecting, Early, RingOpen
  <2>3. NamesLead => NamesLead'
    BY <1>3, SMTT(30) DEF shmVars, NamesLead, Holds, Connecting, Early, RingOpen
  <2>4. NothingStale /\ AttachWaits /\ DiscoverWaits => NothingStale' /\ AttachWaits' /\ DiscoverWaits'
    BY <1>3 DEF shmVars, NothingStale, AttachWaits, DiscoverWaits, Early, Holds, Connecting, RingOpen
  <2>5. \A h \in Handles : (Idle(h) => Idle(h)') /\ (Ready(h) => Ready(h)')
    BY <1>3 DEF shmVars, Idle, Ready, Served, InQueue, OutQueue, Early
  <2>6. \A h \in Handles : (Waiting(h) => Waiting(h)') /\ (Closing(h) => Closing(h)')
    BY <1>3 DEF shmVars, Waiting, Closing, Served, Asked, Answered, InQueue, OutQueue
  <2>7. OneCall => OneCall'
    BY <1>3, <2>5, <2>6 DEF shmVars, OneCall, RingOpen
  <2> QED  BY <1>3, <2>1, <2>2, <2>3, <2>4, <2>7 DEF CalmInv, ShmInv, shmVars
<1> QED  BY <1>1, <1>2, <1>3

-----------------------------------------------------------------------------
\* The daemon does not leave a connected client that lives: as long as nothing
\* crashes, times out or is told to stop, every handle that is ready or waits
\* for an answer has the daemon's worker on its own request ring, whatever
\* handles came before it and however many try to get in (ShmSession's
\* RingsKept; HeartbeatMonitor::poll_reopen_reason and acquire).
THEOREM RingsKeptHolds == ASSUME ShmConstants PROVE ShmSpec => []RingsKept
<1>1. CalmInv => RingsKept
  BY DEF CalmInv, ShmInv, OneCall, Ready, Waiting, Served, Connected, RingsKept
<1> QED  BY <1>1, CalmInductive, PTL DEF ShmSpec

\* Until the first fault a call gets the answer to its own request, although
\* every handle counts its request ids from zero (round_trip). With faults
\* this is only checked for two handles.
THEOREM CalmAnswersMine == ASSUME ShmConstants PROVE ShmSpec => [](shmFaults = 0 => AnswersMine)
<1>1. CalmInv => (shmFaults = 0 => AnswersMine)
  BY DEF CalmInv, ShmInv, OneCall, Idle, AnswersMine
<1> QED  BY <1>1, CalmInductive, PTL DEF ShmSpec
=============================================================================
