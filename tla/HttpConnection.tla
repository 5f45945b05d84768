--------------------------- MODULE HttpConnection ---------------------------
(***************************************************************************)
(* One HTTP connection of the daemon, byte runs for bytes: a peer sends    *)
(* requests, perhaps several before it reads an answer; the stream arrives *)
(* in chunks of any size; the connection task keeps one buffer across      *)
(* keep-alive requests, finds heads in it, reads bodies and answers.       *)
(* A head is two runs, the second ending in the blank line; a body is      *)
(* BodyRuns runs that hold one envelope.                                   *)
(***************************************************************************)
EXTENDS Naturals, Sequences, FiniteSets

CONSTANTS
    Kinds,      \* the requests a peer may send
    BodyRuns,   \* runs of a body
    MaxSent,    \* bound: requests of the peer
    MaxChunk    \* most runs one read returns

\* A request: its route, whether it announces a length and one within
\* MAX_BODY_BYTES, whether a body follows and its envelope decodes, and
\* whether it wants the connection kept.
ASSUME HttpAssumption ==
    /\ Kinds \subseteq [route : {"rpc", "ping", "other"}, length : {"ok", "none", "huge"},
                        body : BOOLEAN, decodes : BOOLEAN, keepAlive : BOOLEAN]
    /\ {BodyRuns, MaxSent, MaxChunk} \subseteq Nat

VARIABLES
    sent,       \* the requests, in the order the peer sent them
    wire,       \* runs on their way to the daemon
    buf,        \* the connection's accumulator
    serving,       \* where the connection task is, and in which request
    replies,    \* answers on their way back
    got,        \* what the peer made of the answers it read
    executed    \* requests that went to the dispatch pool

httpVars == <<sent, wire, buf, serving, replies, got, executed>>

HeadRuns(i) == <<[req |-> i, part |-> "head"], [req |-> i, part |-> "end"]>>
BodyOf(i) == [n \in 1..BodyRuns |-> [req |-> i, part |-> "body"]]
AtHead == [at |-> "head", req |-> 0]

HttpInit ==
    /\ sent = <<>> /\ wire = <<>> /\ buf = <<>>
    /\ serving = AtHead
    /\ replies = <<>> /\ got = <<>> /\ executed = <<>>

\* HttpKvClient::roundtrip writes a head and a body; other peers may pipeline.
SendRequest(kind) ==
    /\ Len(sent) < MaxSent /\ serving.at # "closed"
    /\ sent' = Append(sent, kind)
    /\ wire' = wire \o HeadRuns(Len(sent'))
                    \o (IF kind.body THEN BodyOf(Len(sent')) ELSE <<>>)
    /\ UNCHANGED <<buf, serving, replies, got, executed>>

Head1 == CHOOSE n \in 1..Len(buf) :
            buf[n].part = "end" /\ \A k \in 1..n - 1 : buf[k].part # "end"
HasHead == \E n \in 1..Len(buf) : buf[n].part = "end"

Fill(n) == buf' = buf \o SubSeq(wire, 1, n) /\ wire' = SubSeq(wire, n + 1, Len(wire))

\* Faulty variant: the buffer is searched only after a read.
FindHeadAfterRead ==
    /\ serving.at = "head" /\ wire # <<>>
    /\ LET b == buf \o wire IN
        /\ \E n \in 1..Len(b) : b[n].part = "end"
        /\ LET h == CHOOSE n \in 1..Len(b) :
                        b[n].part = "end" /\ \A k \in 1..n - 1 : b[k].part # "end" IN
            /\ buf' = SubSeq(b, h + 1, Len(b))
            /\ serving' = [at |-> "route", req |-> b[1].req]
    /\ wire' = <<>>
    /\ UNCHANGED <<sent, replies, got, executed>>

\* read_compio_until_double_crlf: a head already in the buffer needs no read.
\* What precedes the blank line is the head of a request, or has the rest of
\* another in front, and then it is malformed or names no route.
FindHead ==
    /\ serving.at = "head" /\ HasHead
    /\ buf' = SubSeq(buf, Head1 + 1, Len(buf))
    /\ IF Head1 = 2
       THEN serving' = [at |-> "route", req |-> buf[1].req]
       ELSE \E at \in {"closed", "unknown"} : serving' = [at |-> at, req |-> 0]
    /\ UNCHANGED <<sent, wire, replies, got, executed>>

ReadHead ==
    /\ serving.at = "head" /\ ~ HasHead
    /\ \E n \in 1..MaxChunk : n <= Len(wire) /\ Fill(n)
    /\ UNCHANGED <<sent, serving, replies, got, executed>>

\* write_compio_response, and what the route does with the connection then.
Respond(status, req, keep) ==
    /\ replies' = Append(replies, [status |-> status, req |-> req])
    /\ serving' = IF keep THEN AtHead ELSE [at |-> "closed", req |-> 0]

\* process_compio_http_route up to the body: PING and unknown routes answer at
\* once; the length is required and capped.
Route ==
    /\ serving.at = "route"
    /\ LET kind == sent[serving.req] IN
        CASE kind.route = "ping" -> Respond(200, serving.req, kind.keepAlive)
          [] kind.route = "other" -> Respond(404, serving.req, kind.keepAlive)
          [] kind.route = "rpc" /\ kind.length = "none" -> Respond(411, serving.req, FALSE)
          [] kind.route = "rpc" /\ kind.length = "huge" -> Respond(413, serving.req, FALSE)
          [] OTHER -> serving' = [serving EXCEPT !.at = "body"] /\ UNCHANGED replies
    /\ UNCHANGED <<sent, wire, buf, got, executed>>

UnknownRoute ==
    /\ serving.at = "unknown"
    /\ \E keep \in BOOLEAN : Respond(404, 0, keep)
    /\ UNCHANGED <<sent, wire, buf, got, executed>>

\* The body: no read asks for more than is missing.
ReadBody ==
    /\ serving.at = "body" /\ Len(buf) < BodyRuns
    /\ \E n \in 1..MaxChunk : n <= Len(wire) /\ n <= BodyRuns - Len(buf) /\ Fill(n)
    /\ UNCHANGED <<sent, serving, replies, got, executed>>

\* Faulty variant: the body is taken with everything behind it.
DecodeBodyClear ==
    /\ serving.at = "body" /\ Len(buf) >= BodyRuns
    /\ IF SubSeq(buf, 1, BodyRuns) = BodyOf(serving.req) /\ sent[serving.req].decodes
       THEN /\ buf' = <<>>
            /\ executed' = Append(executed, serving.req)
            /\ Respond(200, serving.req, sent[serving.req].keepAlive)
       ELSE /\ serving' = [at |-> "closed", req |-> 0]
            /\ UNCHANGED <<buf, executed, replies>>
    /\ UNCHANGED <<sent, wire, got>>

\* decode_envelope, dispatch, answer; what does not decode ends the connection
\* without an answer.
DecodeBody ==
    /\ serving.at = "body" /\ Len(buf) >= BodyRuns
    /\ IF SubSeq(buf, 1, BodyRuns) = BodyOf(serving.req) /\ sent[serving.req].decodes
       THEN /\ buf' = SubSeq(buf, BodyRuns + 1, Len(buf))
            /\ executed' = Append(executed, serving.req)
            /\ Respond(200, serving.req, sent[serving.req].keepAlive)
       ELSE /\ serving' = [at |-> "closed", req |-> 0]
            /\ UNCHANGED <<buf, executed, replies>>
    /\ UNCHANGED <<sent, wire, got>>

\* read_response_head and the rest of roundtrip: a status that is not 200 is an
\* error, and so is a 200 whose body is no envelope.
ReadReply ==
    /\ replies # <<>>
    /\ got' = Append(got, Head(replies))
    /\ replies' = Tail(replies)
    /\ UNCHANGED <<sent, wire, buf, serving, executed>>

TaskStep == FindHead \/ ReadHead \/ Route \/ UnknownRoute \/ ReadBody \/ DecodeBody

HttpNext == TaskStep \/ ReadReply \/ \E kind \in Kinds : SendRequest(kind)

HttpFairness == WF_httpVars(TaskStep) /\ WF_httpVars(ReadReply)

HttpSpec == HttpInit /\ [][HttpNext]_httpVars /\ HttpFairness

-----------------------------------------------------------------------------
\* The whole of a request's body is read by its route.
BodyDrained(i) == sent[i].body => sent[i].route = "rpc"

\* An answer is for its request, and a 200 of the rpc route ran it once.
Matches(i) ==
    /\ got[i].req = i
    /\ got[i].status = 200 => sent[i].route = "ping" \/ Cardinality({n \in 1..Len(executed) : executed[n] = i}) = 1

\* The answers come in the order of the requests, one to one: however the
\* stream is cut into chunks, no byte of one request is taken for another's. A
\* route that takes no body leaves one it was sent in the buffer, and then
\* nothing is promised of the requests behind it.
AnswersInOrder ==
    \A i \in 1..Len(got) : (\A j \in 1..i - 1 : BodyDrained(j)) => Matches(i)

\* The same with nothing excepted: Content-Length frames every request.
AnswersAlwaysInOrder == \A i \in 1..Len(got) : Matches(i)

\* Every request is answered, or the connection is closed: a request that is
\* already in the buffer does not wait for the peer to send more.
RequestsAnswered ==
    \A i \in 1..MaxSent : (Len(sent) >= i) ~> (Len(got) >= i \/ serving.at = "closed")
=============================================================================
