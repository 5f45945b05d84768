---------------------------- MODULE HttpProofs ----------------------------
(***************************************************************************)
(* The answers of an HTTP connection come in order, for any number of      *)
(* requests, of any kinds, and any cut of the stream into chunks. What is  *)
(* buffered or on the wire is a sequence of whole requests from the one in *)
(* hand on, and what was already answered is behind it.                    *)
(***************************************************************************)
EXTENDS HttpConnection, SequenceTheorems, FiniteSetTheorems, WellFoundedInduction, TLAPS

\* A leaf that names no prover is left to Zenon.
USE ZenonT(30)

Run == [req : Nat, part : {"head", "end", "body"}]
Answer == [status : Nat, req : Nat]

HttpType ==
    /\ sent \in Seq(Kinds) /\ wire \in Seq(Run) /\ buf \in Seq(Run)
    /\ serving \in [at : {"head", "route", "body", "unknown", "closed"}, req : Nat]
    /\ replies \in Seq(Answer) /\ got \in Seq(Answer) /\ executed \in Seq(Nat)

\* What was sent and not yet taken, and the answers, read or not.
Stream == buf \o wire
Answers == got \o replies

\* The runs of request q are complete behind position p, and the next request follows.
BodySize(snt, q) == IF snt[q].body THEN BodyRuns ELSE 0
Continues(S, snt, p, q) ==
    LET b == BodySize(snt, q)
    IN /\ q \in 1..Len(snt)
       /\ p + b <= Len(S)
       /\ \A k \in 1..b : S[p + k] = [req |-> q, part |-> "body"]
       /\ IF p + b = Len(S) THEN q = Len(snt) ELSE S[p + b + 1] = [req |-> q + 1, part |-> "head"]

WellFormed(S, snt) ==
    /\ \A p \in 1..Len(S) :
        /\ S[p].part = "head" =>
             p < Len(S) /\ S[p + 1] = [req |-> S[p].req, part |-> "end"]
        /\ S[p].part = "end" => Continues(S, snt, p, S[p].req)
    /\ \A p, r \in 1..Len(S) : p <= r => S[p].req <= S[r].req

\* The stream begins with request n.
AtRequest(S, snt, n) ==
    IF S = <<>> THEN n = Len(snt) + 1 ELSE S[1] = [req |-> n, part |-> "head"]

\* Every request before i was sent, and its route took its body.
Drained(snt, j) == j \in 1..Len(snt) /\ (snt[j].body => snt[j].route = "rpc")
Clean(snt, i) == \A j \in 1..(i - 1) : Drained(snt, j)

RanOnce(ex, i) == \E m \in 1..Len(ex) : ex[m] = i /\ \A r \in 1..Len(ex) : ex[r] = i => r = m

\* Answer i is the one to request i.
AnswerOK(snt, ex, a, i) ==
    /\ a.req = i /\ i \in 1..Len(snt)
    /\ a.status = 200 => snt[i].route = "ping" \/ (snt[i].route = "rpc" /\ RanOnce(ex, i))

\* The task is where the stream says.
InStep(S, snt, sv, n) ==
    /\ sv.at # "unknown"
    /\ sv.at # "closed" => WellFormed(S, snt)
    /\ sv.at = "head" => AtRequest(S, snt, n)
    /\ sv.at \in {"route", "body"} => sv.req = n /\ Continues(S, snt, 0, n)
    /\ sv.at = "body" => snt[n].route = "rpc"

\* What is still to come is of later requests than i.
Later(S, sv, i) ==
    sv.at # "closed" =>
        /\ \A p \in 1..Len(S) : S[p].req > i
        /\ sv.at \in {"route", "body"} => sv.req > i

OrderOK(S, snt, sv, A, ex) ==
    /\ \A i \in 1..Len(A) : Clean(snt, i) => AnswerOK(snt, ex, A[i], i)
    /\ \A i \in 1..Len(A) : Clean(snt, i + 1) => Later(S, sv, i)
    /\ Clean(snt, Len(A) + 1) =>
         InStep(S, snt, sv, Len(A) + 1) /\ \A m \in 1..Len(ex) : ex[m] <= Len(A)

\* The inductive invariant.
HttpInv ==
    /\ HttpType
    /\ OrderOK(Stream, sent, serving, Answers, executed)
    /\ \A p \in 1..Len(Stream) : Stream[p].req \in 1..Len(sent)
    /\ serving.at \in {"route", "body"} => serving.req \in 1..Len(sent)
-----------------------------------------------------------------------------
\* Requests
LEMMA KindFields ==
  ASSUME NEW snt \in Seq(Kinds), NEW q \in 1..Len(snt)
  PROVE  /\ snt[q].body \in BOOLEAN /\ snt[q].route \in {"rpc", "ping", "other"}
         /\ BodySize(snt, q) \in Nat
  <1>1. snt[q] \in Kinds BY SMTT(30)
  <1>2. snt[q] \in [route : {"rpc", "ping", "other"}, length : {"ok", "none", "huge"},
                    body : BOOLEAN, decodes : BOOLEAN, keepAlive : BOOLEAN]
    BY <1>1, HttpAssumption
  <1>3. BodyRuns \in Nat BY HttpAssumption
  <1> QED BY <1>2, <1>3 DEF BodySize

\* What is clean up to the next request is clean up to this one.
LEMMA CleanNext ==
  ASSUME NEW snt \in Seq(Kinds), NEW n \in Nat
  PROVE  Clean(snt, n + 1) => Clean(snt, n) /\ (n # 0 => Drained(snt, n))
  BY SMTT(30) DEF Clean

\* A drained request makes the next one clean.
LEMMA CleanDrained ==
  ASSUME NEW snt \in Seq(Kinds), NEW n \in Nat, Clean(snt, n), Drained(snt, n)
  PROVE  Clean(snt, n + 1)
  <1>1. \A j \in 1..((n + 1) - 1) : j = n \/ j \in 1..(n - 1) BY SMTT(30)
  <1> QED BY <1>1 DEF Clean

\* What is left of the stream when the first k runs are taken.
Dropped(S, T, k) ==
    k <= Len(S) /\ Len(T) = Len(S) - k /\ \A p \in 1..Len(T) : T[p] = S[p + k]

\* What follows a position follows it when the front is gone.
LEMMA DropContinues ==
  ASSUME NEW S \in Seq(Run), NEW T \in Seq(Run), NEW k \in Nat, Dropped(S, T, k),
         NEW snt \in Seq(Kinds), NEW p \in Nat, NEW q, Continues(S, snt, p + k, q)
  PROVE  Continues(T, snt, p, q)
  <1> DEFINE b == BodySize(snt, q)
  <1>1. q \in 1..Len(snt) /\ b \in Nat BY KindFields DEF Continues
  <1>2. (p + k) + b <= Len(S) /\ p + b <= Len(T) BY <1>1, SMTT(30) DEF Continues, Dropped
  <1>3. ASSUME NEW j \in 1..b PROVE T[p + j] = [req |-> q, part |-> "body"]
    <2>1. p + j \in 1..Len(T) /\ (p + j) + k = (p + k) + j BY <1>1, <1>2, SMTT(30)
    <2>2. T[p + j] = S[(p + k) + j] BY <2>1 DEF Dropped
    <2> QED BY <2>2 DEF Continues
  <1>4. CASE p + b = Len(T)
    <2>1. (p + k) + b = Len(S) BY <1>1, <1>4, SMTT(30) DEF Dropped
    <2> QED BY <1>1, <1>2, <1>3, <1>4, <2>1 DEF Continues
  <1>5. CASE p + b # Len(T)
    <2>1. p + b + 1 \in 1..Len(T) /\ (p + b + 1) + k = (p + k) + b + 1 /\ (p + k) + b # Len(S)
      BY <1>1, <1>2, <1>5, SMTT(30) DEF Dropped
    <2>2. T[p + b + 1] = S[(p + k) + b + 1]
      <3>1. T[p + b + 1] = S[(p + b + 1) + k] BY <2>1 DEF Dropped
      <3> QED BY <2>1, <3>1
    <2> QED BY <1>1, <1>2, <1>3, <1>5, <2>1, <2>2 DEF Continues
  <1> QED BY <1>4, <1>5

\* The rest of a well-formed stream is well formed.
LEMMA DropWellFormed ==
  ASSUME NEW S \in Seq(Run), NEW T \in Seq(Run), NEW k \in Nat, Dropped(S, T, k),
         NEW snt \in Seq(Kinds), WellFormed(S, snt)
  PROVE  WellFormed(T, snt)
  <1>1. \A p \in 1..Len(T) : p + k \in 1..Len(S) /\ T[p] = S[p + k] BY SMTT(30) DEF Dropped
  <1>2. ASSUME NEW p \in 1..Len(T), T[p].part = "head"
        PROVE  p < Len(T) /\ T[p + 1] = [req |-> T[p].req, part |-> "end"]
    <2>1. p + k < Len(S) /\ S[(p + k) + 1] = [req |-> T[p].req, part |-> "end"]
      BY <1>1, <1>2 DEF WellFormed
    <2>2. p < Len(T) /\ p + 1 \in 1..Len(T) /\ (p + 1) + k = (p + k) + 1 BY <2>1, SMTT(30) DEF Dropped
    <2>3. T[p + 1] = S[(p + k) + 1] BY <1>1, <2>2, SMTT(30)
    <2> QED BY <2>1, <2>2, <2>3
  <1>3. ASSUME NEW p \in 1..Len(T), T[p].part = "end"
        PROVE  Continues(T, snt, p, T[p].req)
    <2>1. Continues(S, snt, p + k, T[p].req) BY <1>1, <1>3 DEF WellFormed
    <2> QED BY <2>1, DropContinues, SMTT(30)
  <1>4. ASSUME NEW p \in 1..Len(T), NEW r \in 1..Len(T), p <= r PROVE T[p].req <= T[r].req
    <2>1. p + k <= r + k BY <1>4, SMTT(30)
    <2> QED BY <1>1, <2>1 DEF WellFormed
  <1> QED BY <1>2, <1>3, <1>4 DEF WellFormed

\* The runs of a new request.
RunsOf(kind, m) == HeadRuns(m) \o (IF kind.body THEN BodyOf(m) ELSE <<>>)

\* The runs of a new request: its head, and its body if it has one.
LEMMA NewRuns ==
  ASSUME NEW kind \in Kinds, NEW m \in Nat, NEW b, b = IF kind.body THEN BodyRuns ELSE 0
  PROVE  /\ b \in Nat /\ RunsOf(kind, m) \in Seq(Run) /\ Len(RunsOf(kind, m)) = 2 + b
         /\ RunsOf(kind, m)[1] = [req |-> m, part |-> "head"]
         /\ RunsOf(kind, m)[2] = [req |-> m, part |-> "end"]
         /\ \A k \in 1..b : RunsOf(kind, m)[2 + k] = [req |-> m, part |-> "body"]
  <1>1. BodyRuns \in Nat /\ b \in Nat BY HttpAssumption
  <1> DEFINE h == [req |-> m, part |-> "head"]
             e == [req |-> m, part |-> "end"]
             d == [req |-> m, part |-> "body"]
             B == IF kind.body THEN BodyOf(m) ELSE <<>>
             H == <<h, e>>
  <1>2. h \in Run /\ e \in Run /\ d \in Run BY DEF Run
  <1>3. HeadRuns(m) = H BY DEF HeadRuns
  <1>4. B \in Seq(Run) /\ Len(B) = b /\ \A k \in 1..b : B[k] = d
    <2> HIDE DEF d
    <2>1. BodyOf(m) = [n \in 1..BodyRuns |-> d] BY DEF BodyOf, d
    <2>2. BodyOf(m) \in Seq(Run) /\ Len(BodyOf(m)) = BodyRuns /\ \A k \in 1..BodyRuns : BodyOf(m)[k] = d
      BY <1>1, <1>2, <2>1, SMTT(30)
    <2>3. <<>> \in Seq(Run) /\ Len(<<>>) = 0 BY SMTT(30)
    <2> QED BY <1>1, <2>2, <2>3, SMTT(30)
  <1> HIDE DEF h, e, d, B
  <1>5. H \in Seq(Run) /\ Len(H) = 2 /\ H[1] = h /\ H[2] = e BY <1>2, SMTT(30)
  <1>6. RunsOf(kind, m) = H \o B BY <1>3 DEF RunsOf, B
  <1> HIDE DEF H
  <1>7. H \o B \in Seq(Run) /\ Len(H \o B) = 2 + b /\ (H \o B)[1] = h /\ (H \o B)[2] = e
    <2>1. 1 \in 1..Len(H) + Len(B) /\ 2 \in 1..Len(H) + Len(B) /\ 1 <= Len(H) /\ 2 <= Len(H)
      BY <1>1, <1>4, <1>5, SMTT(30)
    <2>2. H \o B \in Seq(Run) /\ Len(H \o B) = Len(H) + Len(B) BY <1>4, <1>5, ConcatProperties
    <2>3. (H \o B)[1] = H[1] /\ (H \o B)[2] = H[2] BY <2>1, <1>4, <1>5, ConcatProperties
    <2> QED BY <1>4, <1>5, <2>2, <2>3
  <1>8. ASSUME NEW k \in 1..b PROVE (H \o B)[2 + k] = d
    <2>1. 2 + k \in 1..Len(H) + Len(B) /\ ~ (2 + k <= Len(H)) /\ (2 + k) - Len(H) = k
      BY <1>1, <1>4, <1>5, SMTT(30)
    <2>2. (H \o B)[2 + k] = B[(2 + k) - Len(H)] BY <2>1, <1>4, <1>5, ConcatProperties
    <2> QED BY <1>4, <2>1, <2>2
  <1> QED BY <1>1, <1>6, <1>7, <1>8 DEF h, e, d
-----------------------------------------------------------------------------
\* The stream when a request is sent: its runs go to the end.
Extends(S, T, X) ==
    /\ Len(T) = Len(S) + Len(X)
    /\ \A p \in 1..Len(S) : T[p] = S[p]
    /\ \A p \in 1..Len(X) : T[Len(S) + p] = X[p]

\* Concatenation extends.
LEMMA ConcatExtends ==
  ASSUME NEW S \in Seq(Run), NEW X \in Seq(Run)
  PROVE  S \o X \in Seq(Run) /\ Extends(S, S \o X, X)
  <1>1. /\ S \o X \in Seq(Run) /\ Len(S \o X) = Len(S) + Len(X)
        /\ \A p \in 1..Len(S) + Len(X) : (S \o X)[p] = IF p <= Len(S) THEN S[p] ELSE X[p - Len(S)]
    BY ConcatProperties
  <1>2. \A p \in 1..Len(S) : p \in 1..Len(S) + Len(X) /\ p <= Len(S) BY SMTT(30)
  <1>3. \A p \in 1..Len(X) : /\ Len(S) + p \in 1..Len(S) + Len(X) /\ ~ (Len(S) + p <= Len(S))
                             /\ (Len(S) + p) - Len(S) = p
    BY SMTT(30)
  <1>4. \A p \in 1..Len(X) : (S \o X)[Len(S) + p] = X[(Len(S) + p) - Len(S)] BY <1>1, <1>3
  <1> QED BY <1>1, <1>2, <1>3, <1>4 DEF Extends

\* The new request follows the last one.
LEMMA ExtendContinues ==
  ASSUME NEW S \in Seq(Run), NEW T \in Seq(Run), NEW snt \in Seq(Kinds), NEW kind \in Kinds,
         Extends(S, T, RunsOf(kind, Len(snt) + 1)),
         NEW p \in Nat, NEW q, Continues(S, snt, p, q)
  PROVE  Continues(T, Append(snt, kind), p, q)
  <1> DEFINE b == BodySize(snt, q)
             X == RunsOf(kind, Len(snt) + 1)
             snt1 == Append(snt, kind)
  <1>1. q \in 1..Len(snt) /\ b \in Nat /\ p + b <= Len(S) BY KindFields DEF Continues
  <1>2. snt1 \in Seq(Kinds) /\ Len(snt1) = Len(snt) + 1 /\ snt1[q] = snt[q] BY <1>1, SMTT(30)
  <1>3. BodySize(snt1, q) = b BY <1>2 DEF BodySize
  <1>4. Len(X) \in Nat /\ Len(X) >= 2 /\ X[1] = [req |-> Len(snt) + 1, part |-> "head"]
    <2> DEFINE bb == IF kind.body THEN BodyRuns ELSE 0
    <2>1. Len(snt) + 1 \in Nat BY SMTT(30)
    <2>2. bb \in Nat /\ Len(X) = 2 + bb /\ X[1] = [req |-> Len(snt) + 1, part |-> "head"]
      BY <2>1, NewRuns
    <2> QED BY <2>2, SMTT(30)
  <1> HIDE DEF b, X, snt1
  <1>5. Len(T) = Len(S) + Len(X) /\ (\A r \in 1..Len(S) : T[r] = S[r])
        /\ (\A r \in 1..Len(X) : T[Len(S) + r] = X[r])
    BY DEF Extends, X
  <1>6. p + b < Len(T) BY <1>1, <1>4, <1>5, SMTT(30)
  <1>7. ASSUME NEW k \in 1..b PROVE T[p + k] = [req |-> q, part |-> "body"]
    <2>1. p + k \in 1..Len(S) BY <1>1, SMTT(30)
    <2>2. S[p + k] = [req |-> q, part |-> "body"] BY DEF Continues, b
    <2> QED BY <1>5, <2>1, <2>2
  <1>8. T[p + b + 1] = [req |-> q + 1, part |-> "head"]
    <2>1. CASE p + b = Len(S)
      <3>1. q = Len(snt) BY <2>1 DEF Continues, b
      <3>2. T[Len(S) + 1] = X[1] BY <1>4, <1>5, SMTT(30)
      <3> QED BY <1>4, <2>1, <3>1, <3>2
    <2>2. CASE p + b # Len(S)
      <3>1. S[p + b + 1] = [req |-> q + 1, part |-> "head"] BY <2>2 DEF Continues, b
      <3>2. p + b + 1 \in 1..Len(S) BY <1>1, <2>2, SMTT(30)
      <3> QED BY <1>5, <3>1, <3>2
    <2> QED BY <2>1, <2>2
  <1>9. q \in 1..Len(snt1) /\ p + b <= Len(T) /\ p + b # Len(T) BY <1>1, <1>2, <1>4, <1>5, SMTT(30)
  <1> QED BY <1>3, <1>7, <1>8, <1>9 DEF Continues, snt1

\* The stream begins where it began.
LEMMA ExtendAtRequest ==
  ASSUME NEW S \in Seq(Run), NEW T \in Seq(Run), NEW snt \in Seq(Kinds), NEW kind \in Kinds,
         Extends(S, T, RunsOf(kind, Len(snt) + 1)),
         NEW n, AtRequest(S, snt, n)
  PROVE  AtRequest(T, Append(snt, kind), n)
  <1> DEFINE X == RunsOf(kind, Len(snt) + 1)
             bb == IF kind.body THEN BodyRuns ELSE 0
  <1>1. Len(snt) + 1 \in Nat BY SMTT(30)
  <1>2. bb \in Nat /\ Len(X) = 2 + bb /\ X[1] = [req |-> Len(snt) + 1, part |-> "head"]
    BY <1>1, NewRuns
  <1> HIDE DEF X, bb
  <1>3. Len(T) = Len(S) + Len(X) /\ (\A r \in 1..Len(S) : T[r] = S[r])
        /\ (\A r \in 1..Len(X) : T[Len(S) + r] = X[r])
    BY DEF Extends, X
  <1>4. Len(T) # 0 /\ T # <<>> BY <1>2, <1>3, SMTT(30)
  <1>5. CASE S = <<>>
    <2>1. n = Len(snt) + 1 /\ Len(S) = 0 BY <1>5 DEF AtRequest
    <2>2. T[Len(S) + 1] = X[1] BY <1>2, <1>3, SMTT(30)
    <2> QED BY <1>2, <1>4, <2>1, <2>2, SMTT(30) DEF AtRequest
  <1>6. CASE S # <<>>
    <2>1. 1 \in 1..Len(S) BY <1>6, SMTT(30)
    <2> QED BY <1>3, <1>4, <1>6, <2>1 DEF AtRequest
  <1> QED BY <1>5, <1>6

\* A well-formed stream stays so with a request more.
LEMMA ExtendWellFormed ==
  ASSUME NEW S \in Seq(Run), NEW T \in Seq(Run), NEW snt \in Seq(Kinds), NEW kind \in Kinds,
         Extends(S, T, RunsOf(kind, Len(snt) + 1)), WellFormed(S, snt),
         \A p \in 1..Len(S) : S[p].req \in 1..Len(snt)
  PROVE  WellFormed(T, Append(snt, kind))
  <1> DEFINE m == Len(snt) + 1
             X == RunsOf(kind, m)
             bb == IF kind.body THEN BodyRuns ELSE 0
             snt1 == Append(snt, kind)
             L == Len(S)
  <1>1. m \in Nat /\ L \in Nat BY SMTT(30)
  <1>2. /\ bb \in Nat /\ Len(X) = 2 + bb /\ X[1] = [req |-> m, part |-> "head"]
        /\ X[2] = [req |-> m, part |-> "end"]
        /\ \A k \in 1..bb : X[2 + k] = [req |-> m, part |-> "body"]
    BY <1>1, NewRuns
  <1>3. snt1 \in Seq(Kinds) /\ Len(snt1) = m /\ snt1[m] = kind BY SMTT(30)
  <1>4. BodySize(snt1, m) = bb BY <1>3 DEF BodySize
  <1> HIDE DEF X, bb, snt1
  <1>5. Len(T) = L + Len(X) /\ (\A r \in 1..L : T[r] = S[r]) /\ (\A r \in 1..Len(X) : T[L + r] = X[r])
    BY DEF Extends, X
  <1>6. /\ T[L + 1] = [req |-> m, part |-> "head"] /\ T[L + 2] = [req |-> m, part |-> "end"]
        /\ \A k \in 1..bb : T[L + 2 + k] = [req |-> m, part |-> "body"]
    <2>1. 1 \in 1..Len(X) /\ 2 \in 1..Len(X) BY <1>2, SMTT(30)
    <2>2. ASSUME NEW k \in 1..bb PROVE T[L + 2 + k] = [req |-> m, part |-> "body"]
      <3>1. 2 + k \in 1..Len(X) /\ L + (2 + k) = L + 2 + k BY <1>1, <1>2, SMTT(30)
      <3> QED BY <1>2, <1>5, <3>1
    <2> QED BY <1>2, <1>5, <2>1, <2>2
  <1>7. \A p \in 1..Len(T) : \/ p \in 1..L \/ p = L + 1 \/ p = L + 2
                             \/ \E k \in 1..bb : p = L + 2 + k
    <2>1. ASSUME NEW p \in 1..Len(T), p > L + 2 PROVE \E k \in 1..bb : p = L + 2 + k
      <3>1. p - (L + 2) \in 1..bb /\ p = L + 2 + (p - (L + 2)) BY <1>1, <1>2, <1>5, <2>1, SMTT(30)
      <3> QED BY <3>1
    <2>2. ASSUME NEW p \in 1..Len(T), ~ (p > L + 2) PROVE p \in 1..L \/ p = L + 1 \/ p = L + 2
      BY <1>1, <2>2, SMTT(30)
    <2> QED BY <2>1, <2>2
  <1>8. Len(T) = L + 2 + bb BY <1>1, <1>2, <1>5, SMTT(30)
  <1>9. ASSUME NEW p \in 1..Len(T), T[p].part = "head"
        PROVE  p < Len(T) /\ T[p + 1] = [req |-> T[p].req, part |-> "end"]
    <2>1. CASE p \in 1..L
      <3>1. p < L /\ S[p + 1] = [req |-> S[p].req, part |-> "end"] BY <1>5, <1>9, <2>1 DEF WellFormed
      <3>2. p + 1 \in 1..L /\ p < Len(T) BY <1>1, <1>2, <1>8, <2>1, <3>1, SMTT(30)
      <3> QED BY <1>5, <2>1, <3>1, <3>2
    <2>2. CASE p = L + 1 BY <1>1, <1>2, <1>6, <1>8, <2>2, SMTT(30)
    <2>3. CASE p = L + 2 BY <1>6, <1>9, <2>3, SMTT(30)
    <2>4. CASE \E k \in 1..bb : p = L + 2 + k BY <1>6, <1>9, <2>4, SMTT(30)
    <2> QED BY <1>7, <2>1, <2>2, <2>3, <2>4
  <1>10. ASSUME NEW p \in 1..Len(T), T[p].part = "end"
         PROVE  Continues(T, snt1, p, T[p].req)
    <2>1. CASE p \in 1..L
      <3>1. Continues(S, snt, p, S[p].req) BY <1>5, <1>10, <2>1 DEF WellFormed
      <3>2. Continues(T, snt1, p, S[p].req) BY <3>1, ExtendContinues, SMTT(30) DEF snt1
      <3> QED BY <1>5, <2>1, <3>2
    <2>2. CASE p = L + 2
      <3>1. T[p].req = m BY <1>6, <2>2, SMTT(30)
      <3>2. p + bb = Len(T) /\ m \in 1..Len(snt1) BY <1>1, <1>3, <1>8, <2>2, SMTT(30)
      <3>3. Continues(T, snt1, p, m) 
        <4>1. \A k \in 1..BodySize(snt1, m) : T[p + k] = [req |-> m, part |-> "body"]
          BY <1>4, <1>6, <2>2
        <4>2. p + BodySize(snt1, m) = Len(T) /\ p + BodySize(snt1, m) <= Len(T) /\ m = Len(snt1)
          BY <1>3, <1>4, <1>8, <3>2, <1>1, <1>2, SMTT(30)
        <4> HIDE DEF m
        <4> QED BY <3>2, <4>1, <4>2 DEF Continues
      <3> QED BY <3>1, <3>3
    <2>3. CASE p = L + 1 BY <1>6, <1>10, <2>3, SMTT(30)
    <2>4. CASE \E k \in 1..bb : p = L + 2 + k BY <1>6, <1>10, <2>4, SMTT(30)
    <2> QED BY <1>7, <2>1, <2>2, <2>3, <2>4
  <1>11. \A p \in 1..Len(T) : (p \in 1..L /\ T[p].req = S[p].req /\ T[p].req < m) \/ (p > L /\ T[p].req = m)
    <2>1. ASSUME NEW p \in 1..L PROVE T[p].req = S[p].req /\ T[p].req < m BY <1>1, <1>5, SMTT(30)
    <2>2. T[L + 1].req = m /\ T[L + 2].req = m /\ \A k \in 1..bb : T[L + 2 + k].req = m BY <1>6, SMTT(30)
    <2>3. L + 1 > L /\ L + 2 > L /\ \A k \in 1..bb : L + 2 + k > L BY <1>1, <1>2, SMTT(30)
    <2> HIDE DEF m, L
    <2> QED BY <1>7, <2>1, <2>2, <2>3
  <1>12. ASSUME NEW p \in 1..Len(T), NEW r \in 1..Len(T), p <= r PROVE T[p].req <= T[r].req
    <2>1. CASE r \in 1..L
      <3>1. p \in 1..L BY <1>1, <1>12, <2>1, SMTT(30)
      <3>2. S[p].req <= S[r].req BY <1>12, <2>1, <3>1 DEF WellFormed
      <3> QED BY <1>5, <2>1, <3>1, <3>2
    <2>2. CASE r > L
      <3>1. T[r].req = m BY <1>1, <1>11, <2>2, SMTT(30)
      <3>2. T[p].req < m \/ T[p].req = m BY <1>11
      <3>a. T[p] \in Run BY SMTT(30)
      <3>3. T[p].req \in Nat BY <3>a DEF Run
      <3> QED BY <1>1, <3>1, <3>2, <3>3, SMTT(30)
    <2> QED BY <1>1, <2>1, <2>2, SMTT(30)
  <1> QED BY <1>9, <1>10, <1>12 DEF WellFormed, snt1
-----------------------------------------------------------------------------
\* Past the body of request n stands request n + 1, and nothing of an earlier one.
LEMMA PastBody ==
  ASSUME NEW S \in Seq(Run), NEW T \in Seq(Run), NEW snt \in Seq(Kinds), NEW n,
         Continues(S, snt, 0, n), Dropped(S, T, BodySize(snt, n))
  PROVE  AtRequest(T, snt, n + 1)
  <1> DEFINE b == BodySize(snt, n)
  <1>1. n \in 1..Len(snt) /\ b \in Nat /\ 0 + b <= Len(S) BY KindFields DEF Continues
  <1>2. Len(T) = Len(S) - b /\ \A p \in 1..Len(T) : T[p] = S[p + b] BY DEF Dropped
  <1>3. IF 0 + b = Len(S) THEN n = Len(snt) ELSE S[0 + b + 1] = [req |-> n + 1, part |-> "head"]
    BY DEF Continues
  <1> HIDE DEF b
  <1>4. CASE b = Len(S)
    <2>1. Len(T) = 0 BY <1>1, <1>2, <1>4, SMTT(30)
    <2>2. T = <<>> BY <2>1, EmptySeq
    <2> QED BY <1>1, <1>3, <1>4, <2>2, SMTT(30) DEF AtRequest
  <1>5. CASE b # Len(S)
    <2>1. 1 \in 1..Len(T) /\ T # <<>> BY <1>1, <1>2, <1>5, SMTT(30)
    <2>2. T[1] = S[1 + b] /\ 1 + b = 0 + b + 1 BY <1>1, <1>2, <2>1, SMTT(30)
    <2> QED BY <1>1, <1>3, <1>5, <2>1, <2>2, SMTT(30) DEF AtRequest
  <1> QED BY <1>4, <1>5

\* Behind the head of a request nothing is of an earlier one.
LEMMA NothingEarlier ==
  ASSUME NEW T \in Seq(Run), NEW snt, NEW n \in Nat, AtRequest(T, snt, n + 1), WellFormed(T, snt)
  PROVE  \A p \in 1..Len(T) : T[p].req > n
  <1> SUFFICES ASSUME NEW p \in 1..Len(T) PROVE T[p].req > n OBVIOUS
  <1>1. T # <<>> /\ 1 \in 1..Len(T) /\ 1 <= p BY SMTT(30)
  <1>2. T[1].req = n + 1 BY <1>1, SMTT(30) DEF AtRequest
  <1>3. T[1].req <= T[p].req BY <1>1 DEF WellFormed
  <1>4. T[p] \in Run BY SMTT(30)
  <1>5. T[p].req \in Nat BY <1>4 DEF Run
  <1> QED BY <1>2, <1>3, <1>5, SMTT(30)

\* Steps that answer nothing.
LEMMA Quietly ==
  ASSUME NEW S, NEW T, NEW snt \in Seq(Kinds), NEW sv, NEW sv1, NEW A \in Seq(Answer), NEW ex,
         OrderOK(S, snt, sv, A, ex),
         \A i \in Nat : Later(S, sv, i) => Later(T, sv1, i),
         \A n \in Nat \ {0} : InStep(S, snt, sv, n) => InStep(T, snt, sv1, n)
  PROVE  OrderOK(T, snt, sv1, A, ex)
  <1>1. Len(A) + 1 \in Nat \ {0} /\ \A i \in 1..Len(A) : i \in Nat BY SMTT(30)
  <1> QED BY <1>1 DEF OrderOK

\* A later request does not count for an earlier one.
LEMMA RanBefore ==
  ASSUME NEW ex \in Seq(Nat), NEW q \in Nat, NEW i \in Nat, RanOnce(ex, i), q > i
  PROVE  RanOnce(Append(ex, q), i)
  <1>1. PICK m \in 1..Len(ex) : ex[m] = i /\ \A r \in 1..Len(ex) : ex[r] = i => r = m
    BY DEF RanOnce
  <1> DEFINE ex1 == Append(ex, q)
  <1>2. Len(ex1) = Len(ex) + 1 /\ ex1[Len(ex) + 1] = q /\ \A r \in 1..Len(ex) : ex1[r] = ex[r] BY SMTT(30)
  <1> HIDE DEF ex1
  <1>3. m \in 1..Len(ex1) /\ ex1[m] = i BY <1>1, <1>2, SMTT(30)
  <1>4. ASSUME NEW r \in 1..Len(ex1), ex1[r] = i PROVE r = m
    <2>1. r # Len(ex) + 1 BY <1>2, <1>4, SMTT(30)
    <2>2. r \in 1..Len(ex) + 1 BY <1>2
    <2>3. r \in 1..Len(ex) BY <2>1, <2>2, SMTT(30)
    <2> QED BY <1>1, <1>2, <1>4, <2>3
  <1>5. RanOnce(ex1, i) BY <1>3, <1>4 DEF RanOnce
  <1> QED BY <1>5 DEF ex1

\* A request later than all that ran runs once.
LEMMA RunsOnce ==
  ASSUME NEW ex \in Seq(Nat), NEW q \in Nat, \A m \in 1..Len(ex) : ex[m] < q
  PROVE  RanOnce(Append(ex, q), q)
  <1> DEFINE ex1 == Append(ex, q)
             m == Len(ex) + 1
  <1>2. Len(ex1) = m /\ ex1[m] = q /\ m \in 1..Len(ex1) /\ \A r \in 1..Len(ex) : ex1[r] = ex[r] BY SMTT(30)
  <1> HIDE DEF ex1
  <1>4. ASSUME NEW r \in 1..Len(ex1), ex1[r] = q PROVE r = m
    <2>1. CASE r \in 1..Len(ex)
      <3>1. ex[r] < q /\ ex[r] = q BY <1>2, <1>4, <2>1
      <3> QED BY <3>1, SMTT(30)
    <2> QED BY <1>2, <2>1, SMTT(30)
  <1>5. RanOnce(ex1, q) BY <1>2, <1>4 DEF RanOnce
  <1> QED BY <1>5 DEF ex1

\* What the pool gained with an answer: nothing, or the request in hand.
Gained(sv, ex, ex1) == ex1 = ex \/ (sv.at = "body" /\ ex1 = Append(ex, sv.req))

\* An answered request stays answered as it was.
LEMMA StillOK ==
  ASSUME NEW S, NEW snt \in Seq(Kinds), NEW sv, sv.req \in Nat, NEW A \in Seq(Answer),
         NEW ex \in Seq(Nat), NEW ex1, Gained(sv, ex, ex1),
         OrderOK(S, snt, sv, A, ex), NEW i \in 1..Len(A), Clean(snt, i)
  PROVE  AnswerOK(snt, ex1, A[i], i)
  <1>1. AnswerOK(snt, ex, A[i], i) BY DEF OrderOK
  <1>2. CASE ex1 = ex BY <1>1, <1>2
  <1>3. CASE sv.at = "body" /\ ex1 = Append(ex, sv.req)
    <2>1. ASSUME snt[i].route = "rpc", RanOnce(ex, i) PROVE RanOnce(ex1, i)
      <3>1. i \in Nat /\ Drained(snt, i) BY <1>1, <2>1, SMTT(30) DEF AnswerOK, Drained
      <3>2. Clean(snt, i + 1) BY <3>1, CleanDrained
      <3>3. Later(S, sv, i) BY <3>2 DEF OrderOK
      <3>4. sv.req > i BY <1>3, <3>3 DEF Later
      <3> QED BY <1>3, <2>1, <3>1, <3>4, RanBefore
    <2> QED BY <1>1, <2>1 DEF AnswerOK
  <1> QED BY <1>2, <1>3 DEF Gained

\* Steps that answer the request in hand.
LEMMA Answered ==
  ASSUME NEW S, NEW T, NEW snt \in Seq(Kinds), NEW sv, sv.req \in Nat, NEW sv1, NEW A \in Seq(Answer),
         NEW a \in Answer, NEW ex \in Seq(Nat), NEW ex1, Gained(sv, ex, ex1),
         OrderOK(S, snt, sv, A, ex),
         \A i \in Nat : Later(S, sv, i) => Later(T, sv1, i),
         Clean(snt, Len(A) + 1) => AnswerOK(snt, ex1, a, Len(A) + 1),
         Clean(snt, Len(A) + 2) => Later(T, sv1, Len(A) + 1) /\ InStep(T, snt, sv1, Len(A) + 2)
  PROVE  OrderOK(T, snt, sv1, Append(A, a), ex1)
  <1> DEFINE A1 == Append(A, a)
             n == Len(A) + 1
  <1>1. /\ Len(A1) = n /\ A1[n] = a /\ n \in Nat /\ n # 0 /\ n + 1 = Len(A) + 2
        /\ \A i \in 1..Len(A) : A1[i] = A[i] /\ i \in Nat
        /\ \A i \in 1..Len(A1) : i \in 1..Len(A) \/ i = n
    BY SMTT(30)
  <1> HIDE DEF A1
  <1>2. ASSUME NEW i \in 1..Len(A1), Clean(snt, i) PROVE AnswerOK(snt, ex1, A1[i], i)
    <2>1. CASE i = n BY <1>1, <1>2, <2>1
    <2>2. CASE i \in 1..Len(A)
      <3>1. AnswerOK(snt, ex1, A[i], i) BY <1>2, <2>2, StillOK
      <3> QED BY <1>1, <2>2, <3>1
    <2> QED BY <1>1, <2>1, <2>2
  <1>3. ASSUME NEW i \in 1..Len(A1), Clean(snt, i + 1) PROVE Later(T, sv1, i)
    <2>1. CASE i = n BY <1>1, <1>3, <2>1
    <2>2. CASE i \in 1..Len(A)
      <3>1. Later(S, sv, i) BY <1>3, <2>2 DEF OrderOK
      <3> QED BY <1>1, <2>2, <3>1
    <2> QED BY <1>1, <2>1, <2>2
  <1>4. ASSUME Clean(snt, Len(A1) + 1)
        PROVE  InStep(T, snt, sv1, Len(A1) + 1) /\ \A m \in 1..Len(ex1) : ex1[m] <= Len(A1)
    <2>1. Clean(snt, Len(A) + 2) /\ Len(A1) + 1 = Len(A) + 2 BY <1>1, <1>4
    <2>2. Clean(snt, n) BY <1>1, <1>4, CleanNext
    <2>3. InStep(S, snt, sv, n) /\ \A m \in 1..Len(ex) : ex[m] <= Len(A) BY <2>2 DEF OrderOK
    <2>4. CASE ex1 = ex
      <3>1. ASSUME NEW m \in 1..Len(ex) PROVE ex[m] <= n
        <4>1. ex[m] <= Len(A) /\ ex[m] \in Nat BY <2>3, SMTT(30)
        <4> QED BY <4>1, SMTT(30)
      <3> QED BY <1>1, <2>1, <2>4, <3>1
    <2>5. CASE sv.at = "body" /\ ex1 = Append(ex, sv.req)
      <3>1. sv.req = n BY <2>3, <2>5 DEF InStep
      <3>2. ASSUME NEW m \in 1..Len(ex1) PROVE ex1[m] <= n
        <4>1. Len(ex1) = Len(ex) + 1 /\ ex1[Len(ex) + 1] = n /\ \A r \in 1..Len(ex) : ex1[r] = ex[r]
          BY <2>5, <3>1, SMTT(30)
        <4>2. CASE m \in 1..Len(ex)
          <5>1. ex[m] <= Len(A) /\ ex[m] \in Nat BY <2>3, <4>2, SMTT(30)
          <5> QED BY <4>1, <4>2, <5>1, SMTT(30)
        <4> QED BY <4>1, <4>2, SMTT(30)
      <3> QED BY <1>1, <2>1, <3>2
    <2> QED BY <2>4, <2>5 DEF Gained
  <1>5. OrderOK(T, snt, sv1, A1, ex1) BY <1>2, <1>3, <1>4 DEF OrderOK
  <1> QED BY <1>5 DEF A1
-----------------------------------------------------------------------------
\* A request that is sent changes nothing of what was answered.
LEMMA CleanBefore ==
  ASSUME NEW S, NEW snt \in Seq(Kinds), NEW kind \in Kinds, NEW sv, NEW A \in Seq(Answer), NEW ex,
         OrderOK(S, snt, sv, A, ex), NEW i \in 1..Len(A) + 1, Clean(Append(snt, kind), i)
  PROVE  Clean(snt, i)
  <1> DEFINE m == Len(snt) + 1
             snt1 == Append(snt, kind)
  <1>1. m \in Nat /\ Len(snt1) = m /\ \A j \in 1..Len(snt) : snt1[j] = snt[j] BY SMTT(30)
  <1>2. ASSUME NEW j \in 1..Len(snt), Drained(snt1, j) PROVE Drained(snt, j)
    BY <1>1, <1>2 DEF Drained
  <1>3. \A j \in 1..i - 1 : Drained(snt1, j) BY DEF Clean
  <1>4. CASE i - 1 <= Len(snt)
    <2>1. \A j \in 1..i - 1 : j \in 1..Len(snt) BY <1>4, SMTT(30)
    <2> QED BY <1>2, <1>3, <2>1 DEF Clean
  <1>5. CASE ~ (i - 1 <= Len(snt))
    <2>1. m \in 1..Len(A) BY <1>5, SMTT(30)
    <2>2. \A j \in 1..m - 1 : j \in 1..Len(snt) /\ j \in 1..i - 1 BY <1>5, SMTT(30)
    <2>3. Clean(snt, m) BY <1>2, <1>3, <2>2 DEF Clean
    <2>4. AnswerOK(snt, ex, A[m], m) BY <2>1, <2>3 DEF OrderOK
    <2>5. m \in 1..Len(snt) BY <2>4 DEF AnswerOK
    <2> QED BY <2>5, SMTT(30)
  <1> QED BY <1>4, <1>5

\* The task stays in step with a request more.
LEMMA SendInStep ==
  ASSUME NEW S \in Seq(Run), NEW T \in Seq(Run), NEW snt \in Seq(Kinds), NEW kind \in Kinds,
         Extends(S, T, RunsOf(kind, Len(snt) + 1)),
         \A p \in 1..Len(S) : S[p].req \in 1..Len(snt),
         NEW sv, NEW n, sv.at # "closed", InStep(S, snt, sv, n)
  PROVE  InStep(T, Append(snt, kind), sv, n)
  <1>1. WellFormed(T, Append(snt, kind)) BY ExtendWellFormed DEF InStep
  <1>2. sv.at = "head" => AtRequest(T, Append(snt, kind), n) BY ExtendAtRequest DEF InStep
  <1>3. ASSUME sv.at \in {"route", "body"}
        PROVE  sv.req = n /\ Continues(T, Append(snt, kind), 0, n)
    <2>1. sv.req = n /\ Continues(S, snt, 0, n) /\ 0 \in Nat BY <1>3 DEF InStep
    <2> QED BY <2>1, ExtendContinues
  <1>4. ASSUME sv.at = "body" PROVE Append(snt, kind)[n].route = "rpc"
    <2>1. n \in 1..Len(snt) /\ snt[n].route = "rpc" BY <1>4 DEF InStep, Continues
    <2>2. Append(snt, kind)[n] = snt[n] BY <2>1, SMTT(30)
    <2> QED BY <2>1, <2>2
  <1> QED BY <1>1, <1>2, <1>3, <1>4 DEF InStep

\* A new request is later than every answered one.
LEMMA SendLater ==
  ASSUME NEW S \in Seq(Run), NEW T \in Seq(Run), NEW snt \in Seq(Kinds), NEW kind \in Kinds,
         Extends(S, T, RunsOf(kind, Len(snt) + 1)),
         NEW sv, NEW i \in 1..Len(snt), Later(S, sv, i)
  PROVE  Later(T, sv, i)
  <1> DEFINE m == Len(snt) + 1
             X == RunsOf(kind, m)
             bb == IF kind.body THEN BodyRuns ELSE 0
             L == Len(S)
  <1>1. m \in Nat /\ L \in Nat /\ m > i BY SMTT(30)
  <1>2. /\ bb \in Nat /\ Len(X) = 2 + bb /\ X[1] = [req |-> m, part |-> "head"]
        /\ X[2] = [req |-> m, part |-> "end"]
        /\ \A k \in 1..bb : X[2 + k] = [req |-> m, part |-> "body"]
    BY <1>1, NewRuns
  <1> HIDE DEF X, bb, m
  <1>3. ASSUME NEW p \in 1..Len(X) PROVE X[p].req = m
    <2>1. p \in {1, 2} \/ (p - 2 \in 1..bb /\ p = 2 + (p - 2)) BY <1>2, SMTT(30)
    <2>2. CASE p \in {1, 2} BY <1>2, <2>2, SMTT(30)
    <2>3. CASE p - 2 \in 1..bb /\ p = 2 + (p - 2)
      <3>1. PICK k \in 1..bb : p = 2 + k BY <2>3
      <3>2. X[p] = [req |-> m, part |-> "body"] BY <1>2, <3>1
      <3> QED BY <3>2, SMTT(30)
    <2> QED BY <2>1, <2>2, <2>3
  <1>4. Len(T) = L + Len(X) /\ (\A r \in 1..L : T[r] = S[r]) /\ (\A r \in 1..Len(X) : T[L + r] = X[r])
    BY DEF Extends, X, m
  <1>5. ASSUME NEW p \in 1..Len(T), sv.at # "closed" PROVE T[p].req > i
    <2>1. p \in 1..L \/ (p - L \in 1..Len(X) /\ p = L + (p - L)) BY <1>1, <1>2, <1>4, SMTT(30)
    <2>2. CASE p \in 1..L BY <1>4, <1>5, <2>2 DEF Later
    <2>3. CASE p - L \in 1..Len(X) /\ p = L + (p - L)
      <3>1. T[p] = X[p - L] BY <1>4, <2>3
      <3>2. T[p].req = m BY <1>3, <2>3, <3>1
      <3> QED BY <1>1, <3>2
    <2> QED BY <2>1, <2>2, <2>3
  <1> QED BY <1>5 DEF Later

\* Sending keeps the order.
LEMMA SendOrder ==
  ASSUME NEW S \in Seq(Run), NEW T \in Seq(Run), NEW snt \in Seq(Kinds), NEW kind \in Kinds,
         Extends(S, T, RunsOf(kind, Len(snt) + 1)),
         \A p \in 1..Len(S) : S[p].req \in 1..Len(snt),
         NEW sv, sv.at # "closed", NEW A \in Seq(Answer), NEW ex, OrderOK(S, snt, sv, A, ex)
  PROVE  OrderOK(T, Append(snt, kind), sv, A, ex)
  <1> DEFINE snt1 == Append(snt, kind)
  <1>1. ASSUME NEW i \in 1..Len(A), Clean(snt1, i) PROVE AnswerOK(snt1, ex, A[i], i)
    <2>0. i \in 1..Len(A) + 1 BY SMTT(30)
    <2>1. Clean(snt, i) BY <1>1, <2>0, CleanBefore
    <2>2. AnswerOK(snt, ex, A[i], i) BY <2>1 DEF OrderOK
    <2>3. i \in 1..Len(snt) /\ i \in 1..Len(snt1) /\ snt1[i] = snt[i] BY <2>2, SMTT(30) DEF AnswerOK
    <2> QED BY <2>2, <2>3 DEF AnswerOK
  <1>2. ASSUME NEW i \in 1..Len(A), Clean(snt1, i + 1) PROVE Later(T, sv, i)
    <2>0. i + 1 \in 1..Len(A) + 1 /\ i \in Nat /\ i # 0 BY SMTT(30)
    <2>1. Clean(snt, i + 1) BY <1>2, <2>0, CleanBefore
    <2>2. Later(S, sv, i) BY <2>1 DEF OrderOK
    <2>3. i \in 1..Len(snt) BY <2>0, <2>1, CleanNext DEF Drained
    <2> QED BY <2>2, <2>3, SendLater
  <1>3. ASSUME Clean(snt1, Len(A) + 1)
        PROVE  InStep(T, snt1, sv, Len(A) + 1) /\ \A m \in 1..Len(ex) : ex[m] <= Len(A)
    <2>0. Len(A) + 1 \in 1..Len(A) + 1 BY SMTT(30)
    <2>1. Clean(snt, Len(A) + 1) BY <1>3, <2>0, CleanBefore
    <2>2. InStep(S, snt, sv, Len(A) + 1) /\ \A m \in 1..Len(ex) : ex[m] <= Len(A) BY <2>1 DEF OrderOK
    <2> QED BY <2>2, SendInStep
  <1> QED BY <1>1, <1>2, <1>3 DEF OrderOK
-----------------------------------------------------------------------------
\* The stream and the answers as sequences.
LEMMA RunsAssociative ==
  \A s, t, u \in Seq(Run) : (s \o t) \o u = s \o (t \o u)
  <1> TAKE s, t, u \in Seq(Run)
  <1> HIDE DEF Run
  <1> QED BY ConcatAssociative, SMTT(30)

\* A read moves runs from the wire to the buffer and changes nothing of the stream.
LEMMA FillStream ==
  ASSUME NEW b \in Seq(Run), NEW w \in Seq(Run), NEW n \in 1..Len(w)
  PROVE  /\ b \o SubSeq(w, 1, n) \in Seq(Run) /\ SubSeq(w, n + 1, Len(w)) \in Seq(Run)
         /\ (b \o SubSeq(w, 1, n)) \o SubSeq(w, n + 1, Len(w)) = b \o w
  <1>1. /\ 1 \in Int /\ n \in Int /\ n + 1 \in Int /\ Len(w) \in Int
        /\ \A i \in 1..n : w[i] \in Run
        /\ \A i \in n + 1..Len(w) : w[i] \in Run
    BY SMTT(30)
  <1> DEFINE x == SubSeq(w, 1, n)
             y == SubSeq(w, n + 1, Len(w))
  <1>2. x \in Seq(Run) /\ y \in Seq(Run) BY <1>1, SubSeqProperties
  <1>3. x \o y = w
    <2>1. 1 \in 1..Len(w) + 1 /\ n \in 1 - 1..Len(w) /\ Len(w) \in n..Len(w) BY SMTT(30)
    <2>2. x \o y = SubSeq(w, 1, Len(w)) BY <2>1, ConcatAdjacentSubSeq
    <2> QED BY <2>2, SubSeqFull
  <1> HIDE DEF x, y
  <1>4. (b \o x) \o y = b \o (x \o y) BY <1>2, RunsAssociative
  <1>5. b \o x \in Seq(Run) BY <1>2, ConcatProperties
  <1> QED BY <1>2, <1>3, <1>4, <1>5 DEF x, y

\* The buffer is the front of the stream.
LEMMA FrontOfStream ==
  ASSUME NEW b \in Seq(Run), NEW w \in Seq(Run)
  PROVE  /\ b \o w \in Seq(Run) /\ Len(b) <= Len(b \o w)
         /\ \A p \in 1..Len(b) : p \in 1..Len(b \o w) /\ (b \o w)[p] = b[p]
  <1>1. b \o w \in Seq(Run) /\ Len(b \o w) = Len(b) + Len(w) /\ \A p \in 1..Len(b) : (b \o w)[p] = b[p]
    BY ConcatExtends DEF Extends
  <1>2. Len(b) \in Nat /\ Len(w) \in Nat BY SMTT(30)
  <1> QED BY <1>1, <1>2, SMTT(30)

\* What is taken from the buffer is dropped from the stream.
LEMMA TakeFront ==
  ASSUME NEW b \in Seq(Run), NEW w \in Seq(Run), NEW k \in 0..Len(b)
  PROVE  /\ SubSeq(b, k + 1, Len(b)) \in Seq(Run)
         /\ SubSeq(b, k + 1, Len(b)) \o w \in Seq(Run)
         /\ Dropped(b \o w, SubSeq(b, k + 1, Len(b)) \o w, k)
  <1> DEFINE c == SubSeq(b, k + 1, Len(b))
             S == b \o w
             T == c \o w
  <1>1. c \in Seq(Run) /\ Len(c) = Len(b) - k /\ \A i \in 1..Len(c) : c[i] = b[i + k]
    <2>1. k + 1 \in Int /\ Len(b) \in Int /\ (\A i \in k + 1..Len(b) : b[i] \in Run) BY SMTT(30)
    <2>2. /\ c \in Seq(Run) /\ Len(c) = IF k + 1 <= Len(b) THEN Len(b) - (k + 1) + 1 ELSE 0
          /\ \A i \in 1..Len(b) - (k + 1) + 1 : c[i] = b[(k + 1) + i - 1]
      BY <2>1, SubSeqProperties, SMTT(30)
    <2>3. Len(c) = Len(b) - k BY <2>2, SMTT(30)
    <2>4. \A i \in 1..Len(c) : i \in 1..Len(b) - (k + 1) + 1 /\ (k + 1) + i - 1 = i + k BY <2>3, SMTT(30)
    <2>5. \A i \in 1..Len(c) : c[i] = b[(k + 1) + i - 1] BY <2>2, <2>4
    <2> QED BY <2>2, <2>3, <2>4, <2>5
  <1> HIDE DEF c
  <1>2. /\ S \in Seq(Run) /\ Len(S) = Len(b) + Len(w) /\ (\A p \in 1..Len(b) : S[p] = b[p])
        /\ \A p \in 1..Len(w) : S[Len(b) + p] = w[p]
    BY ConcatExtends DEF Extends
  <1>3. /\ T \in Seq(Run) /\ Len(T) = Len(c) + Len(w) /\ (\A p \in 1..Len(c) : T[p] = c[p])
        /\ \A p \in 1..Len(w) : T[Len(c) + p] = w[p]
    BY <1>1, ConcatExtends DEF Extends
  <1> HIDE DEF S, T
  <1>4. k <= Len(S) /\ Len(T) = Len(S) - k BY <1>1, <1>2, <1>3, SMTT(30)
  <1>5. ASSUME NEW p \in 1..Len(T) PROVE T[p] = S[p + k]
    <2>1. CASE p <= Len(c)
      <3>1. p \in 1..Len(c) /\ p + k \in 1..Len(b) BY <1>1, <2>1, SMTT(30)
      <3> QED BY <1>1, <1>2, <1>3, <3>1
    <2>2. CASE ~ (p <= Len(c))
      <3> DEFINE q == p - Len(c)
      <3>1. q \in 1..Len(w) /\ p = Len(c) + q /\ p + k = Len(b) + q BY <1>1, <1>3, <2>2, SMTT(30)
      <3> QED BY <1>2, <1>3, <3>1
    <2> QED BY <2>1, <2>2
  <1> QED BY <1>1, <1>3, <1>4, <1>5 DEF Dropped, S, T, c

\* An answer is the last of the answers.
LEMMA AnswerLast ==
  ASSUME NEW g \in Seq(Answer), NEW r \in Seq(Answer), NEW a \in Answer
  PROVE  g \o Append(r, a) = Append(g \o r, a) /\ Append(r, a) \in Seq(Answer)
  <1>1. Append(r, a) = r \o <<a>> /\ <<a>> \in Seq(Answer) /\ Append(r, a) \in Seq(Answer)
    BY AppendIsConcat, AppendProperties, SMTT(30)
  <1>2. g \o r \in Seq(Answer) BY ConcatProperties
  <1>3. Append(g \o r, a) = (g \o r) \o <<a>> BY <1>2, AppendIsConcat
  <1>4. (g \o r) \o <<a>> = g \o (r \o <<a>>) BY <1>1, ConcatAssociative, SMTT(30)
  <1> QED BY <1>1, <1>3, <1>4

\* An answer that is read stays where it is among the answers.
LEMMA AnswerRead ==
  ASSUME NEW g \in Seq(Answer), NEW r \in Seq(Answer), r # <<>>
  PROVE  /\ Append(g, Head(r)) \o Tail(r) = g \o r
         /\ Append(g, Head(r)) \in Seq(Answer) /\ Tail(r) \in Seq(Answer)
  <1>1. Head(r) \in Answer /\ Tail(r) \in Seq(Answer) BY HeadTailProperties
  <1> DEFINE h == Head(r)
             t == Tail(r)
  <1>2. <<h>> \o t = r
    <2>1. 1 \in 1..Len(r) /\ Len(r) \in 1..Len(r) BY EmptySeq, SMTT(30)
    <2>2. SubSeq(r, 1, Len(r)) = <<r[1]>> \o SubSeq(r, 1 + 1, Len(r)) BY <2>1, SubSeqRecursiveFirst
    <2>3. t = SubSeq(r, 2, Len(r)) BY TailIsSubSeq
    <2>4. h = r[1] BY SMTT(30)
    <2>5. 1 + 1 = 2 BY SMTT(30)
    <2> QED BY <2>2, <2>3, <2>4, <2>5, SubSeqFull
  <1> HIDE DEF h, t
  <1>3. <<h>> \in Seq(Answer) /\ t \in Seq(Answer) BY <1>1, SMTT(30) DEF h, t
  <1>4. Append(g, h) = g \o <<h>> /\ Append(g, h) \in Seq(Answer)
    BY <1>1, AppendIsConcat, AppendProperties DEF h
  <1>5. (g \o <<h>>) \o t = g \o (<<h>> \o t) BY <1>3, ConcatAssociative, SMTT(30)
  <1> QED BY <1>2, <1>3, <1>4, <1>5 DEF h, t
-----------------------------------------------------------------------------
\* The steps. Nothing new is in what is left of the stream.
LEMMA DropReqs ==
  ASSUME NEW S \in Seq(Run), NEW T \in Seq(Run), NEW k \in Nat, Dropped(S, T, k)
  PROVE  \A p \in 1..Len(T) : \E r \in 1..Len(S) : T[p] = S[r]
  <1> SUFFICES ASSUME NEW p \in 1..Len(T) PROVE \E r \in 1..Len(S) : T[p] = S[r] OBVIOUS
  <1>1. p + k \in 1..Len(S) /\ T[p] = S[p + k] BY SMTT(30) DEF Dropped
  <1> QED BY <1>1

\* A route that takes no body leaves the stream as it is.
LEMMA DropNothing ==
  ASSUME NEW S \in Seq(Run)
  PROVE  Dropped(S, S, 0)
  <1>1. 0 <= Len(S) /\ Len(S) = Len(S) - 0 /\ \A p \in 1..Len(S) : p = p + 0 BY SMTT(30)
  <1> QED BY <1>1 DEF Dropped

\* The types the steps rely on.
LEMMA HttpFields ==
  ASSUME HttpInv
  PROVE  /\ sent \in Seq(Kinds) /\ wire \in Seq(Run) /\ buf \in Seq(Run)
         /\ Stream \in Seq(Run) /\ Answers \in Seq(Answer)
         /\ serving.req \in Nat /\ serving.at \in {"head", "route", "body", "unknown", "closed"}
         /\ serving = [at |-> serving.at, req |-> serving.req]
         /\ replies \in Seq(Answer) /\ got \in Seq(Answer) /\ executed \in Seq(Nat)
  <1>1. HttpType BY DEF HttpInv
  <1>2. Stream \in Seq(Run) BY <1>1, ConcatProperties DEF HttpType, Stream
  <1>3. Answers \in Seq(Answer) BY <1>1, ConcatProperties DEF HttpType, Answers
  <1> QED BY <1>1, <1>2, <1>3 DEF HttpType

\* ReadReply keeps the invariant.
LEMMA ReadReplyStep ==
  ASSUME HttpInv, ReadReply
  PROVE  HttpInv'
  <1>1. Answers' = Answers /\ got' \in Seq(Answer) /\ replies' \in Seq(Answer)
    BY HttpFields, AnswerRead DEF ReadReply, Answers
  <1>2. UNCHANGED <<sent, wire, buf, serving, executed>> BY DEF ReadReply
  <1>3. Stream' = Stream BY <1>2 DEF Stream
  <1>4. HttpType' BY <1>1, <1>2 DEF HttpInv, HttpType
  <1> QED BY <1>1, <1>2, <1>3, <1>4 DEF HttpInv

\* A read keeps the invariant.
LEMMA FillStep ==
  ASSUME HttpInv, NEW n \in Nat \ {0}, n <= Len(wire), Fill(n),
         UNCHANGED <<sent, serving, replies, got, executed>>
  PROVE  HttpInv'
  <1>1. n \in 1..Len(wire) BY HttpFields, SMTT(30)
  <1>2. Stream' = Stream /\ buf' \in Seq(Run) /\ wire' \in Seq(Run)
    BY <1>1, HttpFields, FillStream DEF Fill, Stream
  <1>3. Answers' = Answers BY DEF Answers
  <1>4. HttpType' BY <1>2 DEF HttpInv, HttpType
  <1> QED BY <1>2, <1>3, <1>4 DEF HttpInv

\* SendRequest keeps the invariant.
LEMMA SendStep ==
  ASSUME HttpInv, NEW kind \in Kinds, SendRequest(kind)
  PROVE  HttpInv'
  <1> DEFINE m == Len(sent) + 1
             H == HeadRuns(m)
             B == IF kind.body THEN BodyOf(m) ELSE <<>>
             X == RunsOf(kind, m)
  <1>1. sent' = Append(sent, kind) /\ Len(sent') = m /\ sent' \in Seq(Kinds) /\ m \in Nat
    BY HttpFields, SMTT(30) DEF SendRequest
  <1>2. X \in Seq(Run) BY <1>1, NewRuns
  <1>3. H \in Seq(Run) /\ B \in Seq(Run)
    <2>1. [req |-> m, part |-> "head"] \in Run /\ [req |-> m, part |-> "end"] \in Run
          /\ [req |-> m, part |-> "body"] \in Run
      BY <1>1 DEF Run
    <2>2. BodyRuns \in Nat BY HttpAssumption
    <2> QED BY <2>1, <2>2, SMTT(30) DEF HeadRuns, BodyOf
  <1>4. wire' = (wire \o H) \o B BY <1>1 DEF SendRequest
  <1>5. X = H \o B BY DEF RunsOf
  <1>6. UNCHANGED <<buf, serving, replies, got, executed>> /\ serving.at # "closed" BY DEF SendRequest
  <1> HIDE DEF H, B, X, m
  <1>7. wire' = wire \o X /\ wire' \in Seq(Run)
    <2> wire \in Seq(Run) BY HttpFields
    <2>1. (wire \o H) \o B = wire \o (H \o B) BY <1>3, RunsAssociative
    <2>2. wire \o X \in Seq(Run) BY <1>2, HttpFields, ConcatProperties
    <2> QED BY <1>4, <1>5, <2>1, <2>2
  <1>8. Stream' = Stream \o X
    <2> wire \in Seq(Run) /\ buf \in Seq(Run) BY HttpFields
    <2>1. (buf \o wire) \o X = buf \o (wire \o X) BY <1>2, RunsAssociative
    <2> QED BY <1>6, <1>7, <2>1 DEF Stream
  <1>9. Stream' \in Seq(Run) /\ Extends(Stream, Stream', RunsOf(kind, Len(sent) + 1))
    BY <1>2, <1>8, HttpFields, ConcatExtends DEF X, m
  <1>10. OrderOK(Stream', sent', serving, Answers, executed)
    <2>1. \A p \in 1..Len(Stream) : Stream[p].req \in 1..Len(sent) BY DEF HttpInv
    <2>2. OrderOK(Stream, sent, serving, Answers, executed) BY DEF HttpInv
    <2> QED BY <1>1, <1>6, <1>9, <2>1, <2>2, HttpFields, SendOrder
  <1>11. Answers' = Answers BY <1>6 DEF Answers
  <1>12. ASSUME NEW p \in 1..Len(Stream') PROVE Stream'[p].req \in 1..Len(sent')
    <2>1. Len(Stream') = Len(Stream) + Len(X) /\ (\A r \in 1..Len(Stream) : Stream'[r] = Stream[r])
          /\ (\A r \in 1..Len(X) : Stream'[Len(Stream) + r] = X[r])
      BY <1>9 DEF Extends, X, m
    <2>2. CASE p \in 1..Len(Stream)
      <3>1. Stream[p].req \in 1..Len(sent) BY <2>2 DEF HttpInv
      <3>2. 1..Len(sent) \subseteq 1..Len(sent') BY <1>1, HttpFields, SMTT(30) DEF m
      <3> QED BY <2>1, <2>2, <3>1, <3>2
    <2>3. CASE p \notin 1..Len(Stream)
      <3>1. PICK r \in 1..Len(X) : p = Len(Stream) + r
        <4>1. p - Len(Stream) \in 1..Len(X) /\ p = Len(Stream) + (p - Len(Stream))
          BY <1>2, <2>1, <2>3, HttpFields, SMTT(30)
        <4> QED BY <4>1
      <3>2. X[r].req = m
        <4> DEFINE bb == IF kind.body THEN BodyRuns ELSE 0
        <4>1. /\ bb \in Nat /\ Len(X) = 2 + bb /\ X[1] = [req |-> m, part |-> "head"]
              /\ X[2] = [req |-> m, part |-> "end"]
              /\ \A k \in 1..bb : X[2 + k] = [req |-> m, part |-> "body"]
          BY <1>1, NewRuns DEF X
        <4> HIDE DEF bb
        <4>2. CASE r = 1 \/ r = 2 BY <4>1, <4>2, SMTT(30)
        <4>3. CASE ~ (r = 1 \/ r = 2)
          <5>1. r - 2 \in 1..bb /\ r = 2 + (r - 2) BY <4>1, <4>3, SMTT(30)
          <5>2. PICK k \in 1..bb : r = 2 + k BY <5>1
          <5>3. X[r] = [req |-> m, part |-> "body"] BY <4>1, <5>2
          <5> QED BY <5>3, SMTT(30)
        <4> QED BY <4>2, <4>3
      <3>3. m \in 1..Len(sent') BY <1>1, HttpFields, SMTT(30) DEF m
      <3> QED BY <2>1, <3>1, <3>2, <3>3
    <2> QED BY <2>2, <2>3
  <1>13. ASSUME serving.at \in {"route", "body"} PROVE serving.req \in 1..Len(sent')
    <2>1. serving.req \in 1..Len(sent) BY <1>13 DEF HttpInv
    <2> QED BY <1>1, <2>1, HttpFields, SMTT(30) DEF m
  <1>14. HttpType' BY <1>1, <1>6, <1>7 DEF HttpInv, HttpType
  <1> QED BY <1>6, <1>10, <1>11, <1>12, <1>13, <1>14 DEF HttpInv
-----------------------------------------------------------------------------
\* A set of natural numbers has a least one.
LEMMA LeastEnd ==
  ASSUME NEW R, IsWellFoundedOn(R, Nat), \A x, y \in Nat : y < x => <<y, x>> \in R,
         NEW S, S \subseteq Nat, S # {}
  PROVE  \E x \in S : \A y \in S : x <= y
  <1>1. PICK x \in S : \A y \in S : ~(<<y, x>> \in R) BY WFMin
  <1>2. ASSUME NEW y \in S, ~(x <= y) PROVE FALSE
    <2>1. x \in Nat /\ y \in Nat /\ y < x BY <1>2, SMTT(30)
    <2>2. <<y, x>> \in R BY <2>1
    <2> QED BY <1>1, <2>2
  <1> QED BY <1>2

\* The head that is found is the first.
LEMMA HeadFound ==
  ASSUME HttpInv, HasHead
  PROVE  /\ Head1 \in 1..Len(buf) /\ buf[Head1].part = "end"
         /\ \A k \in 1..Head1 - 1 : buf[k].part # "end"
  <1> DEFINE E == {n \in 1..Len(buf) : buf[n].part = "end"}
             R == OpToRel(<, Nat)
  <1>1. E \subseteq Nat /\ E # {} BY SMTT(30) DEF HasHead
  <1>2. \A x, y \in Nat : y < x => <<y, x>> \in R BY DEF OpToRel
  <1>3. IsWellFoundedOn(R, Nat) BY NatLessThanWellFounded
  <1>4. \E x \in E : \A y \in E : x <= y
    <2> HIDE DEF E, R
    <2> QED BY <1>1, <1>2, <1>3, LeastEnd
  <1>5. PICK x \in E : \A y \in E : x <= y BY <1>4
  <1>6. x \in 1..Len(buf) /\ buf[x].part = "end" BY <1>5
  <1>7. ASSUME NEW k \in 1..x - 1 PROVE buf[k].part # "end"
    <2>1. k \in 1..Len(buf) /\ ~ (x <= k) BY <1>6, HttpFields, SMTT(30)
    <2> QED BY <1>5, <2>1
  <1> QED BY <1>6, <1>7 DEF Head1

\* In step, it is the head of the next request.
LEMMA HeadInStep ==
  ASSUME HttpInv, HasHead, serving.at = "head", NEW n, InStep(Stream, sent, serving, n)
  PROVE  Head1 = 2 /\ buf[1].req = n /\ Continues(Stream, sent, 2, n)
  <1>1. Head1 \in 1..Len(buf) /\ buf[Head1].part = "end" /\ \A k \in 1..Head1 - 1 : buf[k].part # "end"
    BY HeadFound
  <1>2. /\ Stream \in Seq(Run) /\ Len(buf) <= Len(Stream) /\ Len(buf) \in Nat /\ Len(Stream) \in Nat
        /\ \A p \in 1..Len(buf) : p \in 1..Len(Stream) /\ Stream[p] = buf[p]
    BY HttpFields, FrontOfStream, SMTT(30) DEF Stream
  <1>3. 1 \in 1..Len(buf) /\ 1 \in 1..Len(Stream) /\ Stream # <<>> BY <1>1, <1>2, SMTT(30)
  <1>4. AtRequest(Stream, sent, n) /\ WellFormed(Stream, sent) BY DEF InStep
  <1>5. Stream[1] = [req |-> n, part |-> "head"] BY <1>3, <1>4 DEF AtRequest
  <1>6. 1 < Len(Stream) /\ Stream[1 + 1] = [req |-> n, part |-> "end"] BY <1>3, <1>4, <1>5, SMTT(30) DEF WellFormed
  <1>7. Head1 # 1 BY <1>1, <1>2, <1>3, <1>5, SMTT(30)
  <1>8. 2 \in 1..Len(buf) /\ 2 \in 1..Len(Stream) /\ 1 + 1 = 2 BY <1>1, <1>2, <1>7, SMTT(30)
  <1>9. buf[2].part = "end" /\ Stream[2].req = n /\ Stream[2].part = "end" BY <1>2, <1>6, <1>8, SMTT(30)
  <1>10. Head1 = 2
    <2>1. Head1 > 2 => 2 \in 1..Head1 - 1 BY <1>1, SMTT(30)
    <2> QED BY <1>1, <1>7, <1>9, <2>1, SMTT(30)
  <1>11. Continues(Stream, sent, 2, Stream[2].req) BY <1>4, <1>8, <1>9 DEF WellFormed
  <1>12. buf[1].req = n BY <1>2, <1>3, <1>5, SMTT(30)
  <1> QED BY <1>9, <1>10, <1>11, <1>12

\* FindHead keeps the invariant.
LEMMA FindHeadStep ==
  ASSUME HttpInv, FindHead
  PROVE  HttpInv'
  <1>1. /\ serving.at = "head" /\ HasHead /\ buf' = SubSeq(buf, Head1 + 1, Len(buf))
        /\ UNCHANGED <<sent, wire, replies, got, executed>>
    BY DEF FindHead
  <1>2. Head1 \in 1..Len(buf) /\ Head1 \in 0..Len(buf) /\ Head1 \in Nat
    BY <1>1, HeadFound, HttpFields, SMTT(30)
  <1>3. buf' \in Seq(Run) /\ Stream' \in Seq(Run) /\ Dropped(Stream, Stream', Head1)
    BY <1>1, <1>2, HttpFields, TakeFront DEF Stream
  <1>4. \A p \in 1..Len(Stream') : \E r \in 1..Len(Stream) : Stream'[p] = Stream[r]
    BY <1>2, <1>3, HttpFields, DropReqs
  <1>5. 1 \in 1..Len(buf) /\ 1 \in 1..Len(Stream) /\ Stream[1] = buf[1] /\ buf[1] \in Run
    <2>1. 1 \in 1..Len(buf) BY <1>2, HttpFields, SMTT(30)
    <2> QED BY <2>1, HttpFields, FrontOfStream, SMTT(30) DEF Stream
  <1>6. \A p \in 1..Len(Stream) : Stream[p].req \in 1..Len(sent) BY DEF HttpInv
  <1>7. \/ Head1 = 2 /\ serving' = [at |-> "route", req |-> buf[1].req]
        \/ Head1 # 2 /\ \E at \in {"closed", "unknown"} : serving' = [at |-> at, req |-> 0]
    BY DEF FindHead
  <1>8. buf[1].req \in 1..Len(sent) /\ buf[1].req \in Nat /\ buf[1].req = Stream[1].req BY <1>5, <1>6, SMTT(30)
  <1>9. ASSUME NEW i \in Nat, Later(Stream, serving, i) PROVE Later(Stream', serving', i)
    <2>1. \A p \in 1..Len(Stream) : Stream[p].req > i BY <1>1, <1>9 DEF Later
    <2>2. \A p \in 1..Len(Stream') : Stream'[p].req > i BY <1>4, <2>1
    <2>3. serving'.at \in {"route", "body"} => serving'.req > i BY <1>5, <1>7, <1>8, <2>1, SMTT(30)
    <2> QED BY <2>2, <2>3 DEF Later
  <1>10. ASSUME NEW n \in Nat \ {0}, InStep(Stream, sent, serving, n)
         PROVE  InStep(Stream', sent, serving', n)
    <2>1. Head1 = 2 /\ buf[1].req = n /\ Continues(Stream, sent, 2, n) BY <1>1, <1>10, HeadInStep
    <2>2. serving' = [at |-> "route", req |-> n] BY <1>7, <2>1
    <2>3. WellFormed(Stream, sent) BY <1>1, <1>10 DEF InStep
    <2>4. WellFormed(Stream', sent) BY <1>2, <1>3, <2>3, HttpFields, DropWellFormed
    <2>5. Continues(Stream', sent, 0, n)
      <3>1. 0 + 2 = 2 /\ 0 \in Nat /\ 2 \in Nat BY SMTT(30)
      <3>2. Dropped(Stream, Stream', 2) /\ Continues(Stream, sent, 0 + 2, n) BY <1>3, <2>1, <3>1
      <3> QED BY <1>3, <3>1, <3>2, HttpFields, DropContinues
    <2> QED BY <2>2, <2>4, <2>5 DEF InStep
  <1>11. OrderOK(Stream, sent, serving, Answers, executed) BY DEF HttpInv
  <1>12. OrderOK(Stream', sent, serving', Answers, executed) BY <1>9, <1>10, <1>11, HttpFields, Quietly
  <1>13. Answers' = Answers BY <1>1 DEF Answers
  <1>14. serving' \in [at : {"head", "route", "body", "unknown", "closed"}, req : Nat]
         /\ (serving'.at \in {"route", "body"} => serving'.req \in 1..Len(sent))
    BY <1>7, <1>8, SMTT(30)
  <1>15. HttpType' BY <1>1, <1>3, <1>14 DEF HttpInv, HttpType
  <1>16. \A p \in 1..Len(Stream') : Stream'[p].req \in 1..Len(sent) BY <1>4, <1>6
  <1> QED BY <1>1, <1>12, <1>13, <1>14, <1>15, <1>16 DEF HttpInv
-----------------------------------------------------------------------------
\* An answer, whatever is left of the stream.
LEMMA RespondStep ==
  ASSUME HttpInv, NEW status \in Nat, NEW keep, NEW req \in Nat, Respond(status, req, keep),
         UNCHANGED <<sent, wire, got>>, buf' \in Seq(Run), NEW k \in Nat, Dropped(Stream, Stream', k),
         serving.at # "closed", Gained(serving, executed, executed'),
         Clean(sent, Len(Answers) + 1) => AnswerOK(sent, executed', [status |-> status, req |-> req], Len(Answers) + 1),
         keep /\ Clean(sent, Len(Answers) + 2) =>
            /\ Continues(Stream, sent, 0, Len(Answers) + 1) /\ k = BodySize(sent, Len(Answers) + 1)
            /\ WellFormed(Stream, sent)
  PROVE  HttpInv'
  <1> DEFINE a == [status |-> status, req |-> req]
             n == Len(Answers) + 1
  <1>1. a \in Answer BY DEF Answer
  <1>2. replies' = Append(replies, a) /\ (serving' = IF keep THEN AtHead ELSE [at |-> "closed", req |-> 0])
    BY DEF Respond
  <1>3. Answers' = Append(Answers, a) /\ replies' \in Seq(Answer)
    BY <1>1, <1>2, HttpFields, AnswerLast DEF Answers
  <1>4. Stream' \in Seq(Run)
    <2>1. wire' \in Seq(Run) BY HttpFields
    <2> QED BY <2>1, ConcatProperties DEF Stream
  <1>5. \A p \in 1..Len(Stream') : \E r \in 1..Len(Stream) : Stream'[p] = Stream[r]
    BY <1>4, HttpFields, DropReqs
  <1>6. /\ serving' \in [at : {"head", "route", "body", "unknown", "closed"}, req : Nat]
        /\ serving'.at \in {"head", "closed"} /\ (serving'.at = "head" => keep)
    BY <1>2 DEF AtHead
  <1>7. ASSUME NEW i \in Nat, Later(Stream, serving, i) PROVE Later(Stream', serving', i)
    <2>1. \A p \in 1..Len(Stream) : Stream[p].req > i BY <1>7 DEF Later
    <2>2. \A p \in 1..Len(Stream') : Stream'[p].req > i BY <1>5, <2>1
    <2> QED BY <1>6, <2>2 DEF Later
  <1>8. n \in Nat /\ n + 1 = Len(Answers) + 2 BY HttpFields, SMTT(30)
  <1>9. ASSUME Clean(sent, Len(Answers) + 2)
        PROVE  Later(Stream', serving', n) /\ InStep(Stream', sent, serving', n + 1)
    <2>1. CASE serving'.at = "closed" BY <2>1 DEF Later, InStep
    <2>2. CASE serving'.at = "head"
      <3>1. /\ Continues(Stream, sent, 0, n) /\ k = BodySize(sent, n) /\ WellFormed(Stream, sent)
        BY <1>6, <1>9, <2>2
      <3>2. AtRequest(Stream', sent, n + 1) BY <1>4, <3>1, HttpFields, PastBody
      <3>3. WellFormed(Stream', sent) BY <1>4, <3>1, HttpFields, DropWellFormed
      <3>4. \A p \in 1..Len(Stream') : Stream'[p].req > n BY <1>4, <1>8, <3>2, <3>3, NothingEarlier
      <3> QED BY <2>2, <3>2, <3>3, <3>4 DEF Later, InStep
    <2> QED BY <1>6, <2>1, <2>2
  <1>10. OrderOK(Stream, sent, serving, Answers, executed) BY DEF HttpInv
  <1> HIDE DEF a
  <1>11. Clean(sent, Len(Answers) + 1) => AnswerOK(sent, executed', a, Len(Answers) + 1) BY DEF a
  <1>12. OrderOK(Stream', sent, serving', Append(Answers, a), executed')
    <2>1. Clean(sent, Len(Answers) + 2) =>
            Later(Stream', serving', Len(Answers) + 1) /\ InStep(Stream', sent, serving', Len(Answers) + 2)
      BY <1>8, <1>9
    <2> HIDE DEF n
    <2> QED BY <1>1, <1>7, <1>10, <1>11, <2>1, HttpFields, Answered
  <1>13. executed' \in Seq(Nat)
    <2>1. serving.req \in Nat /\ executed \in Seq(Nat) BY HttpFields
    <2>2. Append(executed, serving.req) \in Seq(Nat) BY <2>1, SMTT(30)
    <2> QED BY <2>1, <2>2 DEF Gained
  <1>14. HttpType' BY <1>3, <1>6, <1>13 DEF HttpInv, HttpType
  <1>15. \A p \in 1..Len(Stream') : Stream'[p].req \in 1..Len(sent)
    <2>1. \A p \in 1..Len(Stream) : Stream[p].req \in 1..Len(sent) BY DEF HttpInv
    <2> QED BY <1>5, <2>1
  <1>16. ~ (serving'.at \in {"route", "body"}) BY <1>6
  <1> QED BY <1>3, <1>12, <1>14, <1>15, <1>16 DEF HttpInv

\* UnknownRoute happens only out of step.
LEMMA UnknownRouteStep ==
  ASSUME HttpInv, UnknownRoute
  PROVE  HttpInv'
  <1>1. serving.at = "unknown" /\ UNCHANGED <<sent, wire, buf, got, executed>> BY DEF UnknownRoute
  <1>2. PICK keep \in BOOLEAN : Respond(404, 0, keep) BY DEF UnknownRoute
  <1>3. ~ Clean(sent, Len(Answers) + 1) /\ ~ Clean(sent, Len(Answers) + 2)
    <2>1. ~ Clean(sent, Len(Answers) + 1) BY <1>1 DEF HttpInv, OrderOK, InStep
    <2>2. Len(Answers) + 1 \in Nat /\ (Len(Answers) + 1) + 1 = Len(Answers) + 2 BY HttpFields, SMTT(30)
    <2>3. Clean(sent, (Len(Answers) + 1) + 1) => Clean(sent, Len(Answers) + 1) BY <2>2, HttpFields, CleanNext
    <2> QED BY <2>1, <2>2, <2>3
  <1>4. Stream' = Stream /\ buf' \in Seq(Run) BY <1>1, HttpFields DEF Stream
  <1>5. 404 \in Nat /\ 0 \in Nat /\ Dropped(Stream, Stream', 0) BY <1>4, HttpFields, DropNothing, SMTT(30)
  <1>6. Gained(serving, executed, executed') BY <1>1 DEF Gained
  <1> QED BY <1>1, <1>2, <1>3, <1>4, <1>5, <1>6, RespondStep

\* Where the task is when it is in step.
LEMMA InHand ==
  ASSUME HttpInv, serving.at \in {"route", "body"}, Clean(sent, Len(Answers) + 1)
  PROVE  /\ serving.req = Len(Answers) + 1 /\ Continues(Stream, sent, 0, Len(Answers) + 1)
         /\ WellFormed(Stream, sent)
         /\ serving.at = "body" => sent[serving.req].route = "rpc"
         /\ \A m \in 1..Len(executed) : executed[m] < Len(Answers) + 1
  <1>1. InStep(Stream, sent, serving, Len(Answers) + 1) /\ \A m \in 1..Len(executed) : executed[m] <= Len(Answers)
    BY DEF HttpInv, OrderOK
  <1>2. \A m \in 1..Len(executed) : executed[m] < Len(Answers) + 1
    <2>1. executed \in Seq(Nat) /\ Len(Answers) \in Nat BY HttpFields, SMTT(30)
    <2>2. \A m \in 1..Len(executed) : executed[m] \in Nat BY <2>1, SMTT(30)
    <2> QED BY <1>1, <2>1, <2>2, SMTT(30)
  <1> QED BY <1>1, <1>2 DEF InStep

\* When the next request is clean, the one in hand is drained.
LEMMA NextClean ==
  ASSUME HttpInv, Clean(sent, Len(Answers) + 2)
  PROVE  Clean(sent, Len(Answers) + 1) /\ Drained(sent, Len(Answers) + 1)
  <1>1. Len(Answers) + 1 \in Nat /\ Len(Answers) + 1 # 0 /\ (Len(Answers) + 1) + 1 = Len(Answers) + 2
    BY HttpFields, SMTT(30)
  <1> QED BY <1>1, HttpFields, CleanNext

\* A route that answers without the body.
LEMMA RouteAnswers ==
  ASSUME HttpInv, serving.at = "route", NEW status \in Nat, NEW keep,
         Respond(status, serving.req, keep), UNCHANGED <<sent, wire, buf, got, executed>>,
         status = 200 => sent[serving.req].route = "ping",
         keep => sent[serving.req].route # "rpc"
  PROVE  HttpInv'
  <1> DEFINE n == Len(Answers) + 1
  <1>1. Stream' = Stream /\ buf' \in Seq(Run) BY HttpFields DEF Stream
  <1>2. serving.req \in Nat /\ 0 \in Nat /\ Dropped(Stream, Stream', 0) BY <1>1, HttpFields, DropNothing
  <1>3. Gained(serving, executed, executed') BY DEF Gained
  <1>4. ASSUME Clean(sent, n)
        PROVE  AnswerOK(sent, executed', [status |-> status, req |-> serving.req], n)
    <2>1. serving.req = n /\ n \in 1..Len(sent) BY <1>4, InHand DEF Continues
    <2> QED BY <2>1 DEF AnswerOK
  <1>5. ASSUME keep, Clean(sent, Len(Answers) + 2)
        PROVE  Continues(Stream, sent, 0, n) /\ 0 = BodySize(sent, n) /\ WellFormed(Stream, sent)
    <2>1. Clean(sent, n) /\ Drained(sent, n) BY <1>5, NextClean
    <2>2. serving.req = n /\ Continues(Stream, sent, 0, n) /\ WellFormed(Stream, sent) BY <2>1, InHand
    <2>3. n \in 1..Len(sent) /\ sent[n].body \in BOOLEAN BY <2>1, HttpFields, KindFields DEF Drained
    <2>4. ~ sent[n].body BY <1>5, <2>1, <2>2, <2>3 DEF Drained
    <2> QED BY <2>2, <2>4 DEF BodySize
  <1> QED BY <1>1, <1>2, <1>3, <1>4, <1>5, RespondStep

\* A route that goes on to the body keeps the invariant.
LEMMA RouteToBody ==
  ASSUME HttpInv, serving.at = "route", sent[serving.req].route = "rpc",
         serving' = [serving EXCEPT !.at = "body"], UNCHANGED <<sent, wire, buf, got, executed, replies>>
  PROVE  HttpInv'
  <1>1. Stream' = Stream /\ Answers' = Answers BY DEF Stream, Answers
  <1>2. serving' = [at |-> "body", req |-> serving.req] BY HttpFields
  <1>3. serving.req \in 1..Len(sent) BY DEF HttpInv
  <1>4. \A i \in Nat : Later(Stream, serving, i) => Later(Stream, serving', i) BY <1>2 DEF Later
  <1>5. \A n \in Nat \ {0} : InStep(Stream, sent, serving, n) => InStep(Stream, sent, serving', n)
    BY <1>2 DEF InStep
  <1>6. OrderOK(Stream, sent, serving, Answers, executed) BY DEF HttpInv
  <1>7. OrderOK(Stream, sent, serving', Answers, executed) BY <1>4, <1>5, <1>6, HttpFields, Quietly
  <1>8. HttpType' BY <1>2, HttpFields DEF HttpInv, HttpType
  <1> QED BY <1>1, <1>2, <1>3, <1>7, <1>8 DEF HttpInv

\* Route keeps the invariant.
LEMMA RouteStep ==
  ASSUME HttpInv, Route
  PROVE  HttpInv'
  <1> DEFINE kind == sent[serving.req]
  <1>1. serving.at = "route" /\ UNCHANGED <<sent, wire, buf, got, executed>> BY DEF Route
  <1>2. serving.req \in 1..Len(sent) BY <1>1 DEF HttpInv
  <1>3. kind.route \in {"rpc", "ping", "other"} BY <1>2, HttpFields, KindFields
  <1>4. 200 \in Nat /\ 404 \in Nat /\ 411 \in Nat /\ 413 \in Nat /\ 404 # 200 /\ 411 # 200 /\ 413 # 200
    BY SMTT(30)
  <1>5. \/ kind.route = "ping" /\ Respond(200, serving.req, kind.keepAlive)
        \/ kind.route = "other" /\ Respond(404, serving.req, kind.keepAlive)
        \/ Respond(411, serving.req, FALSE)
        \/ Respond(413, serving.req, FALSE)
        \/ kind.route = "rpc" /\ serving' = [serving EXCEPT !.at = "body"] /\ UNCHANGED replies
    BY <1>3 DEF Route
  <1>6. CASE kind.route = "ping" /\ Respond(200, serving.req, kind.keepAlive)
    BY <1>1, <1>4, <1>6, RouteAnswers, SMTT(30)
  <1>7. CASE kind.route = "other" /\ Respond(404, serving.req, kind.keepAlive)
    BY <1>1, <1>4, <1>7, RouteAnswers, SMTT(30)
  <1>8. CASE Respond(411, serving.req, FALSE)
    <2>1. \A keep : ~ keep /\ Respond(411, serving.req, keep) => HttpInv' BY <1>1, <1>4, RouteAnswers, SMTT(30)
    <2> QED BY <1>8, <2>1
  <1>9. CASE Respond(413, serving.req, FALSE)
    <2>1. \A keep : ~ keep /\ Respond(413, serving.req, keep) => HttpInv' BY <1>1, <1>4, RouteAnswers, SMTT(30)
    <2> QED BY <1>9, <2>1
  <1>10. CASE kind.route = "rpc" /\ serving' = [serving EXCEPT !.at = "body"] /\ UNCHANGED replies
    BY <1>1, <1>10, RouteToBody
  <1> QED BY <1>5, <1>6, <1>7, <1>8, <1>9, <1>10

\* A body that is the request's own was sent with it.
LEMMA OwnBody ==
  ASSUME NEW b \in Seq(Run), NEW w \in Seq(Run), NEW snt \in Seq(Kinds), NEW n \in Nat,
         Continues(b \o w, snt, 0, n), Len(b) >= BodyRuns, SubSeq(b, 1, BodyRuns) = BodyOf(n)
  PROVE  BodySize(snt, n) = BodyRuns
  <1>1. BodyRuns \in Nat /\ n \in 1..Len(snt) BY HttpAssumption DEF Continues
  <1>2. CASE BodyRuns = 0 \/ snt[n].body BY <1>1, <1>2, KindFields DEF BodySize
  <1>3. CASE BodyRuns # 0 /\ ~ snt[n].body
    <2>1. BodySize(snt, n) = 0 BY <1>3 DEF BodySize
    <2>2. 1 \in 1..BodyRuns /\ 1 \in 1..Len(b) BY <1>1, <1>3, SMTT(30)
    <2>3. (b \o w)[1] = b[1] /\ Len(b \o w) >= 1 /\ Len(b \o w) \in Nat BY <2>2, FrontOfStream, SMTT(30)
    <2>4. (b \o w)[1] = [req |-> n + 1, part |-> "head"]
      <3>1. 0 + 0 # Len(b \o w) /\ 0 + 0 + 1 = 1 BY <2>3, SMTT(30)
      <3> QED BY <2>1, <3>1 DEF Continues
    <2>5. b[1] = [req |-> n, part |-> "body"]
      <3>1. BodyOf(n)[1] = [req |-> n, part |-> "body"] BY <2>2 DEF BodyOf
      <3>2. SubSeq(b, 1, BodyRuns)[1] = b[1]
        <4>1. 1 \in Int /\ BodyRuns \in Int /\ (\A i \in 1..BodyRuns : b[i] \in Run)
              /\ 1 \in 1..BodyRuns - 1 + 1 /\ 1 + 1 - 1 = 1
          BY <1>1, <2>2, SMTT(30)
        <4> QED BY <4>1, SubSeqProperties, SMTT(30)
      <3> QED BY <3>1, <3>2
    <2>6. [req |-> n + 1, part |-> "head"].part # [req |-> n, part |-> "body"].part OBVIOUS
    <2> QED BY <2>3, <2>4, <2>5, <2>6
  <1> QED BY <1>2, <1>3

\* DecodeBody keeps the invariant: it takes the request's own body or ends the connection.
LEMMA DecodeStep ==
  ASSUME HttpInv, DecodeBody
  PROVE  HttpInv'
  <1> DEFINE n == Len(Answers) + 1
             keep == sent[serving.req].keepAlive
  <1>1. serving.at = "body" /\ Len(buf) >= BodyRuns /\ UNCHANGED <<sent, wire, got>> BY DEF DecodeBody
  <1>2. BodyRuns \in Nat /\ BodyRuns \in 0..Len(buf) BY <1>1, HttpAssumption, HttpFields, SMTT(30)
  <1>3. CASE serving' = [at |-> "closed", req |-> 0] /\ UNCHANGED <<buf, executed, replies>>
    <2>1. Stream' = Stream /\ Answers' = Answers BY <1>1, <1>3 DEF Stream, Answers
    <2>2. \A i \in Nat : Later(Stream, serving, i) => Later(Stream, serving', i) BY <1>3 DEF Later
    <2>3. \A q \in Nat \ {0} : InStep(Stream, sent, serving, q) => InStep(Stream, sent, serving', q)
      BY <1>3 DEF InStep
    <2>4. OrderOK(Stream, sent, serving, Answers, executed) BY DEF HttpInv
    <2>5. OrderOK(Stream, sent, serving', Answers, executed) BY <2>2, <2>3, <2>4, HttpFields, Quietly
    <2>6. HttpType' BY <1>1, <1>3, HttpFields DEF HttpInv, HttpType
    <2> QED BY <1>1, <1>3, <2>1, <2>5, <2>6 DEF HttpInv
  <1>4. CASE /\ SubSeq(buf, 1, BodyRuns) = BodyOf(serving.req)
             /\ buf' = SubSeq(buf, BodyRuns + 1, Len(buf))
             /\ executed' = Append(executed, serving.req)
             /\ Respond(200, serving.req, keep)
    <2>1. buf' \in Seq(Run) /\ Dropped(Stream, Stream', BodyRuns)
      BY <1>1, <1>2, <1>4, HttpFields, TakeFront DEF Stream
    <2>2. Gained(serving, executed, executed') BY <1>1, <1>4 DEF Gained
    <2>3. ASSUME Clean(sent, n)
          PROVE  AnswerOK(sent, executed', [status |-> 200, req |-> serving.req], n)
      <3>1. /\ serving.req = n /\ n \in 1..Len(sent) /\ sent[n].route = "rpc"
            /\ \A m \in 1..Len(executed) : executed[m] < n
        BY <1>1, <2>3, InHand DEF Continues
      <3>2. RanOnce(executed', n) BY <1>4, <3>1, HttpFields, RunsOnce
      <3> QED BY <3>1, <3>2 DEF AnswerOK
    <2>4. ASSUME Clean(sent, Len(Answers) + 2)
          PROVE  Continues(Stream, sent, 0, n) /\ BodyRuns = BodySize(sent, n) /\ WellFormed(Stream, sent)
      <3>1. Clean(sent, n) BY <2>4, NextClean
      <3>2. serving.req = n /\ Continues(Stream, sent, 0, n) /\ WellFormed(Stream, sent)
        BY <1>1, <3>1, InHand
      <3>3. n \in Nat BY HttpFields, SMTT(30)
      <3>4. BodySize(sent, n) = BodyRuns
        <4> HIDE DEF n
        <4> QED BY <1>1, <1>4, <3>2, <3>3, HttpFields, OwnBody DEF Stream
      <3> QED BY <3>2, <3>4
    <2>5. 200 \in Nat /\ serving.req \in Nat /\ serving.at # "closed" BY <1>1, HttpFields, SMTT(30)
    <2> QED BY <1>1, <1>2, <1>4, <2>1, <2>2, <2>3, <2>4, <2>5, RespondStep
  <1> QED BY <1>3, <1>4 DEF DecodeBody
-----------------------------------------------------------------------------
\* Nothing was sent at the start.
LEMMA HttpInitial == HttpInit => HttpInv
  <1> SUFFICES ASSUME HttpInit PROVE HttpInv OBVIOUS
  <1>1. /\ sent = <<>> /\ wire = <<>> /\ buf = <<>> /\ serving = AtHead
        /\ replies = <<>> /\ got = <<>> /\ executed = <<>>
    BY DEF HttpInit
  <1>2. Stream = <<>> /\ Answers = <<>>
    <2>1. <<>> \o <<>> = <<>> BY SMTT(30)
    <2> QED BY <1>1, <2>1 DEF Stream, Answers
  <1>3. HttpType BY <1>1, SMTT(30) DEF HttpType, AtHead
  <1>4. Len(<<>>) = 0 /\ \A x \in 1..0 : FALSE BY SMTT(30)
  <1>5. WellFormed(<<>>, <<>>) /\ AtRequest(<<>>, <<>>, 0 + 1) BY <1>4 DEF WellFormed, AtRequest
  <1>6. serving.at = "head" BY <1>1 DEF AtHead
  <1>7. InStep(<<>>, <<>>, serving, 0 + 1) BY <1>5, <1>6 DEF InStep
  <1>8. OrderOK(Stream, sent, serving, Answers, executed) BY <1>1, <1>2, <1>4, <1>7 DEF OrderOK
  <1> QED BY <1>2, <1>3, <1>4, <1>6, <1>8 DEF HttpInv

\* Every step keeps the invariant.
LEMMA HttpInductive == HttpInv /\ [HttpNext]_httpVars => HttpInv'
  <1> SUFFICES ASSUME HttpInv, [HttpNext]_httpVars PROVE HttpInv' OBVIOUS
  <1>1. CASE FindHead BY <1>1, FindHeadStep
  <1>2. CASE ReadHead
    <2>1. PICK n \in 1..MaxChunk : n <= Len(wire) /\ Fill(n) BY <1>2 DEF ReadHead
    <2>2. n \in Nat \ {0} BY HttpAssumption, SMTT(30)
    <2> QED BY <1>2, <2>1, <2>2, FillStep DEF ReadHead
  <1>3. CASE Route BY <1>3, RouteStep
  <1>4. CASE UnknownRoute BY <1>4, UnknownRouteStep
  <1>5. CASE ReadBody
    <2>1. PICK n \in 1..MaxChunk : n <= Len(wire) /\ n <= BodyRuns - Len(buf) /\ Fill(n)
      BY <1>5 DEF ReadBody
    <2>2. n \in Nat \ {0} BY HttpAssumption, SMTT(30)
    <2> QED BY <1>5, <2>1, <2>2, FillStep DEF ReadBody
  <1>6. CASE DecodeBody BY <1>6, DecodeStep
  <1>7. CASE ReadReply BY <1>7, ReadReplyStep
  <1>8. ASSUME NEW kind \in Kinds, SendRequest(kind) PROVE HttpInv' BY <1>8, SendStep
  <1>9. CASE UNCHANGED httpVars
    BY <1>9 DEF HttpInv, HttpType, Stream, Answers, httpVars
  <1> QED BY <1>1, <1>2, <1>3, <1>4, <1>5, <1>6, <1>7, <1>8, <1>9 DEF HttpNext, TaskStep

\* What ran once is counted once.
LEMMA RanOnceCounted ==
  ASSUME NEW ex, NEW i, RanOnce(ex, i)
  PROVE  Cardinality({m \in 1..Len(ex) : ex[m] = i}) = 1
  <1>1. PICK m \in 1..Len(ex) : ex[m] = i /\ \A r \in 1..Len(ex) : ex[r] = i => r = m BY DEF RanOnce
  <1>2. {r \in 1..Len(ex) : ex[r] = i} = {m} BY <1>1
  <1> QED BY <1>2, FS_Singleton

\* The invariant gives the order of the answers.
LEMMA HttpInOrder == HttpInv => AnswersInOrder
  <1> SUFFICES ASSUME HttpInv, NEW i \in 1..Len(got), \A j \in 1..i - 1 : BodyDrained(j)
               PROVE  Matches(i)
    BY DEF AnswersInOrder
  <1>1. /\ Len(got) \in Nat /\ Len(Answers) >= Len(got) /\ Len(Answers) \in Nat /\ i \in Nat
        /\ \A j \in 1..Len(got) : j \in 1..Len(Answers) /\ Answers[j] = got[j]
    <2>1. /\ Len(Answers) = Len(got) + Len(replies)
          /\ \A p \in 1..Len(got) + Len(replies) : Answers[p] = IF p <= Len(got) THEN got[p] ELSE replies[p - Len(got)]
      BY HttpFields, ConcatProperties DEF Answers
    <2>2. Len(got) \in Nat /\ Len(replies) \in Nat BY HttpFields, SMTT(30)
    <2>3. \A j \in 1..Len(got) : j \in 1..Len(got) + Len(replies) /\ j <= Len(got) BY <2>2, SMTT(30)
    <2> QED BY <2>1, <2>2, <2>3, SMTT(30)
  <1>2. OrderOK(Stream, sent, serving, Answers, executed) BY DEF HttpInv
  <1>3. \A j \in 1..Len(got) : Clean(sent, j) => AnswerOK(sent, executed, got[j], j)
    BY <1>1, <1>2 DEF OrderOK
  <1>4. Clean(sent, i)
    <2>1. Len(sent) \in Nat BY HttpFields, SMTT(30)
    <2>2. CASE i - 1 <= Len(sent)
      <3>1. \A j \in 1..i - 1 : j \in 1..Len(sent) BY <1>1, <2>1, <2>2, SMTT(30)
      <3> QED BY <3>1 DEF Clean, Drained, BodyDrained
    <2>3. CASE ~ (i - 1 <= Len(sent))
      <3> DEFINE m == Len(sent) + 1
      <3>1. m \in 1..Len(got) BY <1>1, <2>1, <2>3, SMTT(30)
      <3>2. \A j \in 1..m - 1 : j \in 1..Len(sent) /\ j \in 1..i - 1 BY <1>1, <2>1, <2>3, SMTT(30)
      <3>3. Clean(sent, m) BY <3>2 DEF Clean, Drained, BodyDrained
      <3>4. m \in 1..Len(sent) BY <1>3, <3>1, <3>3 DEF AnswerOK
      <3> QED BY <2>1, <3>4, SMTT(30)
    <2> QED BY <2>2, <2>3
  <1>5. AnswerOK(sent, executed, got[i], i) BY <1>3, <1>4
  <1> QED BY <1>5, RanOnceCounted, SMTT(30) DEF AnswerOK, Matches

\* However many requests a peer pipelines, of whatever kinds, and however the
\* stream is cut into chunks, the answers of a connection come in the order of
\* the requests, each to its own, and a 200 of the rpc route stands for exactly
\* one execution, as long as the routes in front took the bodies they were sent
\* (read_compio_until_double_crlf, process_compio_http_route).
THEOREM AnswersInOrderHolds == HttpSpec => []AnswersInOrder
  <1>1. HttpInv => AnswersInOrder BY HttpInOrder
  <1> QED BY HttpInitial, HttpInductive, <1>1, PTL DEF HttpSpec
=============================================================================
