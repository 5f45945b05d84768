---------------------------- MODULE StoreProofs -----------------------------
(***************************************************************************)
(* What the clients of the bucket and of the disk promise, for any number  *)
(* of them, of payloads, retries and faults.                               *)
(*                                                                         *)
(* Object store clients (SwapsAreAtomic): they implement CasRegister, on   *)
(* every backend that does not ignore the conditions it accepts.           *)
(*                                                                         *)
(* The flat-file cache returns whole payloads of the key it was asked for, *)
(* for any number of threads, keys, chunks and puts: an inode under a      *)
(* final name is whole, because a writer writes under its temporary name   *)
(* alone, and a reader keeps the inode it opened. Asks for one writer per  *)
(* key, and one key per file.                                              *)
(***************************************************************************)
EXTENDS ObjectStore, FlatCache, SequenceTheorems, TLAPS

\* A leaf that names no prover is left to Zenon.
USE ZenonT(30)

SwapOps == {"update", "create"}
WriteOps == {"put", "overwrite", "delete", "cas"}
Ops == {"idle", "read", "ensure"} \cup SwapOps \cup WriteOps
Ats == {"none", "get", "put", "cond", "refused", "head", "bucket", "probe"}
CallRec == [op : Ops, at : Ats, from : Contents, to : Contents, body : Contents,
            tries : Nat, applied : BOOLEAN, missed : BOOLEAN]

TokenType == [Clients -> [kind : {"none", "etag", "hash"}, of : Contents]]

CasType ==
    /\ object \in Contents /\ backend \in Backends /\ backend.cond # "ignores"
    /\ call \in [Clients -> CallRec]
    /\ token \in TokenType

\* Which calls make which requests. A conditional put reads only after it met
\* another value, and a backend that refuses conditions applies none.
CallInv(r) ==
    /\ r.at = "none" => r.op = "idle"
    /\ r.at = "refused" => r.op \in SwapOps /\ ~r.applied
    /\ r.at = "cond" => r.op \in SwapOps
    /\ r.at = "get" => r.op \in {"read", "cas"} \/ (r.op \in SwapOps /\ r.missed)
    /\ r.at = "head" => r.op = "read" \/ (r.op \in SwapOps /\ r.missed)
    /\ r.at = "put" => r.op \in WriteOps
    /\ r.at \in {"bucket", "probe"} => r.op = "ensure"
    /\ r.op = "idle" => r.at = "none"
    /\ r.applied => backend.cond # "refuses"

CasInv == CasType /\ \A c \in Clients : CallInv(call[c])

\* What the register sees of all calls, and a step of it or none.
RegisterOps == [c \in Clients |-> RegisterOp(c)]
RegisterStep == Register!RegNext \/ UNCHANGED Register!regVars

-----------------------------------------------------------------------------
\* An absent object is a content.
LEMMA ContentsHasAbsent == Absent \in Contents /\ Payloads \subseteq Contents
  BY DEF Contents

\* A client at rest.
LEMMA IdleRec == Idle \in CallRec /\ Idle.op = "idle"
  BY ContentsHasAbsent DEF Idle, CallRec, Ops, Ats

\* What a handle's own step changes of the register's view.
LEMMA OwnCall ==
  ASSUME CasType, NEW c \in Clients, NEW r, call' = [call EXCEPT ![c] = r], UNCHANGED backend
  PROVE  /\ call'[c] = r /\ \A d \in Clients \ {c} : call'[d] = call[d]
         /\ RegisterOps' = [RegisterOps EXCEPT ![c] = RegisterOp(c)']
  <1>1. call'[c] = r /\ \A d \in Clients \ {c} : call'[d] = call[d]
    BY DEF CasType
  <1>2. \A d \in Clients \ {c} : RegisterOp(d)' = RegisterOp(d)
    BY <1>1 DEF RegisterOp, Kind, InMemory
  <1> QED BY <1>1, <1>2 DEF RegisterOps

\* A running call is one for the register.
LEMMA Running ==
  ASSUME NEW c \in Clients, call[c].op # "idle"
  PROVE  /\ RegisterOp(c) # Register!NoCall
         /\ RegisterOp(c) = [kind |-> Kind(c), from |-> call[c].from, to |-> call[c].to,
                             missed |-> call[c].missed, applied |-> call[c].applied]
  BY DEF RegisterOp, Register!NoCall, Kind

\* End is the end of the register's call.
LEMMA EndStep ==
  ASSUME CasType, NEW c \in Clients, call[c].op # "idle", NEW result, End(c, result), UNCHANGED backend
  PROVE  Register!EndCall(c, result)
  <1>1. call' = [call EXCEPT ![c] = Idle] /\ outcome' = [outcome EXCEPT ![c] = result]
    BY DEF End
  <1>2. call'[c] = Idle /\ RegisterOps' = [RegisterOps EXCEPT ![c] = RegisterOp(c)']
    BY <1>1, OwnCall
  <1>3. RegisterOp(c)' = Register!NoCall
    BY <1>2, IdleRec DEF RegisterOp, Register!NoCall
  <1> QED BY <1>1, <1>2, <1>3, Running DEF Register!EndCall, RegisterOps

\* A request that is repeated, or followed by another, is no step.
LEMMA SameCall ==
  ASSUME CasType, NEW c \in Clients, NEW r, call' = [call EXCEPT ![c] = r], UNCHANGED backend,
         r.op = call[c].op, r.from = call[c].from, r.to = call[c].to,
         r.missed = call[c].missed, r.applied = call[c].applied
  PROVE  RegisterOps' = RegisterOps
  <1>1. call'[c] = r /\ RegisterOps' = [RegisterOps EXCEPT ![c] = RegisterOp(c)']
    BY OwnCall
  <1>2. RegisterOp(c)' = RegisterOp(c)
    BY <1>1 DEF RegisterOp, Kind, InMemory
  <1> QED BY <1>1, <1>2 DEF RegisterOps

\* A step of one call keeps the invariant when what it makes of its call does.
LEMMA Keeps ==
  ASSUME CasInv, NEW c \in Clients, NEW r \in CallRec, CallInv(r), call' = [call EXCEPT ![c] = r],
         object' \in Contents, token' \in TokenType, UNCHANGED backend
  PROVE  CasInv'
  <1>1. call'[c] = r /\ \A d \in Clients \ {c} : call'[d] = call[d]
    BY DEF CasInv, CasType
  <1>2. CasType'
    BY DEF CasInv, CasType
  <1>3. ASSUME NEW d \in Clients PROVE CallInv(call[d])'
    <2>1. CASE d = c
      BY <2>1, <1>1, SMTT(30) DEF CallInv
    <2>2. CASE d # c
      BY <2>2, <1>1, SMTT(30) DEF CasInv, CallInv
    <2> QED BY <2>1, <2>2
  <1> QED BY <1>2, <1>3 DEF CasInv

\* A call that ends keeps the invariant.
LEMMA EndKeeps ==
  ASSUME CasInv, NEW c \in Clients, NEW result, End(c, result),
         object' \in Contents, token' \in TokenType, UNCHANGED backend
  PROVE  CasInv'
  <1>1. Idle \in CallRec /\ CallInv(Idle)
    BY IdleRec DEF Idle, CallInv
  <1> QED BY <1>1, Keeps DEF End

\* The call goes on with another request.
LEMMA GoStep ==
  ASSUME CasInv, NEW c \in Clients, NEW at \in Ats, NEW n \in Nat,
         call' = [call EXCEPT ![c].at = at, ![c].tries = n],
         CallInv([call[c] EXCEPT !.at = at, !.tries = n]),
         object' \in Contents, token' \in TokenType, UNCHANGED backend
  PROVE  CasInv' /\ RegisterOps' = RegisterOps
  <1> DEFINE r == [call[c] EXCEPT !.at = at, !.tries = n]
  <1>1. call[c] \in CallRec
    BY DEF CasInv, CasType
  <1>2. /\ r \in CallRec
        /\ r.op = call[c].op /\ r.from = call[c].from /\ r.to = call[c].to
        /\ r.missed = call[c].missed /\ r.applied = call[c].applied
    BY <1>1 DEF CallRec
  <1>3. call' = [call EXCEPT ![c] = r]
    OBVIOUS
  <1>4. CallInv(r)
    OBVIOUS
  <1> HIDE DEF r
  <1>5. CasInv'
    BY <1>2, <1>3, <1>4, Keeps
  <1> QED BY <1>2, <1>3, <1>5, SameCall DEF CasInv

\* A failed request is made again, or ends the call with an error.
LEMMA AgainStep ==
  ASSUME CasInv, NEW c \in Clients, call[c].op # "idle", NEW last, Again(c, last),
         object' \in Contents, token' \in TokenType, UNCHANGED backend
  PROVE  /\ CasInv'
         /\ \/ RegisterOps' = RegisterOps /\ UNCHANGED outcome
            \/ Register!EndCall(c, last)
  <1>1. CASE End(c, last)
    BY <1>1, EndKeeps, EndStep DEF CasInv
  <1>2. CASE call' = [call EXCEPT ![c].tries = @ + 1] /\ UNCHANGED outcome
    <2> DEFINE r == [call[c] EXCEPT !.tries = call[c].tries + 1]
    <2>1. call[c] \in CallRec /\ CallInv(call[c])
      BY DEF CasInv, CasType
    <2>2. /\ r \in CallRec
          /\ r.op = call[c].op /\ r.at = call[c].at /\ r.from = call[c].from /\ r.to = call[c].to
          /\ r.missed = call[c].missed /\ r.applied = call[c].applied
      BY <2>1, SMTT(30) DEF CallRec
    <2>3. call' = [call EXCEPT ![c] = r]
      BY <1>2
    <2> HIDE DEF r
    <2>4. CallInv(r)
      BY <2>1, <2>2 DEF CallInv
    <2> QED BY <1>2, <2>2, <2>3, <2>4, Keeps, SameCall DEF CasInv
  <1> QED BY <1>1, <1>2 DEF Again

\* A step that moves no register operation is a stutter of the register.
LEMMA NoStep ==
  ASSUME UNCHANGED <<object, outcome>>, RegisterOps' = RegisterOps
  PROVE  RegisterStep
  BY DEF RegisterStep, RegisterOps, Register!regVars

\* The ends of a call that leave the register alone.
LEMMA EndedStep ==
  ASSUME NEW c \in Clients, NEW result, Register!EndCall(c, result), UNCHANGED object,
         \/ result = "Err"
         \/ result = "Ok" /\ RegisterOp(c).kind # "swap"
         \/ result = "Conflict" /\ RegisterOp(c).kind = "swap" /\ RegisterOp(c).missed
         \/ result = "Unsupported" /\ RegisterOp(c).kind = "swap" /\ ~RegisterOp(c).applied
  PROVE  RegisterStep
  <1>1. Register!EndOther(c) \/ Register!Conflict(c) \/ Register!Unsupported(c)
    BY DEF Register!EndOther, Register!Conflict, Register!Unsupported
  <1> QED BY <1>1 DEF RegisterStep, Register!RegNext

\* What a kind of call is to the register.
LEMMA Kinds ==
  ASSUME CasInv, NEW c \in Clients, call[c].op # "idle"
  PROVE  /\ RegisterOp(c).kind = Kind(c) /\ RegisterOp(c).from = call[c].from
         /\ RegisterOp(c).to = call[c].to
         /\ RegisterOp(c).missed = call[c].missed /\ RegisterOp(c).applied = call[c].applied
         /\ call[c].op \in SwapOps => Kind(c) = "swap"
         /\ ~InMemory /\ call[c].op \in WriteOps => Kind(c) = "write"
         /\ call[c].op \in {"put", "overwrite", "delete"} => Kind(c) = "write"
         /\ InMemory /\ call[c].op = "cas" => Kind(c) = "swap"
         /\ call[c].op \in {"read", "ensure"} => Kind(c) = "read"
  BY Running, SMTT(30) DEF Kind, SwapOps, WriteOps

\* A call begins.
LEMMA BeginStep ==
  ASSUME CasInv, NEW c \in Clients, call[c].op = "idle",
         NEW r \in CallRec, CallInv(r), r.op # "idle", ~r.missed, ~r.applied,
         call' = [call EXCEPT ![c] = r], outcome' = [outcome EXCEPT ![c] = "none"],
         UNCHANGED <<object, token, backend>>
  PROVE  CasInv' /\ RegisterStep
  <1>1. r.from \in Contents /\ r.to \in Contents /\ r.missed = FALSE /\ r.applied = FALSE
    BY DEF CallRec
  <1>3. CasInv'
    BY Keeps DEF CasInv, CasType
  <1>4. call'[c] = r /\ RegisterOps' = [RegisterOps EXCEPT ![c] = RegisterOp(c)']
    BY OwnCall DEF CasInv
  <1>5. RegisterOp(c)' = [kind |-> Kind(c)', from |-> r.from, to |-> r.to, missed |-> FALSE, applied |-> FALSE]
    BY <1>1, <1>4 DEF RegisterOp
  <1>6. Kind(c)' \in {"swap", "write", "read"}
    BY DEF Kind
  <1>7. RegisterOp(c)' \in Register!Call
    BY <1>1, <1>5, <1>6, SMTT(30) DEF Register!Call
  <1>8. RegisterOp(c) = Register!NoCall
    BY DEF RegisterOp, Register!NoCall
  <1>9. Register!BeginCall(c)
    BY <1>4, <1>7, <1>8 DEF Register!BeginCall, RegisterOps
  <1> QED BY <1>3, <1>9 DEF RegisterStep, Register!RegNext

\* A call begins.
LEMMA StartStep ==
  ASSUME CasInv, NEW c \in Clients, Start(c)
  PROVE  CasInv' /\ RegisterStep
  <1> USE ContentsHasAbsent
  <1>1. ASSUME NEW op, NEW at, NEW from \in Contents, NEW to \in Contents, Begin(c, op, at, from, to),
               \/ op = "read" /\ at = "get"
               \/ op \in {"put", "overwrite", "delete"} /\ at = "put"
               \/ op = "cas" /\ at = "get"
               \/ op \in SwapOps /\ at \in {"cond", "refused"}
        PROVE  CasInv' /\ RegisterStep
    <2> DEFINE r == [Idle EXCEPT !.op = op, !.at = at, !.from = from, !.to = to]
    <2>1. op \in Ops \ {"idle"} /\ at \in Ats
      BY <1>1 DEF Ops, Ats, SwapOps, WriteOps
    <2>2. r \in CallRec /\ r.op # "idle" /\ ~r.missed /\ ~r.applied
      BY <2>1 DEF CallRec, Idle
    <2>3. CallInv(r)
      BY <1>1 DEF CallInv, Idle, SwapOps, WriteOps
    <2>4. /\ call[c].op = "idle" /\ call' = [call EXCEPT ![c] = r]
          /\ outcome' = [outcome EXCEPT ![c] = "none"] /\ UNCHANGED <<object, token, backend>>
      BY <1>1 DEF Begin
    <2> HIDE DEF r
    <2> QED BY <2>2, <2>3, <2>4, BeginStep
  <1>2. CASE EnsureBucket(c)
    <2> DEFINE r == [Idle EXCEPT !.op = "ensure", !.at = "bucket"]
    <2>1. "ensure" \in Ops /\ "bucket" \in Ats
      BY DEF Ops, Ats
    <2>2. r \in CallRec /\ r.op # "idle" /\ ~r.missed /\ ~r.applied
      BY <2>1 DEF CallRec, Idle, Ops
    <2>3. CallInv(r)
      BY DEF CallInv, Idle, SwapOps, WriteOps
    <2>4. /\ call[c].op = "idle" /\ call' = [call EXCEPT ![c] = r]
          /\ outcome' = [outcome EXCEPT ![c] = "none"] /\ UNCHANGED <<object, token, backend>>
      BY <1>2 DEF EnsureBucket
    <2> HIDE DEF r
    <2> QED BY <2>2, <2>3, <2>4, BeginStep
  <1>3. CASE ReadWithToken(c) \/ DeleteObject(c)
    BY <1>1, <1>3 DEF ReadWithToken, DeleteObject
  <1>4. ASSUME NEW to \in Payloads, PutObject(c, to) \/ Overwrite(c, to)
        PROVE  CasInv' /\ RegisterStep
    BY <1>1, <1>4 DEF PutObject, Overwrite
  <1>5. ASSUME NEW to \in Payloads, NEW from \in Contents, CompareAndSwap(c, from, to)
        PROVE  CasInv' /\ RegisterStep
    BY <1>1, <1>5 DEF CompareAndSwap
  <1>6. ASSUME NEW to \in Payloads, PutIfTokenMatches(c, to) \/ PutIfAbsent(c, to)
        PROVE  CasInv' /\ RegisterStep
    <2>1. token[c].of \in Contents
      BY DEF CasInv, CasType, TokenType
    <2> QED BY <1>1, <1>6, <2>1 DEF PutIfTokenMatches, PutIfAbsent, SwapOps
  <1> QED BY <1>2, <1>3, <1>4, <1>5, <1>6 DEF Start

\* A call that ends without a write.
LEMMA EndOnly ==
  ASSUME CasInv, NEW c \in Clients, call[c].op # "idle", NEW result, End(c, result),
         token' \in TokenType, UNCHANGED <<object, backend>>,
         \/ result = "Err"
         \/ result = "Ok" /\ Kind(c) # "swap"
         \/ result = "Conflict" /\ Kind(c) = "swap" /\ call[c].missed
         \/ result = "Unsupported" /\ Kind(c) = "swap" /\ ~call[c].applied
  PROVE  CasInv' /\ RegisterStep
  <1>1. object' \in Contents
    BY DEF CasInv, CasType
  <1>2. CasInv'
    BY <1>1, EndKeeps
  <1>3. Register!EndCall(c, result)
    BY EndStep DEF CasInv
  <1> QED BY <1>2, <1>3, EndedStep, Kinds

\* A request that failed without effect.
LEMMA AgainOnly ==
  ASSUME CasInv, NEW c \in Clients, call[c].op # "idle", Again(c, "Err"),
         token' \in TokenType, UNCHANGED <<object, backend>>
  PROVE  CasInv' /\ RegisterStep
  <1>1. object' \in Contents
    BY DEF CasInv, CasType
  <1>2. /\ CasInv'
        /\ \/ RegisterOps' = RegisterOps /\ UNCHANGED outcome
           \/ Register!EndCall(c, "Err")
    BY <1>1, AgainStep
  <1> QED BY <1>2, NoStep, EndedStep

\* A call that goes on with another request.
LEMMA GoOnly ==
  ASSUME CasInv, NEW c \in Clients, NEW at \in Ats, Go(c, at),
         CallInv([call[c] EXCEPT !.at = at, !.tries = 0]),
         UNCHANGED <<object, token, backend>>
  PROVE  CasInv' /\ RegisterStep
  <1>1. object' \in Contents /\ token' \in TokenType
    BY DEF CasInv, CasType
  <1>2. CasInv' /\ RegisterOps' = RegisterOps
    BY <1>1, GoStep DEF Go
  <1> QED BY <1>2, NoStep DEF Go

\* What at says of a call.
LEMMA CallFacts ==
  ASSUME CasInv, NEW c \in Clients
  PROVE  call[c] \in CallRec /\ CallInv(call[c]) /\ token \in TokenType
  BY DEF CasInv, CasType

\* The GET request.
LEMMA GetStep ==
  ASSUME CasInv, NEW c \in Clients, Get(c)
  PROVE  CasInv' /\ RegisterStep
  <1>1. /\ ~InMemory /\ call[c].at = "get" /\ UNCHANGED <<object, token, backend>>
        /\ Again(c, "Err") \/ Got(c, object)
    BY DEF Get
  <1>2. /\ call[c].op \in {"read", "cas"} \/ (call[c].op \in SwapOps /\ call[c].missed)
        /\ call[c].op # "idle" /\ token' \in TokenType
    BY <1>1, CallFacts DEF CallInv, SwapOps
  <1>3. CASE Again(c, "Err")
    BY <1>1, <1>2, <1>3, AgainOnly
  <1>4. CASE call[c].op = "cas" /\ End(c, "Ok")
    BY <1>1, <1>2, <1>4, EndOnly, Kinds DEF WriteOps
  <1>5. CASE call[c].op = "cas" /\ Go(c, "put")
    <2>1. CallInv([call[c] EXCEPT !.at = "put", !.tries = 0])
      BY <1>5, CallFacts DEF CallInv, CallRec, WriteOps
    <2>2. "put" \in Ats
      BY DEF Ats
    <2> QED BY <1>1, <1>5, <2>1, <2>2, GoOnly
  <1>6. CASE call[c].op = "read" /\ End(c, "Ok")
    BY <1>1, <1>2, <1>6, EndOnly, Kinds
  <1>7. CASE /\ call[c].op = "read" /\ UNCHANGED outcome
             /\ call' = [call EXCEPT ![c].at = "head", ![c].tries = 0, ![c].body = object]
    <2> DEFINE r == [call[c] EXCEPT !.at = "head", !.tries = 0, !.body = object]
    <2>1. object \in Contents /\ "head" \in Ats
      BY DEF CasInv, CasType, Ats
    <2>2. /\ r \in CallRec
          /\ r.op = call[c].op /\ r.from = call[c].from /\ r.to = call[c].to /\ r.at = "head"
          /\ r.missed = call[c].missed /\ r.applied = call[c].applied
      BY <2>1, CallFacts DEF CallRec
    <2>3. call' = [call EXCEPT ![c] = r]
      BY <1>7
    <2> HIDE DEF r
    <2>4. CallInv(r)
      BY <1>7, <2>2, CallFacts DEF CallInv
    <2>5. CasInv'
      BY <1>1, <1>2, <2>1, <2>2, <2>3, <2>4, Keeps
    <2>6. RegisterOps' = RegisterOps
      BY <1>1, <2>2, <2>3, SameCall DEF CasInv
    <2> QED BY <1>1, <1>7, <2>5, <2>6, NoStep
  <1>8. CASE call[c].op \in SwapOps /\ End(c, "Conflict")
    <2>1. call[c].missed
      BY <1>2, <1>8 DEF SwapOps
    <2> QED BY <1>1, <1>2, <1>8, <2>1, EndOnly, Kinds
  <1>9. CASE call[c].op \in SwapOps /\ Go(c, "head")
    <2>1. CallInv([call[c] EXCEPT !.at = "head", !.tries = 0])
      BY <1>2, <1>9, CallFacts DEF CallInv, CallRec, SwapOps
    <2>2. "head" \in Ats
      BY DEF Ats
    <2> QED BY <1>1, <1>9, <2>1, <2>2, GoOnly
  <1> QED BY <1>1, <1>3, <1>4, <1>5, <1>6, <1>7, <1>8, <1>9 DEF Got, SwapOps

\* The HEAD request.
LEMMA HeadStep ==
  ASSUME CasInv, NEW c \in Clients, HeadObject(c)
  PROVE  CasInv' /\ RegisterStep
  <1>1. ~InMemory /\ call[c].at = "head" /\ UNCHANGED <<object, backend>>
    BY DEF HeadObject
  <1>2. /\ call[c].op = "read" \/ (call[c].op \in SwapOps /\ call[c].missed)
        /\ call[c].op # "idle" /\ token \in TokenType
    BY <1>1, CallFacts DEF CallInv, SwapOps
  <1>3. CASE /\ call[c].op = "read" /\ End(c, "Ok")
             /\ token' = [token EXCEPT ![c] =
                    IF object # Absent /\ backend.etag THEN [kind |-> "etag", of |-> object]
                    ELSE [kind |-> "hash", of |-> call[c].body]]
    <2>1. object \in Contents /\ call[c].body \in Contents
      BY CallFacts DEF CasInv, CasType, CallRec
    <2>2. token' \in TokenType
      BY <1>2, <1>3, <2>1 DEF TokenType
    <2> QED BY <1>1, <1>2, <1>3, <2>2, EndOnly, Kinds
  <1>4. CASE call[c].op # "read" /\ End(c, "Conflict") /\ UNCHANGED token
    BY <1>1, <1>2, <1>4, EndOnly, Kinds
  <1>5. CASE Again(c, "Err") /\ UNCHANGED token
    BY <1>1, <1>2, <1>5, AgainOnly
  <1> QED BY <1>3, <1>4, <1>5 DEF HeadObject

\* A call that ends with its write: a swap that found its value, or a plain one.
LEMMA EndWith ==
  ASSUME CasInv, NEW c \in Clients, call[c].op # "idle", NEW result, End(c, result),
         object' = call[c].to, UNCHANGED <<backend, token>>,
         \/ Kind(c) = "swap" /\ object = call[c].from /\ result \in {"Success", "Err"}
         \/ Kind(c) = "write" /\ result \in {"Ok", "Err"}
  PROVE  CasInv' /\ RegisterStep
  <1>1. object' \in Contents /\ token' \in TokenType
    BY CallFacts DEF CallRec
  <1>2. CasInv'
    BY <1>1, EndKeeps
  <1>3. Register!EndCall(c, result)
    BY EndStep DEF CasInv
  <1>4. /\ RegisterOp(c).kind = Kind(c) /\ RegisterOp(c).from = call[c].from
        /\ RegisterOp(c).to = call[c].to
    BY Kinds
  <1>5. Register!Swap(c) \/ Register!WriteNow(c) \/ Register!EndWritten(c)
    BY <1>3, <1>4 DEF Register!Swap, Register!WriteNow, Register!EndWritten
  <1> QED BY <1>2, <1>5 DEF RegisterStep, Register!RegNext

\* The unconditional PUT request.
LEMMA PutStep ==
  ASSUME CasInv, NEW c \in Clients, Put(c)
  PROVE  CasInv' /\ RegisterStep
  <1>1. ~InMemory /\ call[c].at = "put" /\ UNCHANGED <<backend, token>>
    BY DEF Put
  <1>2. /\ call[c].op \in WriteOps /\ call[c].op # "idle" /\ token' \in TokenType
        /\ object \in Contents /\ call[c].to \in Contents
    BY <1>1, CallFacts DEF CallInv, WriteOps, CallRec, CasInv, CasType
  <1>3. Kind(c) = "write"
    BY <1>1, <1>2, Kinds
  <1>4. CASE object' = call[c].to /\ End(c, "Ok")
    BY <1>1, <1>2, <1>3, <1>4, EndWith
  <1>5. CASE object' = object /\ Again(c, "Err")
    BY <1>1, <1>2, <1>5, AgainOnly
  <1>6. CASE object' = call[c].to /\ Again(c, "Err")
    <2>1. /\ CasInv'
          /\ \/ RegisterOps' = RegisterOps /\ UNCHANGED outcome
             \/ Register!EndCall(c, "Err")
      BY <1>1, <1>2, <1>6, AgainStep
    <2>2. CASE RegisterOps' = RegisterOps /\ UNCHANGED outcome
      <3>1. Register!Write(c)
        BY <1>2, <1>3, <1>6, <2>2, Kinds DEF Register!Write, RegisterOps
      <3> QED BY <2>1, <3>1 DEF RegisterStep, Register!RegNext
    <2>3. CASE Register!EndCall(c, "Err")
      <3>1. Register!EndWritten(c)
        BY <1>2, <1>3, <1>6, <2>3, Kinds DEF Register!EndWritten
      <3> QED BY <2>1, <3>1 DEF RegisterStep, Register!RegNext
    <2> QED BY <2>1, <2>2, <2>3
  <1> QED BY <1>4, <1>5, <1>6 DEF Put

\* The two ways a conditional put that goes on is marked.
LEMMA MarkCall ==
  ASSUME NEW r \in CallRec
  PROVE  LET n == [r EXCEPT !.tries = r.tries + 1, !.applied = TRUE]
         IN  /\ n \in CallRec /\ n.op = r.op /\ n.from = r.from /\ n.to = r.to
             /\ n.at = r.at /\ n.missed = r.missed /\ n.applied = TRUE
  <1>1. r.tries + 1 \in Nat /\ TRUE \in BOOLEAN
    BY SMTT(30) DEF CallRec
  <1> DEFINE q == [r EXCEPT !.tries = r.tries + 1]
  <1>2. /\ q \in CallRec /\ q.op = r.op /\ q.from = r.from /\ q.to = r.to
        /\ q.at = r.at /\ q.missed = r.missed
    BY <1>1 DEF CallRec
  <1> HIDE DEF q
  <1> DEFINE n == [q EXCEPT !.applied = TRUE]
  <1>3. /\ n \in CallRec /\ n.op = r.op /\ n.from = r.from /\ n.to = r.to
        /\ n.at = r.at /\ n.missed = r.missed /\ n.applied = TRUE
    BY <1>2 DEF CallRec
  <1>4. n = [r EXCEPT !.tries = r.tries + 1, !.applied = TRUE]
    BY DEF q
  <1> QED BY <1>3, <1>4

\* One field of a register operation changes at a time.
LEMMA MarkOp ==
  ASSUME NEW k, NEW f, NEW t, NEW m, NEW a, NEW x
  PROVE  LET o == [kind |-> k, from |-> f, to |-> t, missed |-> m, applied |-> a]
         IN  /\ [o EXCEPT !.missed = x]
                  = [kind |-> k, from |-> f, to |-> t, missed |-> x, applied |-> a]
             /\ [o EXCEPT !.applied = x]
                  = [kind |-> k, from |-> f, to |-> t, missed |-> m, applied |-> x]
  BY SMTT(30)

\* The conditional PUT request: the only step that swaps.
LEMMA ConditionalPutStep ==
  ASSUME CasInv, NEW c \in Clients, ConditionalPut(c)
  PROVE  CasInv' /\ RegisterStep
  <1>1. call[c].at = "cond" /\ UNCHANGED <<backend, token>>
    BY DEF ConditionalPut
  <1>2. /\ call[c].op \in SwapOps /\ call[c].op # "idle" /\ token' \in TokenType
        /\ call[c] \in CallRec /\ CallInv(call[c]) /\ object \in Contents /\ call[c].to \in Contents
    BY <1>1, CallFacts DEF CallInv, SwapOps, CallRec, CasInv, CasType
  <1>3. Kind(c) = "swap" /\ (Holds(c) <=> object = call[c].from)
    BY <1>2, Kinds DEF Holds, CasInv, CasType
  <1>4. CASE backend.cond = "refuses" /\ End(c, "Unsupported") /\ UNCHANGED object
    <2>1. ~call[c].applied
      BY <1>2, <1>4 DEF CallInv
    <2> QED BY <1>1, <1>2, <1>3, <1>4, <2>1, EndOnly
  <1>5. CASE Holds(c) /\ object' = call[c].to /\ (End(c, "Success") \/ End(c, "Err"))
    BY <1>1, <1>2, <1>3, <1>5, EndWith
  <1>6. CASE /\ ~Holds(c) /\ UNCHANGED <<object, outcome>>
             /\ call' = [call EXCEPT ![c].at = "get", ![c].tries = 0, ![c].missed = TRUE]
    <2> DEFINE r == [call[c] EXCEPT !.at = "get", !.tries = 0, !.missed = TRUE]
    <2>1. /\ r \in CallRec /\ r.op = call[c].op /\ r.from = call[c].from /\ r.to = call[c].to
          /\ r.at = "get" /\ r.missed = TRUE /\ r.applied = call[c].applied
      BY <1>2 DEF CallRec, Ats
    <2>2. call' = [call EXCEPT ![c] = r]
      BY <1>6
    <2> HIDE DEF r
    <2>3. CallInv(r)
      BY <1>2, <2>1 DEF CallInv
    <2>4. CasInv'
      BY <1>1, <1>2, <1>6, <2>1, <2>2, <2>3, Keeps
    <2>5. call'[c] = r /\ RegisterOps' = [RegisterOps EXCEPT ![c] = RegisterOp(c)']
      BY <1>1, <2>2, OwnCall DEF CasInv
    <2>6. Kind(c)' = Kind(c)
      BY <1>1, <2>1, <2>5 DEF Kind, InMemory
    <2>7. RegisterOp(c)' = [RegisterOp(c) EXCEPT !.missed = TRUE]
      <3>1. RegisterOp(c)' = [kind |-> Kind(c), from |-> call[c].from, to |-> call[c].to,
                              missed |-> TRUE, applied |-> call[c].applied]
        BY <1>2, <2>1, <2>5, <2>6 DEF RegisterOp
      <3>2. RegisterOp(c) = [kind |-> Kind(c), from |-> call[c].from, to |-> call[c].to,
                             missed |-> call[c].missed, applied |-> call[c].applied]
        BY <1>2 DEF RegisterOp
      <3>3. \A x : [RegisterOp(c) EXCEPT !.missed = x]
                    = [kind |-> Kind(c), from |-> call[c].from, to |-> call[c].to,
                       missed |-> x, applied |-> call[c].applied]
        BY <3>2, MarkOp, SMTT(30)
      <3> QED BY <3>1, <3>3
    <2>8. Register!Miss(c)
      BY <1>2, <1>3, <1>6, <2>5, <2>7, Kinds DEF Register!Miss, RegisterOps
    <2> QED BY <2>4, <2>8 DEF RegisterStep, Register!RegNext
  <1>7. CASE UNCHANGED object /\ (Again(c, "Err") \/ End(c, "Err"))
    BY <1>1, <1>2, <1>7, AgainOnly, EndOnly
  <1>8. CASE /\ backend.cond # "refuses" /\ Holds(c) /\ object' = call[c].to /\ UNCHANGED outcome
             /\ call' = [call EXCEPT ![c].tries = @ + 1, ![c].applied = TRUE]
    <2> DEFINE r == [call[c] EXCEPT !.tries = call[c].tries + 1, !.applied = TRUE]
    <2>1. /\ r \in CallRec /\ r.op = call[c].op /\ r.from = call[c].from /\ r.to = call[c].to
          /\ r.at = call[c].at /\ r.missed = call[c].missed /\ r.applied = TRUE
      BY <1>2, MarkCall
    <2>2. call' = [call EXCEPT ![c] = r]
      BY <1>8
    <2> HIDE DEF r
    <2>3. CallInv(r)
      BY <1>1, <1>2, <1>8, <2>1 DEF CallInv
    <2>4. CasInv'
      BY <1>1, <1>2, <1>8, <2>1, <2>2, <2>3, Keeps
    <2>5. call'[c] = r /\ RegisterOps' = [RegisterOps EXCEPT ![c] = RegisterOp(c)']
      BY <1>1, <2>2, OwnCall DEF CasInv
    <2>6. Kind(c)' = Kind(c)
      BY <1>1, <2>1, <2>5 DEF Kind, InMemory
    <2>7. RegisterOp(c)' = [RegisterOp(c) EXCEPT !.applied = TRUE]
      <3>1. RegisterOp(c)' = [kind |-> Kind(c), from |-> call[c].from, to |-> call[c].to,
                              missed |-> call[c].missed, applied |-> TRUE]
        BY <1>2, <2>1, <2>5, <2>6 DEF RegisterOp
      <3>2. RegisterOp(c) = [kind |-> Kind(c), from |-> call[c].from, to |-> call[c].to,
                             missed |-> call[c].missed, applied |-> call[c].applied]
        BY <1>2 DEF RegisterOp
      <3>3. \A x : [RegisterOp(c) EXCEPT !.applied = x]
                    = [kind |-> Kind(c), from |-> call[c].from, to |-> call[c].to,
                       missed |-> call[c].missed, applied |-> x]
        BY <3>2, MarkOp, SMTT(30)
      <3> QED BY <3>1, <3>3
    <2>8. Register!SwapLost(c)
      BY <1>2, <1>3, <1>8, <2>5, <2>7, Kinds DEF Register!SwapLost, RegisterOps
    <2> QED BY <2>4, <2>8 DEF RegisterStep, Register!RegNext
  <1> QED BY <1>4, <1>5, <1>6, <1>7, <1>8 DEF ConditionalPut

\* A refused condition ends the call without effect.
LEMMA RefusedStep ==
  ASSUME CasInv, NEW c \in Clients, Refused(c)
  PROVE  CasInv' /\ RegisterStep
  <1>1. call[c].at = "refused" /\ End(c, "Unsupported") /\ UNCHANGED <<object, backend, token>>
    BY DEF Refused
  <1>2. call[c].op \in SwapOps /\ ~call[c].applied /\ call[c].op # "idle" /\ token' \in TokenType
    BY <1>1, CallFacts DEF CallInv, SwapOps
  <1> QED BY <1>1, <1>2, EndOnly, Kinds

\* Finding or probing the bucket.
LEMMA EnsureStep ==
  ASSUME CasInv, NEW c \in Clients, FindBucket(c) \/ Probe(c)
  PROVE  CasInv' /\ RegisterStep
  <1>1. /\ call[c].at \in {"bucket", "probe"} /\ UNCHANGED <<object, backend, token>>
        /\ End(c, "Ok") \/ End(c, "Err") \/ Again(c, "Err") \/ (call[c].at = "bucket" /\ Go(c, "probe"))
    BY DEF FindBucket, Probe, Cached
  <1>2. call[c].op = "ensure" /\ call[c].op # "idle" /\ token' \in TokenType
    BY <1>1, CallFacts DEF CallInv
  <1>3. CASE End(c, "Ok") \/ End(c, "Err")
    BY <1>1, <1>2, <1>3, EndOnly, Kinds
  <1>4. CASE Again(c, "Err")
    BY <1>1, <1>2, <1>4, AgainOnly
  <1>5. CASE Go(c, "probe")
    <2>1. CallInv([call[c] EXCEPT !.at = "probe", !.tries = 0])
      BY <1>2, CallFacts DEF CallInv, CallRec
    <2>2. "probe" \in Ats
      BY DEF Ats
    <2> QED BY <1>1, <1>5, <2>1, <2>2, GoOnly
  <1> QED BY <1>1, <1>3, <1>4, <1>5

\* The calls of the in-memory client, each in one step.
LEMMA MemoryStep ==
  ASSUME CasInv, NEW c \in Clients, MemoryCall(c)
  PROVE  CasInv' /\ RegisterStep
  <1>1. InMemory /\ UNCHANGED backend
    BY DEF MemoryCall
  <1>2. token \in TokenType /\ object \in Contents /\ call[c].to \in Contents
    BY CallFacts DEF CasInv, CasType, CallRec
  <1>3. CASE /\ call[c].op = "read" /\ End(c, "Ok") /\ UNCHANGED object
             /\ token' = IF object = Absent THEN token
                         ELSE [token EXCEPT ![c] = [kind |-> "hash", of |-> object]]
    <2>1. token' \in TokenType
      BY <1>2, <1>3 DEF TokenType
    <2> QED BY <1>1, <1>3, <2>1, EndOnly, Kinds
  <1>4. CASE /\ call[c].op \in {"put", "overwrite", "delete"} /\ End(c, "Ok") /\ UNCHANGED token
             /\ object' = call[c].to \/ object' = object
    BY <1>1, <1>2, <1>4, EndOnly, EndWith, Kinds
  <1>5. CASE /\ call[c].op \in {"cas", "update", "create"} /\ Matches(c) /\ object' = call[c].to
             /\ End(c, "Success") /\ UNCHANGED token
    BY <1>1, <1>2, <1>5, EndWith, Kinds DEF Matches, SwapOps
  <1>6. CASE /\ call[c].op \in {"cas", "update", "create"} /\ ~Matches(c) /\ object' = object
             /\ End(c, "Conflict") /\ UNCHANGED token
    <2>1. CasInv' /\ Register!EndCall(c, "Conflict")
      BY <1>1, <1>2, <1>6, EndKeeps, EndStep DEF CasInv
    <2>2. Register!MissNow(c)
      BY <1>1, <1>6, <2>1, Kinds DEF Register!MissNow, Matches, SwapOps
    <2> QED BY <2>1, <2>2 DEF RegisterStep, Register!RegNext
  <1> QED BY <1>3, <1>4, <1>5, <1>6 DEF MemoryCall

\* The initial states are the register's.
LEMMA CasInitInv ==
  ASSUME \A b \in Backends : b.cond # "ignores", CasInit
  PROVE  CasInv /\ Register!RegInit
  <1>1. CasType
    BY IdleRec, ContentsHasAbsent DEF CasInit, CasType, TokenType, NoToken
  <1>2. CallInv(Idle)
    BY DEF CallInv, Idle
  <1>3. \A c \in Clients : call[c] = Idle
    BY DEF CasInit
  <1>4. Register!RegInit
    BY <1>3, IdleRec DEF CasInit, Register!RegInit, Register!NoCall, RegisterOp
  <1> QED BY <1>1, <1>2, <1>3, <1>4 DEF CasInv

\* The conditional puts of both object stores are compare-and-swaps on one
\* register, whatever requests are lost, repeated and interleaved and whatever
\* the probes of the handles find: for every bucket that honours or refuses
\* conditions, any number of handles, payloads, retries and faults.
THEOREM SwapsAreAtomicHolds ==
  ASSUME \A b \in Backends : b.cond # "ignores"
  PROVE  CasSpec => SwapsAreAtomic
  <1>1. CasInit => CasInv /\ Register!RegInit
    BY CasInitInv
  <1>2. CasInv /\ [CasNext]_casVars => CasInv' /\ RegisterStep
    <2> SUFFICES ASSUME CasInv, [CasNext]_casVars
                 PROVE  CasInv' /\ RegisterStep
      OBVIOUS
    <2>1. CASE UNCHANGED casVars
      <3>1. CasInv'
        BY <2>1 DEF casVars, CasInv, CasType, CallInv
      <3>2. RegisterOps' = RegisterOps
        BY <2>1 DEF casVars, RegisterOps, RegisterOp, Kind, InMemory
      <3> QED BY <2>1, <3>1, <3>2, NoStep DEF casVars
    <2>2. ASSUME NEW c \in Clients, Start(c) \/ Proceed(c)
          PROVE  CasInv' /\ RegisterStep
      BY <2>2, StartStep, RefusedStep, GetStep, HeadStep, PutStep, ConditionalPutStep, EnsureStep,
         MemoryStep DEF Proceed
    <2> QED BY <2>1, <2>2 DEF CasNext
  <1>3. CasInv /\ [CasNext]_casVars => [Register!RegNext]_(Register!regVars)
    BY <1>2 DEF RegisterStep
  <1> QED BY <1>1, <1>2, <1>3, PTL DEF CasSpec, SwapsAreAtomic, Register!RegSpec

-----------------------------------------------------------------------------
\* No key is put by two threads, and no two keys share a file.
OneWriter == \A t, u \in FlatThreads : t # u => PutsOf[t] \cap PutsOf[u] = {}
OneFile == \A k, l \in FileKeys : PathForKey(k) = PathForKey(l) => k = l

\* The first p chunks of a payload.
Partial(k, n, p) == [j \in 1..p |-> <<k, n>>]
Partials == {Partial(k, n, p) : k \in FileKeys, n \in 1..MaxPuts, p \in 0..Chunks}

TmpOf(k) == Tmp(PathForKey(k))

FlatType ==
    /\ inode \in Seq(Partials)
    /\ dir \in [Names -> 0..Len(inode)]
    /\ puts \in 0..MaxPuts
    /\ file = [t \in FlatThreads |-> file[t]]
    /\ got = [t \in FlatThreads |-> got[t]]

\* An inode has one name at most, and under a final name a whole payload of its key.
OneName == \A m, n \in Names : dir[m] = dir[n] /\ dir[m] # NoInode => m = n
FinalsWhole ==
    \A k \in FileKeys : dir[PathForKey(k)] # NoInode => inode[dir[PathForKey(k)]] \in PayloadsOf(k)

\* A writer has written what precedes its offset, into an inode that nothing
\* but its temporary name leads to.
WriterOK(t) ==
    LET w == file[t]
    IN w.at = "write" =>
        /\ w.key \in PutsOf[t] /\ w.pos \in 1..Chunks /\ w.i \in 1..Len(inode)
        /\ w = [at |-> "write", key |-> w.key, data |-> w.data, i |-> w.i, pos |-> w.pos]
        /\ \E n \in 1..MaxPuts : /\ w.data = Payload(w.key, n)
                                 /\ inode[w.i] = Partial(w.key, n, w.pos - 1)
        /\ dir[TmpOf(w.key)] \in {NoInode, w.i}
        /\ \A m \in Names : dir[m] = w.i => m = TmpOf(w.key)

\* What is about to be renamed is whole.
RenamerOK(t) ==
    LET w == file[t]
    IN w.at = "rename" =>
        /\ w.key \in PutsOf[t]
        /\ dir[TmpOf(w.key)] # NoInode => inode[dir[TmpOf(w.key)]] \in PayloadsOf(w.key)

\* A reader has read a prefix of a whole payload, in an inode no temporary name leads to.
ReaderOK(t) ==
    LET r == file[t]
    IN r.at = "read" =>
        /\ r.key \in FileKeys /\ r.i \in 1..Len(inode)
        /\ r = [at |-> "read", key |-> r.key, i |-> r.i, seen |-> r.seen]
        /\ \E n \in 1..MaxPuts, p \in 0..Chunks :
              inode[r.i] = Payload(r.key, n) /\ r.seen = Partial(r.key, n, p)
        /\ \A k \in FileKeys : dir[TmpOf(k)] # r.i

\* The inode a writer writes is nobody else's.
WritesAlone ==
    \A t, u \in FlatThreads :
        t # u /\ file[t].at = "write" /\ file[u].at \in {"write", "read"} => file[t].i # file[u].i

ThreadOK(t) == WriterOK(t) /\ RenamerOK(t) /\ ReaderOK(t)

\* The inductive invariant.
FlatInv ==
    /\ FlatType /\ OneName /\ FinalsWhole /\ WritesAlone /\ ReadsOwnPayload
    /\ \A t \in FlatThreads : ThreadOK(t)

\* Keys have files of their own, apart from every temporary file.
LEMMA Paths ==
  ASSUME OneFile, NEW k \in FileKeys, NEW l \in FileKeys
  PROVE  /\ PathForKey(k) \in Names /\ TmpOf(k) \in Names
         /\ PathForKey(k) # TmpOf(l)
         /\ PathForKey(k) = PathForKey(l) => k = l
         /\ TmpOf(k) = TmpOf(l) => k = l
  <1>1. PathForKey(k) \in Names /\ TmpOf(k) \in Names
    BY DEF Names, TmpOf
  <1>2. ASSUME NEW m \in FileKeys
        PROVE  PathForKey(m).ext = "kv" /\ TmpOf(m).ext = "kv.tmp" /\ TmpOf(m).name = PathForKey(m).name
                /\ PathForKey(m) = [name |-> PathForKey(m).name, ext |-> "kv"]
    BY DEF PathForKey, TmpOf, Tmp
  <1>3. PathForKey(k) # TmpOf(l)
    BY <1>2
  <1>4. TmpOf(k) = TmpOf(l) => PathForKey(k) = PathForKey(l)
    BY <1>2
  <1> QED BY <1>1, <1>3, <1>4 DEF OneFile

\* A name of the directory is a key's, or its temporary one.
LEMMA NameKinds ==
  ASSUME NEW m \in Names
  PROVE  \E k \in FileKeys : m = PathForKey(k) \/ m = TmpOf(k)
  BY DEF Names, TmpOf

\* Chunks of a payload, written and read one after the other.
LEMMA Chunking ==
  ASSUME NEW k \in FileKeys, NEW n \in 1..MaxPuts
  PROVE  /\ Payload(k, n) = Partial(k, n, Chunks)
         /\ Payload(k, n) \in PayloadsOf(k)
         /\ Partial(k, n, 0) = <<>>
         /\ \A p \in 0..Chunks : Partial(k, n, p) \in Partials /\ Len(Partial(k, n, p)) = p
         /\ \A p \in 1..Chunks :
              /\ PutChunk(Partial(k, n, p - 1), p, Payload(k, n)[p]) = Partial(k, n, p)
              /\ Append(Partial(k, n, p - 1), Payload(k, n)[p]) = Partial(k, n, p)
  <1> Chunks \in Nat \ {0} BY FlatCacheAssumption
  <1>1. Payload(k, n) = Partial(k, n, Chunks) BY DEF Payload, Partial
  <1>2. Payload(k, n) \in PayloadsOf(k) BY DEF PayloadsOf
  <1>3. Partial(k, n, 0) = <<>> BY SMTT(30) DEF Partial
  <1>4. ASSUME NEW p \in 0..Chunks
        PROVE  /\ Partial(k, n, p) \in Partials /\ Len(Partial(k, n, p)) = p
               /\ Partial(k, n, p) \in Seq({<<k, n>>})
    BY SMTT(30) DEF Partials, Partial
  <1>5. ASSUME NEW p \in 1..Chunks
        PROVE  /\ PutChunk(Partial(k, n, p - 1), p, Payload(k, n)[p]) = Partial(k, n, p)
               /\ Append(Partial(k, n, p - 1), Payload(k, n)[p]) = Partial(k, n, p)
    <2>1. p - 1 \in 0..Chunks /\ p \in 0..Chunks /\ p \in Nat /\ p - 1 \in Nat /\ p \in 1..Chunks BY <1>5, SMTT(30)
    <2>2. Len(Partial(k, n, p - 1)) = p - 1 BY <1>4, <2>1
    <2>3. Payload(k, n)[p] = <<k, n>> BY <2>1 DEF Payload
    <2>4. \A j \in 1..(p - 1) : Partial(k, n, p - 1)[j] = <<k, n>> BY DEF Partial
    <2>5. PutChunk(Partial(k, n, p - 1), p, Payload(k, n)[p]) = Partial(k, n, p)
      BY <2>1, <2>2, <2>3, <2>4, SMTT(30) DEF PutChunk, Partial
    <2>6. Append(Partial(k, n, p - 1), <<k, n>>) = Partial(k, n, p)
      <3>1. Append(Partial(k, n, p - 1), <<k, n>>) \in Seq({<<k, n>>})
        BY <1>4, <2>1, SMTT(30)
      <3>2. Len(Append(Partial(k, n, p - 1), <<k, n>>)) = p
        BY <1>4, <2>1, SMTT(30)
      <3>3. ASSUME NEW j \in 1..p PROVE Append(Partial(k, n, p - 1), <<k, n>>)[j] = Partial(k, n, p)[j]
        <4>1. Partial(k, n, p)[j] = <<k, n>> BY DEF Partial
        <4>2. Append(Partial(k, n, p - 1), <<k, n>>)[j] = <<k, n>>
          <5>1. Partial(k, n, p - 1) \in Seq({<<k, n>>}) /\ Len(Partial(k, n, p - 1)) = p - 1 BY <1>4, <2>1
          <5> HIDE DEF Partial
          <5>2. CASE j = p BY <2>1, <5>1, <5>2, SMTT(30)
          <5>3. CASE j # p
            <6>1. j \in 1..(p - 1) BY <2>1, <5>3, SMTT(30)
            <6> QED BY <2>1, <2>4, <5>1, <6>1, SMTT(30)
          <5> QED BY <5>2, <5>3
        <4> QED BY <4>1, <4>2
      <3>4. Partial(k, n, p) \in Seq({<<k, n>>}) /\ Len(Partial(k, n, p)) = p BY <1>4, <2>1
      <3> HIDE DEF Partial
      <3> QED BY <3>1, <3>2, <3>3, <3>4, SeqEqual
    <2> QED BY <2>3, <2>5, <2>6
  <1> QED BY <1>1, <1>2, <1>3, <1>4, <1>5

\* What a step of thread t does to the record of what threads do.
LEMMA Doing ==
  ASSUME FlatType, NEW t \in FlatThreads, NEW step, Do(t, step)
  PROVE  /\ file'[t] = step /\ \A u \in FlatThreads \ {t} : file'[u] = file[u]
         /\ file' = [u \in FlatThreads |-> file'[u]]
  BY DEF FlatType, Do

\* A thread that has read the first p chunks of a whole payload.
LEMMA Reading ==
  ASSUME NEW t \in FlatThreads, NEW k \in FileKeys, NEW i \in 1..Len(inode'),
         NEW n \in 1..MaxPuts, NEW p \in 0..Chunks,
         file'[t] = [at |-> "read", key |-> k, i |-> i, seen |-> Partial(k, n, p)],
         inode'[i] = Payload(k, n), \A l \in FileKeys : dir'[TmpOf(l)] # i
  PROVE  ThreadOK(t)'
  <1>1. /\ file'[t].at = "read" /\ file'[t].key = k /\ file'[t].i = i
        /\ file'[t].seen = Partial(k, n, p)
    BY SMTT(30)
  <1>2. ReaderOK(t)' BY <1>1 DEF ReaderOK
  <1> QED BY <1>1, <1>2 DEF ThreadOK, WriterOK, RenamerOK

\* Names may disappear, and threads come to rest, at any time.
LEMMA DropNames ==
  ASSUME FlatInv, FlatType', UNCHANGED inode,
         \A m \in Names : dir'[m] \in {dir[m], NoInode}
  PROVE  /\ OneName' /\ FinalsWhole'
         /\ \A u \in FlatThreads : file'[u] = file[u] => ThreadOK(u)'
  <1> USE DEF FlatInv
  <1>1. OneName' BY DEF OneName
  <1>2. \A k \in FileKeys : PathForKey(k) \in Names /\ TmpOf(k) \in Names BY DEF Names, TmpOf
  <1>3. FinalsWhole' BY <1>2 DEF FinalsWhole
  <1>4. ASSUME NEW u \in FlatThreads, file'[u] = file[u] PROVE ThreadOK(u)'
    <2>0. ThreadOK(u) OBVIOUS
    <2>1. ASSUME file[u].at = "write" PROVE WriterOK(u)'
      <3>1. file[u].key \in FileKeys /\ file[u].i # NoInode
        BY <2>0, <2>1, FlatCacheAssumption, SMTT(30) DEF ThreadOK, WriterOK, NoInode
      <3> QED BY <1>2, <1>4, <2>0, <2>1, <3>1 DEF ThreadOK, WriterOK
    <2>2. ASSUME file[u].at = "rename" PROVE RenamerOK(u)'
      <3>1. file[u].key \in FileKeys
        BY <2>0, <2>2, FlatCacheAssumption DEF ThreadOK, RenamerOK
      <3> QED BY <1>2, <1>4, <2>0, <2>2, <3>1 DEF ThreadOK, RenamerOK
    <2>3. ASSUME file[u].at = "read" PROVE ReaderOK(u)'
      <3>1. file[u].i # NoInode
        BY <2>0, <2>3, SMTT(30) DEF ThreadOK, ReaderOK, NoInode
      <3> QED BY <1>2, <1>4, <2>0, <2>3, <3>1, SMTT(30) DEF ThreadOK, ReaderOK
    <2>4. /\ file[u].at # "write" => WriterOK(u)'
          /\ file[u].at # "rename" => RenamerOK(u)'
          /\ file[u].at # "read" => ReaderOK(u)'
      BY <1>4 DEF WriterOK, RenamerOK, ReaderOK
    <2> QED BY <2>1, <2>2, <2>3, <2>4 DEF ThreadOK
  <1> QED BY <1>1, <1>3, <1>4

\* A thread that neither writes, renames nor reads has nothing to keep.
LEMMA AtRest ==
  ASSUME NEW t \in FlatThreads, file'[t].at \notin {"write", "rename", "read"}
  PROVE  ThreadOK(t)'
  BY DEF ThreadOK, WriterOK, RenamerOK, ReaderOK

\* The open of the temporary file: its inode is the thread's alone.
LEMMA OpenTmpInv ==
  ASSUME OneWriter, OneFile, FlatInv, NEW t \in FlatThreads, OpenTmp(t)
  PROVE  FlatInv'
  <1> USE DEF NoInode
  <1>1. PICK k \in PutsOf[t] : 
           LET tmp == Tmp(PathForKey(k))
               i == IF dir[tmp] = NoInode THEN Len(inode) + 1 ELSE dir[tmp]
           IN /\ puts' = puts + 1
              /\ \/ /\ rooted
                    /\ inode' = IF i > Len(inode) THEN Append(inode, <<>>)
                                ELSE [inode EXCEPT ![i] = <<>>]
                    /\ Link(tmp, i)
                    /\ Do(t, [at |-> "write", key |-> k, data |-> Payload(k, puts + 1),
                              i |-> i, pos |-> 1])
                 \/ /\ ~rooted
                    /\ UNCHANGED <<inode, dir, file>>
    BY DEF OpenTmp
  <1>2. /\ k \in FileKeys /\ puts < MaxPuts /\ puts \in 0..MaxPuts /\ MaxPuts \in Nat /\ UNCHANGED got
        /\ puts + 1 \in 1..MaxPuts
    BY FlatCacheAssumption, SMTT(30) DEF OpenTmp, FlatInv, FlatType
  <1> DEFINE i == IF dir[TmpOf(k)] = NoInode THEN Len(inode) + 1 ELSE dir[TmpOf(k)]
             w == [at |-> "write", key |-> k, data |-> Payload(k, puts + 1), i |-> i, pos |-> 1]
  <1>3. CASE UNCHANGED <<inode, dir, file>>
    <2>1. FlatType' BY <1>1, <1>2, <1>3, SMTT(30) DEF FlatInv, FlatType
    <2>2. WritesAlone' /\ ReadsOwnPayload' BY <1>2, <1>3 DEF FlatInv, WritesAlone, ReadsOwnPayload
    <2> QED BY <1>3, <2>1, <2>2, DropNames DEF FlatInv
  <1>4. CASE /\ inode' = IF i > Len(inode) THEN Append(inode, <<>>) ELSE [inode EXCEPT ![i] = <<>>]
             /\ Link(TmpOf(k), i) /\ Do(t, w)
    <2>1. TmpOf(k) \in Names /\ dir \in [Names -> 0..Len(inode)] /\ inode \in Seq(Partials)
      BY <1>2, Paths DEF FlatInv, FlatType
    <2>2. i \in 1..(Len(inode) + 1) /\ (i <= Len(inode) => dir[TmpOf(k)] = i)
      BY <2>1, SMTT(30)
    <2>3. <<>> \in Partials /\ Partial(k, puts + 1, 0) = <<>>
      BY <1>2, Chunking, FlatCacheAssumption, SMTT(30)
    <2>4. /\ inode' \in Seq(Partials) /\ Len(inode') >= Len(inode) /\ i \in 1..Len(inode')
          /\ inode'[i] = <<>>
          /\ \A j \in 1..Len(inode) : j # i => inode'[j] = inode[j]
      <3>1. CASE i > Len(inode)
        <4>1. inode' = Append(inode, <<>>) /\ i = Len(inode) + 1 BY <1>4, <2>2, <3>1, SMTT(30)
        <4> HIDE DEF i
        <4> QED BY <2>1, <2>3, <4>1, SMTT(30)
      <3>2. CASE ~(i > Len(inode))
        <4>1. inode' = [inode EXCEPT ![i] = <<>>] /\ i \in 1..Len(inode) BY <1>4, <2>1, <2>2, <3>2, SMTT(30)
        <4> HIDE DEF i
        <4> QED BY <2>1, <2>3, <4>1, SMTT(30)
      <3> QED BY <3>1, <3>2
    <2>5. \A m \in Names : dir[m] = i => m = TmpOf(k)
      BY <2>1, <2>2, SMTT(30) DEF FlatInv, OneName
    <2> HIDE DEF i
    <2>6. dir'[TmpOf(k)] = i /\ \A m \in Names : m # TmpOf(k) => dir'[m] = dir[m] /\ dir[m] # i
      BY <1>4, <2>1, <2>5 DEF Link
    <2>7. file'[t] = w /\ (\A u \in FlatThreads \ {t} : file'[u] = file[u])
          /\ file' = [u \in FlatThreads |-> file'[u]]
      BY <1>4, Doing DEF FlatInv
    <2>8. FlatType'
      <3>1. dir' \in [Names -> 0..Len(inode')]
        BY <1>4, <2>1, <2>4, SMTT(30) DEF Link
      <3> QED BY <1>1, <1>2, <2>4, <2>7, <3>1, SMTT(30) DEF FlatInv, FlatType
    <2>9. OneName' BY <2>6 DEF FlatInv, OneName
    <2>10. ASSUME NEW l \in FileKeys PROVE PathForKey(l) \in Names /\ TmpOf(l) \in Names
              /\ PathForKey(l) # TmpOf(k) /\ (TmpOf(l) = TmpOf(k) => l = k)
      BY <1>2, Paths
    <2>11. FinalsWhole'
      <3> SUFFICES ASSUME NEW l \in FileKeys, dir'[PathForKey(l)] # NoInode
                   PROVE  inode'[dir'[PathForKey(l)]] \in PayloadsOf(l)
        BY DEF FinalsWhole
      <3>1. dir'[PathForKey(l)] = dir[PathForKey(l)] /\ dir[PathForKey(l)] # i
        BY <2>6, <2>10
      <3>2. dir[PathForKey(l)] \in 1..Len(inode) BY <2>1, <2>10, <3>1, SMTT(30)
      <3> QED BY <2>4, <3>1, <3>2 DEF FlatInv, FinalsWhole
    <2>12. ASSUME NEW u \in FlatThreads, u # t
           PROVE  /\ file[u].at \in {"write", "read"} => file[u].i # i
                  /\ file[u].at \in {"write", "rename"} => file[u].key \in FileKeys /\ TmpOf(file[u].key) # TmpOf(k)
      <3>0. ThreadOK(u) /\ PutsOf[u] \subseteq FileKeys BY FlatCacheAssumption DEF FlatInv
      <3>1. file[u].at \in {"write", "rename"} => file[u].key \in FileKeys /\ TmpOf(file[u].key) # TmpOf(k)
        BY <2>10, <2>12, <3>0 DEF ThreadOK, WriterOK, RenamerOK, OneWriter
      <3>2. file[u].at = "write" => file[u].i # i
        BY <2>1, <2>2, <3>0, <3>1, SMTT(30) DEF ThreadOK, WriterOK
      <3>3. file[u].at = "read" => file[u].i # i
        BY <1>2, <2>1, <2>2, <3>0, SMTT(30) DEF ThreadOK, ReaderOK
      <3> QED BY <3>1, <3>2, <3>3
    <2>13. WritesAlone'
      BY <2>7, <2>12, SMTT(30) DEF FlatInv, WritesAlone
    <2>14. ReadsOwnPayload' BY <1>2 DEF FlatInv, ReadsOwnPayload
    <2>15. ThreadOK(t)'
      <3>1. WriterOK(t)'
        <4>1. w.pos - 1 = 0 /\ w.pos \in 1..Chunks BY FlatCacheAssumption, SMTT(30)
        <4> QED BY <1>1, <1>2, <2>3, <2>4, <2>6, <2>7, <4>1, SMTT(30) DEF WriterOK
      <3> QED BY <2>7, <3>1, SMTT(30) DEF ThreadOK, RenamerOK, ReaderOK
    <2>16. ASSUME NEW u \in FlatThreads, u # t PROVE ThreadOK(u)'
      <3>0. ThreadOK(u) /\ file'[u] = file[u] BY <2>7, <2>16 DEF FlatInv
      <3>1. WriterOK(u)'
        <4> SUFFICES ASSUME file[u].at = "write" PROVE WriterOK(u)'
          BY <3>0 DEF WriterOK
        <4>1. file[u].i # i /\ TmpOf(file[u].key) # TmpOf(k) /\ file[u].key \in FileKeys BY <2>12, <2>16
        <4>2. TmpOf(file[u].key) \in Names BY <2>10, <4>1
        <4>3. file[u].i \in 1..Len(inode) BY <3>0 DEF ThreadOK, WriterOK
        <4>4. inode'[file[u].i] = inode[file[u].i] /\ file[u].i \in 1..Len(inode') BY <2>1, <2>4, <4>1, <4>3, SMTT(30)
        <4> QED BY <2>6, <3>0, <4>1, <4>2, <4>4 DEF ThreadOK, WriterOK
      <3>2. RenamerOK(u)'
        <4> SUFFICES ASSUME file[u].at = "rename" PROVE RenamerOK(u)'
          BY <3>0 DEF RenamerOK
        <4>1. TmpOf(file[u].key) # TmpOf(k) /\ TmpOf(file[u].key) \in Names BY <2>10, <2>12, <2>16
        <4>2. dir'[TmpOf(file[u].key)] = dir[TmpOf(file[u].key)] /\ dir[TmpOf(file[u].key)] # i
          BY <2>6, <4>1
        <4>3. dir[TmpOf(file[u].key)] # NoInode => dir[TmpOf(file[u].key)] \in 1..Len(inode)
          BY <2>1, <4>1, SMTT(30)
        <4> QED BY <2>4, <3>0, <4>2, <4>3 DEF ThreadOK, RenamerOK
      <3>3. ReaderOK(u)'
        <4> SUFFICES ASSUME file[u].at = "read" PROVE ReaderOK(u)'
          BY <3>0 DEF ReaderOK
        <4>1. file[u].i # i /\ file[u].i \in 1..Len(inode)
          BY <2>12, <2>16, <3>0 DEF ThreadOK, ReaderOK
        <4>2. inode'[file[u].i] = inode[file[u].i] /\ file[u].i \in 1..Len(inode') BY <2>1, <2>4, <4>1, SMTT(30)
        <4> QED BY <2>6, <2>10, <3>0, <4>1, <4>2, SMTT(30) DEF ThreadOK, ReaderOK
      <3> QED BY <3>1, <3>2, <3>3 DEF ThreadOK
    <2> QED BY <2>8, <2>9, <2>11, <2>13, <2>14, <2>15, <2>16 DEF FlatInv
  <1> QED BY <1>1, <1>3, <1>4 DEF TmpOf

\* A step that changes no inode and drops names at most leaves the others as they are.
LEMMA QuietStep ==
  ASSUME FlatInv, NEW t \in FlatThreads, NEW step, Do(t, step), UNCHANGED <<inode, puts>>,
         dir' \in [Names -> 0..Len(inode)], \A m \in Names : dir'[m] \in {dir[m], NoInode},
         got' = [u \in FlatThreads |-> got'[u]], ReadsOwnPayload',
         step.at \in {"write", "read"} => file[t].at = step.at /\ file[t].i = step.i,
         ThreadOK(t)'
  PROVE  FlatInv'
  <1>1. file'[t] = step /\ (\A u \in FlatThreads \ {t} : file'[u] = file[u])
        /\ file' = [u \in FlatThreads |-> file'[u]]
    BY Doing DEF FlatInv
  <1>2. FlatType' BY <1>1 DEF FlatInv, FlatType
  <1>3. OneName' /\ FinalsWhole' /\ \A u \in FlatThreads \ {t} : ThreadOK(u)'
    BY <1>1, <1>2, DropNames
  <1>4. WritesAlone' BY <1>1, SMTT(30) DEF FlatInv, WritesAlone
  <1> QED BY <1>2, <1>3, <1>4 DEF FlatInv

\* A write goes to the writer's own inode, at its own offset.
LEMMA WriteChunkInv ==
  ASSUME OneWriter, OneFile, FlatInv, NEW t \in FlatThreads, WriteChunk(t)
  PROVE  FlatInv'
  <1> USE DEF NoInode
  <1> DEFINE w == file[t]
  <1>1. /\ w.at = "write" /\ UNCHANGED <<dir, got, puts>> /\ FlatType
        /\ ThreadOK(t) /\ WriterOK(t) /\ PutsOf[t] \subseteq FileKeys
    BY FlatCacheAssumption DEF WriteChunk, FlatInv, ThreadOK
  <1>2. w.key \in FileKeys /\ w.pos \in 1..Chunks /\ w.i \in 1..Len(inode) /\ Chunks \in Nat \ {0}
    BY <1>1, FlatCacheAssumption DEF WriterOK
  <1>3. PICK n \in 1..MaxPuts : w.data = Payload(w.key, n) /\ inode[w.i] = Partial(w.key, n, w.pos - 1)
    BY <1>1 DEF WriterOK
  <1>4. ReadsOwnPayload' /\ got' = [u \in FlatThreads |-> got'[u]]
    BY <1>1 DEF FlatInv, ReadsOwnPayload, FlatType
  <1>5. CASE Do(t, Resting) /\ UNCHANGED inode
    <2>1. ThreadOK(t)' BY <1>1, <1>5, Doing, AtRest, SMTT(30) DEF Resting
    <2> QED BY <1>1, <1>4, <1>5, <2>1, QuietStep DEF Resting, FlatType
  <1>6. CASE /\ inode' = [inode EXCEPT ![w.i] = PutChunk(@, w.pos, w.data[w.pos])]
             /\ Do(t, IF w.pos < Chunks THEN [w EXCEPT !.pos = @ + 1]
                      ELSE [at |-> "rename", key |-> w.key])
    <2>1. PutChunk(inode[w.i], w.pos, w.data[w.pos]) = Partial(w.key, n, w.pos)
      BY <1>2, <1>3, Chunking
    <2>2. Partial(w.key, n, w.pos) \in Partials
      <3>1. w.pos \in 0..Chunks BY <1>2, SMTT(30)
      <3> QED BY <1>2, <3>1, Chunking
    <2>3. /\ inode' \in Seq(Partials) /\ Len(inode') = Len(inode)
          /\ inode'[w.i] = Partial(w.key, n, w.pos)
          /\ \A j \in 1..Len(inode) : j # w.i => inode'[j] = inode[j]
      BY <1>1, <1>2, <1>6, <2>1, <2>2, SMTT(30) DEF FlatType
    <2>4. /\ file'[t] = IF w.pos < Chunks THEN [w EXCEPT !.pos = @ + 1] ELSE [at |-> "rename", key |-> w.key]
          /\ \A u \in FlatThreads \ {t} : file'[u] = file[u]
          /\ file' = [u \in FlatThreads |-> file'[u]]
      BY <1>1, <1>6, Doing
    <2>5. w = [at |-> "write", key |-> w.key, data |-> w.data, i |-> w.i, pos |-> w.pos]
      BY <1>1 DEF WriterOK
    <2>6. [w EXCEPT !.pos = @ + 1]
             = [at |-> "write", key |-> w.key, data |-> w.data, i |-> w.i, pos |-> w.pos + 1]
      BY <2>5, SMTT(30)
    <2>7. FlatType' BY <1>1, <1>4, <2>3, <2>4 DEF FlatType
    <2>8. OneName' BY <1>1 DEF FlatInv, OneName
    <2>9. \A l \in FileKeys : PathForKey(l) \in Names /\ TmpOf(l) \in Names /\ PathForKey(l) # TmpOf(w.key)
      BY <1>2, Paths
    <2>10. \A m \in Names : dir[m] = w.i => m = TmpOf(w.key)
      BY <1>1 DEF WriterOK
    <2>11. FinalsWhole'
      <3> SUFFICES ASSUME NEW l \in FileKeys, dir[PathForKey(l)] # NoInode
                   PROVE  inode'[dir[PathForKey(l)]] \in PayloadsOf(l)
        BY <1>1 DEF FinalsWhole
      <3>1. dir[PathForKey(l)] # w.i /\ dir[PathForKey(l)] \in 1..Len(inode)
        BY <1>1, <2>9, <2>10, SMTT(30) DEF FlatType
      <3> QED BY <2>3, <3>1 DEF FlatInv, FinalsWhole
    <2>12. ASSUME NEW u \in FlatThreads, file'[u].at \in {"write", "read"}
           PROVE  file[u].at = file'[u].at /\ file[u].i = file'[u].i
      <3>1. CASE u = t BY <1>1, <2>4, <2>6, <2>12, <3>1, SMTT(30)
      <3>2. CASE u # t BY <2>4, <3>2
      <3> QED BY <3>1, <3>2
    <2>13. WritesAlone' BY <2>12, SMTT(30) DEF FlatInv, WritesAlone
    <2>14. ThreadOK(t)'
      <3>1. CASE w.pos < Chunks
        <4>1. file'[t] = [at |-> "write", key |-> w.key, data |-> w.data, i |-> w.i, pos |-> w.pos + 1]
          BY <2>4, <2>6, <3>1
        <4>2. w.pos + 1 \in 1..Chunks /\ (w.pos + 1) - 1 = w.pos BY <1>2, <3>1, SMTT(30)
        <4>3. WriterOK(t)' BY <1>1, <1>2, <1>3, <2>3, <4>1, <4>2, SMTT(30) DEF WriterOK
        <4> QED BY <4>1, <4>3, SMTT(30) DEF ThreadOK, RenamerOK, ReaderOK
      <3>2. CASE ~(w.pos < Chunks)
        <4>1. file'[t] = [at |-> "rename", key |-> w.key] BY <2>4, <3>2
        <4>2. w.pos = Chunks BY <1>2, <3>2, SMTT(30)
        <4>3. inode'[w.i] \in PayloadsOf(w.key) BY <1>2, <2>3, <4>2, Chunking, SMTT(30)
        <4>4. RenamerOK(t)' BY <1>1, <4>1, <4>3, SMTT(30) DEF RenamerOK, WriterOK
        <4> QED BY <4>1, <4>4, SMTT(30) DEF ThreadOK, WriterOK, ReaderOK
      <3> QED BY <3>1, <3>2
    <2>15. ASSUME NEW u \in FlatThreads, u # t PROVE ThreadOK(u)'
      <3>0. ThreadOK(u) /\ file'[u] = file[u] /\ PutsOf[u] \subseteq FileKeys
        BY <2>4, <2>15, FlatCacheAssumption DEF FlatInv
      <3>1. WriterOK(u)'
        <4> SUFFICES ASSUME file[u].at = "write" PROVE WriterOK(u)'
          BY <3>0 DEF WriterOK
        <4>1. file[u].i # w.i /\ file[u].i \in 1..Len(inode)
          BY <1>1, <2>15, <3>0 DEF FlatInv, WritesAlone, ThreadOK, WriterOK
        <4> QED BY <1>1, <2>3, <3>0, <4>1, SMTT(30) DEF ThreadOK, WriterOK
      <3>2. RenamerOK(u)'
        <4> SUFFICES ASSUME file[u].at = "rename" PROVE RenamerOK(u)'
          BY <3>0 DEF RenamerOK
        <4>1. file[u].key \in FileKeys /\ file[u].key \in PutsOf[u] BY <3>0 DEF ThreadOK, RenamerOK
        <4>2. dir[TmpOf(file[u].key)] # NoInode => dir[TmpOf(file[u].key)] \in 1..Len(inode)
          BY <1>1, <2>9, <4>1, SMTT(30) DEF FlatType
        <4>3. dir[TmpOf(file[u].key)] # NoInode => dir[TmpOf(file[u].key)] # w.i
          <5> SUFFICES ASSUME dir[TmpOf(file[u].key)] = w.i PROVE FALSE
            OBVIOUS
          <5>1. file[u].key = w.key BY <1>2, <2>9, <2>10, <4>1, Paths
          <5> QED BY <1>1, <2>15, <4>1, <5>1 DEF WriterOK, OneWriter
        <4> QED BY <1>1, <2>3, <3>0, <4>2, <4>3 DEF ThreadOK, RenamerOK
      <3>3. ReaderOK(u)'
        <4> SUFFICES ASSUME file[u].at = "read" PROVE ReaderOK(u)'
          BY <3>0 DEF ReaderOK
        <4>1. file[u].i # w.i /\ file[u].i \in 1..Len(inode)
          BY <1>1, <2>15, <3>0 DEF FlatInv, WritesAlone, ThreadOK, ReaderOK
        <4> QED BY <1>1, <2>3, <3>0, <4>1, SMTT(30) DEF ThreadOK, ReaderOK
      <3> QED BY <3>1, <3>2, <3>3 DEF ThreadOK
    <2> QED BY <1>4, <2>7, <2>8, <2>11, <2>13, <2>14, <2>15 DEF FlatInv
  <1> QED BY <1>5, <1>6 DEF WriteChunk

\* The rename gives a whole file its final name.
LEMMA RenameInv ==
  ASSUME OneWriter, OneFile, FlatInv, NEW t \in FlatThreads, Rename(t)
  PROVE  FlatInv'
  <1> USE DEF NoInode
  <1> DEFINE k == file[t].key
             i == dir[TmpOf(k)]
  <1>1. /\ file[t].at = "rename" /\ Do(t, Resting) /\ UNCHANGED <<inode, got, puts>> /\ FlatType
        /\ dir' = IF i = NoInode THEN dir ELSE [dir EXCEPT ![PathForKey(k)] = i, ![TmpOf(k)] = NoInode]
    BY DEF Rename, FlatInv, TmpOf
  <1>2. /\ ThreadOK(t) /\ k \in PutsOf[t] /\ k \in FileKeys
        /\ i # NoInode => inode[i] \in PayloadsOf(k)
    BY <1>1, FlatCacheAssumption DEF FlatInv, ThreadOK, RenamerOK
  <1>3. ReadsOwnPayload' /\ got' = [u \in FlatThreads |-> got'[u]]
    BY <1>1 DEF FlatInv, ReadsOwnPayload, FlatType
  <1>4. CASE i = NoInode
    <2>1. ThreadOK(t)' BY <1>1, Doing, AtRest, SMTT(30) DEF Resting
    <2> QED BY <1>1, <1>3, <1>4, <2>1, QuietStep DEF Resting, FlatType
  <1>5. CASE i # NoInode
    <2>1. /\ PathForKey(k) \in Names /\ TmpOf(k) \in Names /\ PathForKey(k) # TmpOf(k)
          /\ i \in 1..Len(inode)
      BY <1>1, <1>2, <1>5, Paths, SMTT(30) DEF FlatType
    <2>2. /\ dir'[PathForKey(k)] = i /\ dir'[TmpOf(k)] = NoInode
          /\ \A m \in Names : m # PathForKey(k) /\ m # TmpOf(k) => dir'[m] = dir[m]
          /\ dir' \in [Names -> 0..Len(inode)]
      BY <1>1, <1>5, <2>1, SMTT(30) DEF FlatType
    <2>3. /\ file'[t] = Resting /\ \A u \in FlatThreads \ {t} : file'[u] = file[u]
          /\ file' = [u \in FlatThreads |-> file'[u]]
      BY <1>1, Doing
    <2>4. FlatType' BY <1>1, <1>3, <2>2, <2>3 DEF FlatType
    <2>5. \A m \in Names : dir[m] = i => m = TmpOf(k)
      BY <1>5, <2>1 DEF FlatInv, OneName
    <2>6. OneName' BY <2>1, <2>2, <2>5 DEF FlatInv, OneName
    <2>7. FinalsWhole'
      <3> SUFFICES ASSUME NEW l \in FileKeys, dir'[PathForKey(l)] # NoInode
                   PROVE  inode[dir'[PathForKey(l)]] \in PayloadsOf(l)
        BY <1>1 DEF FinalsWhole
      <3>1. CASE l = k BY <1>2, <1>5, <2>2, <3>1
      <3>2. CASE l # k
        <4>1. PathForKey(l) \in Names /\ PathForKey(l) # PathForKey(k) /\ PathForKey(l) # TmpOf(k)
          BY <1>2, <3>2, Paths
        <4> QED BY <2>2, <4>1 DEF FlatInv, FinalsWhole
      <3> QED BY <3>1, <3>2
    <2>8. WritesAlone' BY <2>3, SMTT(30) DEF FlatInv, WritesAlone, Resting
    <2>9. ThreadOK(t)' BY <2>3, AtRest, SMTT(30) DEF Resting
    <2>10. ASSUME NEW u \in FlatThreads, u # t PROVE ThreadOK(u)'
      <3>0. ThreadOK(u) /\ file'[u] = file[u] /\ PutsOf[u] \subseteq FileKeys
        BY <2>3, <2>10, FlatCacheAssumption DEF FlatInv
      <3>1. file[u].at \in {"write", "rename"} =>
               /\ file[u].key \in FileKeys /\ TmpOf(file[u].key) \in Names
               /\ TmpOf(file[u].key) # TmpOf(k) /\ TmpOf(file[u].key) # PathForKey(k)
        <4> SUFFICES ASSUME file[u].at \in {"write", "rename"}
                     PROVE  /\ file[u].key \in FileKeys /\ TmpOf(file[u].key) \in Names
                            /\ TmpOf(file[u].key) # TmpOf(k) /\ TmpOf(file[u].key) # PathForKey(k)
          OBVIOUS
        <4>1. file[u].key \in PutsOf[u] BY <3>0 DEF ThreadOK, WriterOK, RenamerOK
        <4>2. file[u].key \in FileKeys /\ file[u].key # k BY <1>2, <2>10, <3>0, <4>1 DEF OneWriter
        <4> QED BY <1>2, <4>2, Paths
      <3>2. WriterOK(u)'
        <4> SUFFICES ASSUME file[u].at = "write" PROVE WriterOK(u)'
          BY <3>0 DEF WriterOK
        <4>1. file[u].i # i /\ file[u].i # NoInode
          BY <2>1, <3>0, <3>1, SMTT(30) DEF ThreadOK, WriterOK
        <4>2. \A m \in Names : dir'[m] = file[u].i => m = TmpOf(file[u].key)
          BY <2>2, <3>0, <4>1 DEF ThreadOK, WriterOK
        <4>3. dir'[TmpOf(file[u].key)] = dir[TmpOf(file[u].key)] BY <2>2, <3>1
        <4> QED BY <1>1, <3>0, <4>2, <4>3 DEF ThreadOK, WriterOK
      <3>3. RenamerOK(u)'
        <4> SUFFICES ASSUME file[u].at = "rename" PROVE RenamerOK(u)'
          BY <3>0 DEF RenamerOK
        <4>1. dir'[TmpOf(file[u].key)] = dir[TmpOf(file[u].key)] BY <2>2, <3>1
        <4> QED BY <1>1, <3>0, <4>1 DEF ThreadOK, RenamerOK
      <3>4. ReaderOK(u)'
        <4> SUFFICES ASSUME file[u].at = "read" PROVE ReaderOK(u)'
          BY <3>0 DEF ReaderOK
        <4>1. ASSUME NEW l \in FileKeys PROVE dir'[TmpOf(l)] # file[u].i
          <5>1. TmpOf(l) \in Names /\ TmpOf(l) # PathForKey(k) BY <1>2, Paths
          <5>2. dir'[TmpOf(l)] \in {dir[TmpOf(l)], NoInode} BY <2>2, <5>1
          <5> QED BY <3>0, <5>2, SMTT(30) DEF ThreadOK, ReaderOK
        <4> QED BY <1>1, <3>0, <4>1 DEF ThreadOK, ReaderOK
      <3> QED BY <3>2, <3>3, <3>4 DEF ThreadOK
    <2> QED BY <1>3, <2>4, <2>6, <2>7, <2>8, <2>9, <2>10 DEF FlatInv
  <1> QED BY <1>4, <1>5

\* One chunk more of what a reader has seen.
LEMMA SeeMore ==
  ASSUME NEW x, NEW r, r = [at |-> "read", key |-> r.key, i |-> r.i, seen |-> r.seen]
  PROVE  [r EXCEPT !.seen = Append(@, x)]
            = [at |-> "read", key |-> r.key, i |-> r.i, seen |-> Append(r.seen, x)]
  BY SMTT(30)

\* A reader opens a whole file and reads it to its end.
LEMMA ReadInv ==
  ASSUME OneFile, FlatInv, NEW t \in FlatThreads, OpenRead(t) \/ ReadChunk(t)
  PROVE  FlatInv'
  <1> USE DEF NoInode
  <1>0. FlatType /\ ThreadOK(t) /\ UNCHANGED <<inode, dir, puts>> /\ Chunks \in Nat \ {0}
    BY FlatCacheAssumption DEF FlatInv, OpenRead, ReadChunk
  <1>1. CASE OpenRead(t)
    <2>1. PICK k \in FileKeys :
            /\ dir[PathForKey(k)] # NoInode
            /\ Do(t, [at |-> "read", key |-> k, i |-> dir[PathForKey(k)], seen |-> <<>>])
      BY <1>1 DEF OpenRead
    <2> DEFINE i == dir[PathForKey(k)]
               r == [at |-> "read", key |-> k, i |-> i, seen |-> <<>>]
    <2>2. PathForKey(k) \in Names /\ i \in 1..Len(inode) BY <1>0, <2>1, Paths, SMTT(30) DEF FlatType
    <2>3. \A l \in FileKeys : dir[TmpOf(l)] # i
      BY <2>1, <2>2, Paths DEF FlatInv, OneName
    <2>4. PICK n \in 1..MaxPuts : inode[i] = Payload(k, n)
      BY <2>1 DEF FlatInv, FinalsWhole, PayloadsOf
    <2>5. <<>> = Partial(k, n, 0) /\ 0 \in 0..Chunks BY <1>0, Chunking, SMTT(30)
    <2>6. /\ file'[t] = r /\ \A u \in FlatThreads \ {t} : file'[u] = file[u]
          /\ file' = [u \in FlatThreads |-> file'[u]]
      BY <1>0, <2>1, Doing
    <2>7. ThreadOK(t)'
      <3>1. ReaderOK(t)' BY <1>0, <2>2, <2>3, <2>4, <2>5, <2>6, SMTT(30) DEF ReaderOK
      <3> QED BY <2>6, <3>1, SMTT(30) DEF ThreadOK, WriterOK, RenamerOK
    <2>8. got' = [u \in FlatThreads |-> got'[u]] /\ ReadsOwnPayload'
      BY <1>0, <1>1 DEF OpenRead, FlatType, FlatInv, ReadsOwnPayload
    <2>9. FlatType' BY <1>0, <2>6, <2>8 DEF FlatType
    <2>10. OneName' /\ FinalsWhole' /\ \A u \in FlatThreads \ {t} : ThreadOK(u)'
      BY <1>0, <2>6, <2>9, DropNames
    <2>11. ASSUME NEW u \in FlatThreads, u # t, file[u].at = "write" PROVE file[u].i # i
      <3>1. ThreadOK(u) /\ file[u].key \in FileKeys
        BY <2>11, FlatCacheAssumption DEF FlatInv, ThreadOK, WriterOK
      <3> QED BY <2>2, <2>11, <3>1, Paths DEF ThreadOK, WriterOK
    <2>12. WritesAlone' BY <2>6, <2>11, SMTT(30) DEF FlatInv, WritesAlone
    <2> QED BY <2>7, <2>8, <2>9, <2>10, <2>12 DEF FlatInv
  <1>2. CASE ReadChunk(t)
    <2> DEFINE r == file[t]
               next == Len(r.seen) + 1
    <2>1. r.at = "read" /\ ReaderOK(t) BY <1>0, <1>2 DEF ReadChunk, ThreadOK
    <2>2. r.key \in FileKeys /\ r.i \in 1..Len(inode)
      BY <2>1 DEF ReaderOK
    <2>3. PICK n \in 1..MaxPuts, p \in 0..Chunks :
            inode[r.i] = Payload(r.key, n) /\ r.seen = Partial(r.key, n, p)
      BY <2>1 DEF ReaderOK
    <2>4. Len(inode[r.i]) = Chunks /\ next = p + 1 /\ Chunks \in 0..Chunks
      <3>1. Chunks \in 0..Chunks BY <1>0, SMTT(30)
      <3>2. Len(Partial(r.key, n, p)) = p BY <2>2, <2>3, Chunking
      <3>3. Len(Partial(r.key, n, Chunks)) = Chunks BY <2>2, <2>3, <3>1, Chunking
      <3>4. Payload(r.key, n) = Partial(r.key, n, Chunks) BY <2>2, <2>3, Chunking
      <3> QED BY <2>3, <3>1, <3>2, <3>3, <3>4
    <2>5. CASE next <= Len(inode[r.i])
      <3>1. Do(t, [r EXCEPT !.seen = Append(@, inode[r.i][next])]) /\ UNCHANGED got
        BY <1>2, <2>5 DEF ReadChunk
      <3>2. [r EXCEPT !.seen = Append(@, inode[r.i][next])]
               = [at |-> "read", key |-> r.key, i |-> r.i, seen |-> Append(r.seen, inode[r.i][next])]
        <4>1. r = [at |-> "read", key |-> r.key, i |-> r.i, seen |-> r.seen] BY <2>1 DEF ReaderOK
        <4> HIDE DEF r, next
        <4> QED BY <4>1, SeeMore
      <3>3. p + 1 \in 1..Chunks /\ (p + 1) - 1 = p /\ p + 1 \in 0..Chunks BY <2>4, <2>5, SMTT(30)
      <3>4. Append(r.seen, inode[r.i][next]) = Partial(r.key, n, p + 1)
        <4>1. Append(Partial(r.key, n, (p + 1) - 1), Payload(r.key, n)[p + 1]) = Partial(r.key, n, p + 1)
          BY <2>2, <3>3, Chunking
        <4> QED BY <2>3, <2>4, <3>3, <4>1
      <3>5. file'[t] = [at |-> "read", key |-> r.key, i |-> r.i, seen |-> Partial(r.key, n, p + 1)]
        BY <1>0, <3>1, <3>2, <3>4, Doing
      <3>6. ThreadOK(t)'
        <4>1. \A l \in FileKeys : dir[TmpOf(l)] # r.i BY <2>1 DEF ReaderOK
        <4>2. inode' = inode /\ dir' = dir BY <1>2 DEF ReadChunk
        <4>3. r.i \in 1..Len(inode') /\ inode'[r.i] = Payload(r.key, n) BY <2>2, <2>3, <4>2
        <4> HIDE DEF r, next
        <4> QED BY <2>2, <3>3, <3>5, <4>1, <4>2, <4>3, Reading, SMTT(30)
      <3>7. got' = [u \in FlatThreads |-> got'[u]] /\ ReadsOwnPayload'
        BY <1>0, <3>1 DEF FlatType, FlatInv, ReadsOwnPayload
      <3>8. Do(t, [at |-> "read", key |-> r.key, i |-> r.i, seen |-> Append(r.seen, inode[r.i][next])])
        BY <3>1, <3>2
      <3> QED BY <1>0, <2>1, <3>6, <3>7, <3>8, QuietStep DEF FlatType
    <2>6. CASE ~(next <= Len(inode[r.i]))
      <3>1. Do(t, Resting) /\ got' = [got EXCEPT ![t] = <<r.key, r.seen>>]
        BY <1>2, <2>6 DEF ReadChunk
      <3>2. p = Chunks BY <1>0, <2>4, <2>6, SMTT(30)
      <3>3. r.seen \in PayloadsOf(r.key) BY <2>2, <2>3, <3>2, Chunking, SMTT(30)
      <3>4. got' = [u \in FlatThreads |-> got'[u]] /\ ReadsOwnPayload'
        BY <1>0, <3>1, <3>3 DEF FlatType, FlatInv, ReadsOwnPayload
      <3>5. ThreadOK(t)' BY <1>0, <3>1, Doing, AtRest, SMTT(30) DEF Resting
      <3> QED BY <1>0, <3>1, <3>4, <3>5, QuietStep DEF FlatType, Resting
    <2> QED BY <2>5, <2>6
  <1> QED BY <1>1, <1>2

\* Removals, clear and a restart only drop names.
LEMMA DropInv ==
  ASSUME FlatInv,
         (\E t \in FlatThreads : RemoveFile(t) \/ ClearDir(t)) \/ CrashAndOpen \/ UNCHANGED flatVars
  PROVE  FlatInv'
  <1> USE DEF NoInode
  <1>0. FlatType /\ \A k \in FileKeys : PathForKey(k) \in Names BY DEF FlatInv, Names
  <1>1. /\ UNCHANGED <<inode, puts>> /\ dir' \in [Names -> 0..Len(inode)]
        /\ \A m \in Names : dir'[m] \in {dir[m], NoInode}
    <2>1. CASE \E t \in FlatThreads : RemoveFile(t) BY <1>0, <2>1, SMTT(30) DEF RemoveFile, Link, FlatType
    <2>2. CASE \E t \in FlatThreads : ClearDir(t) BY <1>0, <2>2, SMTT(30) DEF ClearDir, FlatType
    <2>3. CASE CrashAndOpen \/ UNCHANGED flatVars BY <1>0, <2>3 DEF CrashAndOpen, flatVars, FlatType
    <2> QED BY <2>1, <2>2, <2>3
  <1>2. /\ file' = [u \in FlatThreads |-> file'[u]]
        /\ \A u \in FlatThreads : file'[u] = file[u] \/ file'[u].at \in {"idle", "mkdir"}
    <2>1. CASE \E t \in FlatThreads : RemoveFile(t) BY <1>0, <2>1 DEF RemoveFile, FlatType
    <2>2. CASE \E t \in FlatThreads : ClearDir(t)
      <3>1. PICK t \in FlatThreads, step \in {Resting, [at |-> "mkdir"]} : Do(t, step)
        BY <2>2 DEF ClearDir
      <3>2. step.at \in {"idle", "mkdir"} BY SMTT(30) DEF Resting
      <3> QED BY <1>0, <3>1, <3>2, Doing
    <2>3. CASE CrashAndOpen BY <2>3 DEF CrashAndOpen, Resting
    <2>4. CASE UNCHANGED flatVars BY <1>0, <2>4 DEF flatVars, FlatType
    <2> QED BY <2>1, <2>2, <2>3, <2>4
  <1>3. got' = [u \in FlatThreads |-> got'[u]] /\ ReadsOwnPayload'
    <2>1. UNCHANGED got \/ got' = [u \in FlatThreads |-> <<>>]
      BY DEF RemoveFile, ClearDir, CrashAndOpen, flatVars
    <2> QED BY <1>0, <2>1 DEF FlatInv, FlatType, ReadsOwnPayload
  <1>4. FlatType' BY <1>0, <1>1, <1>2, <1>3 DEF FlatType
  <1>5. OneName' /\ FinalsWhole' /\ \A u \in FlatThreads : ThreadOK(u)'
    BY <1>1, <1>2, <1>4, DropNames, AtRest
  <1>6. WritesAlone' BY <1>2 DEF FlatInv, WritesAlone
  <1> QED BY <1>3, <1>4, <1>5, <1>6 DEF FlatInv

\* FlatInv is inductive.
LEMMA FlatInductive ==
  ASSUME OneWriter, OneFile
  PROVE  (FlatInit => FlatInv) /\ (FlatInv /\ [FlatNext]_flatVars => FlatInv')
  <1>1. ASSUME FlatInit PROVE FlatInv
    <2> USE <1>1 DEF NoInode
    <2>1. FlatType
      <3>1. inode = <<>> /\ inode \in Seq(Partials) /\ Len(inode) = 0 BY SMTT(30) DEF FlatInit
      <3> QED BY <3>1, FlatCacheAssumption, SMTT(30) DEF FlatInit, FlatType
    <2>2. \A k \in FileKeys : PathForKey(k) \in Names BY DEF Names
    <2>3. OneName /\ FinalsWhole BY <2>2 DEF FlatInit, OneName, FinalsWhole
    <2>4. \A t \in FlatThreads : file[t].at = "idle" /\ got[t] = <<>> BY DEF FlatInit, Resting
    <2>5. WritesAlone /\ ReadsOwnPayload BY <2>4 DEF WritesAlone, ReadsOwnPayload
    <2>6. \A t \in FlatThreads : ThreadOK(t) BY <2>4 DEF ThreadOK, WriterOK, RenamerOK, ReaderOK
    <2> QED BY <2>1, <2>3, <2>5, <2>6 DEF FlatInv
  <1>2. ASSUME FlatInv, [FlatNext]_flatVars PROVE FlatInv'
    BY <1>2, OpenTmpInv, WriteChunkInv, RenameInv, ReadInv, DropInv DEF FlatNext
  <1> QED BY <1>1, <1>2

\* A get returns a payload that was put under its own key, whole and of one put,
\* whatever puts, removals, clears and restarts happen while the file is read; as
\* long as no key is put by two threads at a time and no two keys share a file.
THEOREM ReadsOwnPayloadHolds ==
  ASSUME OneWriter, OneFile
  PROVE  FlatSpec => []ReadsOwnPayload
  <1>1. FlatInv => ReadsOwnPayload BY DEF FlatInv
  <1> QED BY <1>1, FlatInductive, PTL DEF FlatSpec
=============================================================================
