---------------------------- MODULE ObjectStore ----------------------------
(***************************************************************************)
(* The object store clients of wal_store.rs on one key: S3ObjectStore over *)
(* a bucket, whose calls are several requests with retries, and            *)
(* InMemoryObjectStore, whose calls are atomic. A request may fail before  *)
(* or after it took effect. Handles of one process share the capability    *)
(* cache; a handle runs one call at a time.                                *)
(*                                                                         *)
(* ETags and content hashes are taken to identify the content, so a token  *)
(* holds the content it was made from.                                     *)
(***************************************************************************)
EXTENDS Naturals, FiniteSets

CONSTANTS
    Clients,        \* handles
    Payloads,
    Absent,         \* no object under the key
    Backends,       \* what the bucket may be: [cond, etag]
    MaxRetries,     \* S3ObjectStoreConfig.max_retries
    MaxFaults,      \* bound: failed requests in a behaviour
    MaxCalls        \* bound: calls in a behaviour, besides ensure_bucket

ASSUME ObjectStoreAssumption ==
    /\ Absent \notin Payloads
    /\ Backends \subseteq [cond : {"enforces", "refuses", "ignores", "memory"}, etag : BOOLEAN]
    /\ MaxRetries \in Nat /\ MaxFaults \in Nat /\ MaxCalls \in Nat

VARIABLES
    object,     \* what the bucket holds under the key
    backend,
    cache,      \* s3_capability_cache, for this bucket
    caps,       \* S3ObjectStoreInner.capabilities of each handle
    call,       \* each handle's running call
    token,      \* the token of its last read_with_token
    outcome,    \* what its last call returned
    ensured,    \* history: handles whose ensure_bucket succeeded
    faults, calls

casVars == <<object, backend, cache, caps, call, token, outcome, ensured, faults, calls>>

Contents == Payloads \cup {Absent}
NoCaps == [create |-> FALSE, update |-> FALSE]
NotProbed == [create |-> FALSE, update |-> FALSE, probed |-> FALSE]
NoToken == [kind |-> "none", of |-> Absent]

\* A call: at is the request it makes next, body what its get returned. applied
\* and missed are history: a lost write that took effect, a refused condition.
Idle == [op |-> "idle", at |-> "none", from |-> Absent, to |-> Absent, body |-> Absent,
         tries |-> 0, applied |-> FALSE, missed |-> FALSE]

CasInit ==
    /\ object \in Contents
    /\ backend \in Backends
    /\ cache = NotProbed
    /\ caps = [c \in Clients |-> NoCaps]
    /\ call = [c \in Clients |-> Idle]
    /\ token = [c \in Clients |-> NoToken]
    /\ outcome = [c \in Clients |-> "none"]
    /\ ensured = {}
    /\ faults = 0 /\ calls = 0

InMemory == backend.cond = "memory"

Begin(c, op, at, from, to) ==
    /\ call[c].op = "idle"
    /\ calls < MaxCalls
    /\ calls' = calls + 1
    /\ call' = [call EXCEPT ![c] = [Idle EXCEPT !.op = op, !.at = at, !.from = from, !.to = to]]
    /\ outcome' = [outcome EXCEPT ![c] = "none"]
    /\ UNCHANGED <<object, backend, cache, caps, token, ensured, faults>>

End(c, result) ==
    /\ call' = [call EXCEPT ![c] = Idle]
    /\ outcome' = [outcome EXCEPT ![c] = result]

\* The next request of the same call starts with fresh retries.
Go(c, at) ==
    /\ call' = [call EXCEPT ![c].at = at, ![c].tries = 0]
    /\ UNCHANGED outcome

(***************************************************************************)
(* The calls                                                               *)
(***************************************************************************)
ReadWithToken(c) == Begin(c, "read", "get", Absent, Absent)
PutObject(c, to) == Begin(c, "put", "put", Absent, to)

\* put_object_overwrite, which on a bucket is the same as put_object
Overwrite(c, to) == InMemory /\ Begin(c, "overwrite", "put", Absent, to)

DeleteObject(c) == Begin(c, "delete", "put", Absent, Absent)
CompareAndSwap(c, from, to) == Begin(c, "cas", "get", from, to)

\* Without the capability, or with a token that is no ETag, nothing is sent.
PutIfTokenMatches(c, to) ==
    /\ token[c] # NoToken
    /\ Begin(c, "update",
             IF InMemory \/ (caps[c].update /\ token[c].kind = "etag") THEN "cond" ELSE "refused",
             token[c].of, to)

PutIfAbsent(c, to) ==
    Begin(c, "create", IF InMemory \/ caps[c].create THEN "cond" ELSE "refused", Absent, to)

\* Called once, before the handle is used; not counted by MaxCalls.
EnsureBucket(c) ==
    /\ ~InMemory
    /\ call[c].op = "idle" /\ c \notin ensured
    /\ call' = [call EXCEPT ![c] = [Idle EXCEPT !.op = "ensure", !.at = "bucket"]]
    /\ outcome' = [outcome EXCEPT ![c] = "none"]
    /\ UNCHANGED <<object, backend, cache, caps, token, ensured, faults, calls>>

Refused(c) ==
    /\ call[c].at = "refused"
    /\ End(c, "Unsupported")
    /\ UNCHANGED <<object, backend, cache, caps, token, ensured, faults, calls>>

(***************************************************************************)
(* Requests. retry_with_backoff makes MaxRetries + 1 attempts.             *)
(***************************************************************************)
Again(c, last) ==
    \/ /\ call[c].tries < MaxRetries
       /\ call' = [call EXCEPT ![c].tries = @ + 1]
       /\ UNCHANGED outcome
    \/ /\ call[c].tries >= MaxRetries
       /\ End(c, last)

Fault == faults < MaxFaults /\ faults' = faults + 1

\* What follows a get. compare_and_swap_object goes on to an unconditional put.
Got(c, body) ==
    \/ call[c].op = "cas" /\ (IF body = call[c].from THEN Go(c, "put") ELSE End(c, "Ok"))
    \/ /\ call[c].op = "read"
       /\ IF body = Absent THEN End(c, "Ok")
          ELSE /\ call' = [call EXCEPT ![c].at = "head", ![c].tries = 0, ![c].body = body]
               /\ UNCHANGED outcome
    \/ /\ call[c].op \in {"update", "create"}
       /\ IF body = Absent THEN End(c, "Conflict") ELSE Go(c, "head")

\* get_object. A missing object is an error like any other, so it is asked for
\* again before the answer is that there is none.
Get(c) ==
    /\ ~InMemory
    /\ call[c].at = "get"
    /\ \/ /\ object # Absent \/ call[c].tries >= MaxRetries
          /\ Got(c, object)
          /\ UNCHANGED faults
       \/ /\ object = Absent /\ call[c].tries < MaxRetries
          /\ Again(c, "Err")
          /\ UNCHANGED faults
       \/ Fault /\ Again(c, "Err")
    /\ UNCHANGED <<object, backend, cache, caps, token, ensured, calls>>

\* head_etag, the second request of read_with_token and of a conflict's answer.
HeadObject(c) ==
    /\ ~InMemory
    /\ call[c].at = "head"
    /\ \/ /\ call[c].op = "read"
          /\ token' = [token EXCEPT ![c] =
                IF object # Absent /\ backend.etag THEN [kind |-> "etag", of |-> object]
                ELSE [kind |-> "hash", of |-> call[c].body]]
          /\ End(c, "Ok")
          /\ UNCHANGED faults
       \/ /\ call[c].op # "read"
          /\ End(c, "Conflict")
          /\ UNCHANGED <<token, faults>>
       \/ Fault /\ Again(c, "Err") /\ UNCHANGED token
    /\ UNCHANGED <<object, backend, cache, caps, ensured, calls>>

\* put_object and delete_object
Put(c) ==
    /\ ~InMemory
    /\ call[c].at = "put"
    /\ \/ /\ object' = call[c].to
          /\ End(c, "Ok")
          /\ UNCHANGED faults
       \/ /\ Fault
          /\ object' \in {object, call[c].to}
          /\ Again(c, "Err")
    /\ UNCHANGED <<backend, cache, caps, token, ensured, calls>>

Holds(c) == backend.cond = "ignores" \/ object = call[c].from

\* Faulty variant: on a repeated attempt a conflict with the own payload counts
\* as success.
ConditionalPutOwn(c) ==
    /\ ~InMemory
    /\ call[c].at = "cond"
    /\ \/ /\ backend.cond # "refuses" /\ Holds(c)
          /\ object' = call[c].to
          /\ End(c, "Success")
          /\ UNCHANGED faults
       \/ /\ backend.cond # "refuses" /\ ~Holds(c)
          /\ \/ /\ call[c].tries > 0 /\ object = call[c].to
                /\ End(c, "Success")
             \/ /\ call[c].tries = 0 \/ object # call[c].to
                /\ call' = [call EXCEPT ![c].at = "get", ![c].tries = 0, ![c].missed = TRUE]
                /\ UNCHANGED outcome
          /\ UNCHANGED <<object, faults>>
       \/ Fault /\ Again(c, "Err") /\ UNCHANGED object
    /\ UNCHANGED <<backend, cache, caps, token, ensured, calls>>

\* conditional_put_with_headers and the match on its status: only a request that
\* got no status is made again; a conflict goes on to read the current token; any
\* other status is an error at once.
ConditionalPut(c) ==
    /\ ~InMemory
    /\ call[c].at = "cond"
    /\ \/ /\ backend.cond = "refuses"
          /\ End(c, "Unsupported")
          /\ UNCHANGED <<object, faults>>
       \/ /\ backend.cond # "refuses" /\ Holds(c)
          /\ object' = call[c].to
          /\ End(c, "Success")
          /\ UNCHANGED faults
       \/ /\ backend.cond # "refuses" /\ ~Holds(c)
          /\ call' = [call EXCEPT ![c].at = "get", ![c].tries = 0, ![c].missed = TRUE]
          /\ UNCHANGED <<object, outcome, faults>>
       \/ /\ Fault
          /\ \/ Again(c, "Err") /\ UNCHANGED object
             \/ End(c, "Err") /\ UNCHANGED object
             \/ /\ backend.cond # "refuses" /\ Holds(c)
                /\ object' = call[c].to
                /\ \/ End(c, "Err")
                   \/ /\ call[c].tries < MaxRetries
                      /\ call' = [call EXCEPT ![c].tries = @ + 1, ![c].applied = TRUE]
                      /\ UNCHANGED outcome
    /\ UNCHANGED <<backend, cache, caps, token, ensured, calls>>

(***************************************************************************)
(* ensure_bucket and the capability probe                                  *)
(***************************************************************************)
Cached(c) ==
    /\ caps' = [caps EXCEPT ![c] = [create |-> cache'.create, update |-> cache'.update]]
    /\ ensured' = ensured \cup {c}
    /\ End(c, "Ok")

\* The bucket exists or is created; then the cache is read.
FindBucket(c) ==
    /\ call[c].at = "bucket"
    /\ \/ /\ cache # NotProbed
          /\ UNCHANGED <<cache, faults>>
          /\ Cached(c)
       \/ /\ cache = NotProbed
          /\ Go(c, "probe")
          /\ UNCHANGED <<cache, caps, ensured, faults>>
       \/ /\ Fault /\ Again(c, "Err")
          /\ UNCHANGED <<cache, caps, ensured>>
    /\ UNCHANGED <<object, backend, token, calls>>

\* What probe_capabilities finds, with f failed requests: a store that accepts
\* the headers counts as one that honours them, and a conditional put that got no
\* answer in all its attempts as one that does not accept them.
Probed(create, update, f) ==
    LET accepts == backend.cond # "refuses"
        denied == Cardinality({p \in {<<"create", create, accepts>>,
                                      <<"update", update, accepts /\ backend.etag>>} :
                                p[3] /\ ~p[2]})
    IN /\ create => accepts
       /\ update => accepts /\ backend.etag
       /\ f = denied * (MaxRetries + 1)

\* The lock is not held while probing; the first one to finish fills the cache.
Probe(c) ==
    /\ call[c].at = "probe"
    /\ \/ \E create, update \in BOOLEAN, f \in 0..(MaxFaults - faults) :
            /\ Probed(create, update, f)
            /\ faults' = faults + f
            /\ cache' = IF cache = NotProbed
                        THEN [create |-> create, update |-> update, probed |-> TRUE] ELSE cache
            /\ Cached(c)
       \/ /\ Fault /\ End(c, "Err")
          /\ UNCHANGED <<cache, caps, ensured>>
    /\ UNCHANGED <<object, backend, token, calls>>

(***************************************************************************)
(* InMemoryObjectStore: every call holds the lock from its first access to *)
(* its last. Its put_object keeps what is there.                           *)
(***************************************************************************)
Matches(c) == object = call[c].from

MemoryCall(c) ==
    /\ InMemory
    /\ \/ /\ call[c].op = "read"
          /\ token' = IF object = Absent THEN token
                      ELSE [token EXCEPT ![c] = [kind |-> "hash", of |-> object]]
          /\ End(c, "Ok") /\ UNCHANGED object
       \/ /\ call[c].op = "put"
          /\ object' = IF object = Absent THEN call[c].to ELSE object
          /\ End(c, "Ok") /\ UNCHANGED token
       \/ /\ call[c].op \in {"overwrite", "delete"}
          /\ object' = call[c].to
          /\ End(c, "Ok") /\ UNCHANGED token
       \/ /\ call[c].op \in {"cas", "update", "create"}
          /\ object' = IF Matches(c) THEN call[c].to ELSE object
          /\ End(c, IF Matches(c) THEN "Success" ELSE "Conflict") /\ UNCHANGED token
    /\ UNCHANGED <<backend, cache, caps, ensured, faults, calls>>

Start(c) ==
    \/ ReadWithToken(c) \/ DeleteObject(c) \/ EnsureBucket(c)
    \/ \E to \in Payloads :
        \/ PutObject(c, to) \/ Overwrite(c, to)
        \/ \E from \in Contents : CompareAndSwap(c, from, to)
        \/ PutIfTokenMatches(c, to) \/ PutIfAbsent(c, to)

Proceed(c) ==
    \/ Refused(c)
    \/ Get(c) \/ HeadObject(c) \/ Put(c) \/ ConditionalPut(c)
    \/ FindBucket(c) \/ Probe(c)
    \/ MemoryCall(c)

CasNext == \E c \in Clients : Start(c) \/ Proceed(c)

CasSpec == CasInit /\ [][CasNext]_casVars

(***************************************************************************)
(* Properties                                                              *)
(***************************************************************************)

\* What each call is to CasRegister. compare_and_swap_object of S3 is no swap:
\* another write between its get and its put is lost.
Kind(c) ==
    IF call[c].op \in {"update", "create"} \/ (InMemory /\ call[c].op = "cas") THEN "swap"
    ELSE IF call[c].op \in {"put", "overwrite", "delete", "cas"} THEN "write"
    ELSE "read"

RegisterOp(c) ==
    IF call[c].op = "idle" THEN [kind |-> "none"]
    ELSE [kind |-> Kind(c), from |-> call[c].from, to |-> call[c].to,
          missed |-> call[c].missed, applied |-> call[c].applied]

Register == INSTANCE CasRegister WITH
    Client <- Clients, Content <- Contents,
    reg <- object, op <- [c \in Clients |-> RegisterOp(c)], answer <- outcome

\* put_if_absent and put_if_token_matches are compare-and-swaps on a register, on
\* a bucket that honours the conditions and in memory: whatever requests are
\* lost, repeated and interleaved, Success means that this call exchanged the
\* value it was given, Conflict that it met another one.
SwapsAreAtomic == Register!RegSpec

=============================================================================
