------------------------------ MODULE WalKeys ------------------------------
(***************************************************************************)
(* The names of WAL objects and the stores that choose them.  Several      *)
(* writers (WalStore) publish in namespaces of one bucket that may already *)
(* hold objects of earlier versions and of group commits.  A name is the   *)
(* sequence of its dash-separated parts, so that a node id with dashes and *)
(* numbers in it meets the parser as it does in the code.                  *)
(***************************************************************************)
EXTENDS Integers, Sequences, FiniteSets

CONSTANTS
    WalWriters,      \* publishing processes
    WriterNs,        \* the namespace of each
    WriterId,        \* its configured node id: parts and the sign between them
    ListedUnder,     \* the namespaces whose keys start with a namespace's name
    WalSeeds,        \* possible first contents of the bucket
    MaxWalEpoch,     \* bound: milliseconds that pass
    WalCalls,        \* bound: publish_record calls of each writer
    MaxWalFaults     \* bound: failed store calls

ASSUME WalKeysAssumption == MaxWalEpoch \in Nat /\ WalCalls \in [WalWriters -> Nat] /\ MaxWalFaults \in Nat

VARIABLES
    walObjects,      \* the bucket: key |-> record
    writer,          \* each writer: its step, next_seq, candidate key, calls
    walEpoch,        \* the wall clock
    walAcked,        \* records whose publish_record returned Ok
    walFaults,       \* number of failed store calls
    blindStart       \* writers that once started without a listing

walKeyVars == <<walObjects, writer, walEpoch, walAcked, walFaults, blindStart>>

-----------------------------------------------------------------------------
Flat == -1

\* The parts of a name: text, or digits that parse as a u64.
Text(t) == [digits |-> FALSE, text |-> t, num |-> 0]
Numeral(n) == [digits |-> TRUE, text |-> "", num |-> n]
IsNumeral(part) == part.digits
ParseU64(part) == part.num

DefaultNode == <<Text("node"), Text("local")>>

\* sanitize_node_id: every sign but letters, digits and dashes becomes a dash.
SanitizeNodeId(id) == IF id.parts = <<>> THEN DefaultNode ELSE id.parts

BuildCanonicalWalKey(ns, node, epoch, seq) ==
    [ns |-> ns, dir |-> epoch, name |-> <<Text("chunk")>> \o node \o <<Numeral(seq)>>]

NoName == [ok |-> FALSE]
Named(kind, node, start, end) == [ok |-> TRUE, kind |-> kind, node |-> node, start |-> start, end |-> end]

\* The number is behind the last dash.
ParseNodeSeqFilename(name) ==
    IF Len(name) >= 3 /\ name[1] = Text("chunk") /\ IsNumeral(name[Len(name)])
    THEN LET seq == ParseU64(name[Len(name)])
         IN Named("single", SubSeq(name, 2, Len(name) - 1), seq, seq)
    ELSE NoName

ParseBatchSeqFilename(name) ==
    IF Len(name) >= 4 /\ name[1] = Text("batch") /\ IsNumeral(name[Len(name)]) /\ IsNumeral(name[Len(name) - 1])
    THEN Named("batch", SubSeq(name, 2, Len(name) - 2), ParseU64(name[Len(name) - 1]), ParseU64(name[Len(name)]))
    ELSE NoName

ParseFilename(name) ==
    IF ParseNodeSeqFilename(name).ok THEN ParseNodeSeqFilename(name) ELSE ParseBatchSeqFilename(name)

ParseLegacyDefaultFilename(name) ==
    IF Len(name) = 2 /\ name[1] = Text("chunk") /\ IsNumeral(name[2])
    THEN Named("single", DefaultNode, ParseU64(name[2]), ParseU64(name[2]))
    ELSE NoName

\* The epoch-partitioned layout, then the flat ones of earlier versions.
ParseWalObjectKey(ns, key) ==
    IF key.ns # ns THEN NoName
    ELSE IF key.dir # Flat \/ ParseFilename(key.name).ok THEN ParseFilename(key.name)
    ELSE ParseLegacyDefaultFilename(key.name)

\* list_prefix has no slash behind the namespace.
ListPrefix(ns) == {k \in DOMAIN walObjects : k.ns \in ListedUnder[ns]}

ParseSeqForNode(ns, node, key) ==
    LET parsed == ParseWalObjectKey(ns, key)
    IN IF parsed.ok /\ parsed.node = node THEN {parsed.end} ELSE {}

RecoverNextSeq(ns, node) ==
    LET seqs == {0} \cup UNION {ParseSeqForNode(ns, node, k) : k \in ListPrefix(ns)}
    IN (CHOOSE s \in seqs : \A t \in seqs : t <= s) + 1

\* compare_wal_object_keys, for keys that differ in sequence number or epoch;
\* flat keys sort behind the epoch directories.
KeyPrecedes(ns, a, b) ==
    LET p == ParseWalObjectKey(ns, a)
        q == ParseWalObjectKey(ns, b)
    IN \/ p.ok /\ q.ok /\ p.start < q.start
       \/ p.ok /\ q.ok /\ p.start = q.start /\ a.dir # Flat /\ (b.dir = Flat \/ a.dir < b.dir)
       \/ p.ok /\ ~q.ok

-----------------------------------------------------------------------------
NodeOf(w) == SanitizeNodeId(WriterId[w])
NoKey == [ns |-> "", dir |-> Flat, name |-> <<>>]
Stopped(seq, calls) == [at |-> "idle", seq |-> seq, key |-> NoKey, calls |-> calls]

\* The record of a writer's n-th call; the bucket's first records are calls 0.
RecordOfCall(w) == <<w, writer[w].calls>>

WalKeysInit ==
    /\ walObjects \in WalSeeds
    /\ writer = [w \in WalWriters |-> Stopped(RecoverNextSeq(WriterNs[w], NodeOf(w)), 0)]
    /\ walEpoch = 0
    /\ walAcked = {walObjects[k] : k \in DOMAIN walObjects}
    /\ walFaults = 0
    /\ blindStart = {}

BeginPublish(w) ==
    /\ writer[w].at = "idle" /\ writer[w].calls < WalCalls[w]
    /\ writer' = [writer EXCEPT ![w].at = "head", ![w].calls = @ + 1]
    /\ UNCHANGED <<walObjects, walEpoch, walAcked, walFaults, blindStart>>

\* Faulty variant: a candidate is not looked up before it is written.
HeadCandidateUnchecked(w) ==
    LET candidate == BuildCanonicalWalKey(WriterNs[w], NodeOf(w), walEpoch, writer[w].seq) IN
    /\ writer[w].at = "head"
    /\ writer' = [writer EXCEPT ![w].at = "put", ![w].key = candidate]
    /\ UNCHANGED <<walObjects, walEpoch, walAcked, walFaults, blindStart>>

\* head_object of the candidate: one that exists costs a sequence number.
HeadCandidate(w) ==
    LET candidate == BuildCanonicalWalKey(WriterNs[w], NodeOf(w), walEpoch, writer[w].seq) IN
    /\ writer[w].at = "head"
    /\ writer' = IF candidate \in DOMAIN walObjects
                 THEN [writer EXCEPT ![w].seq = @ + 1]
                 ELSE [writer EXCEPT ![w].at = "put", ![w].key = candidate]
    /\ UNCHANGED <<walObjects, walEpoch, walAcked, walFaults, blindStart>>

WithKey(w) == [k \in DOMAIN walObjects \cup {writer[w].key} |->
                IF k = writer[w].key THEN RecordOfCall(w) ELSE walObjects[k]]

PutCandidate(w) ==
    /\ writer[w].at = "put"
    /\ walObjects' = WithKey(w)
    /\ writer' = [writer EXCEPT ![w].at = "get"]
    /\ UNCHANGED <<walEpoch, walAcked, walFaults, blindStart>>

\* The object is read back; another record there starts over.
ReadBack(w) ==
    /\ writer[w].at = "get"
    /\ writer' = [writer EXCEPT ![w].seq = @ + 1,
                                ![w].at = IF walObjects[writer[w].key] = RecordOfCall(w) THEN "verify" ELSE "head"]
    /\ UNCHANGED <<walObjects, walEpoch, walAcked, walFaults, blindStart>>

VerifyHead(w) ==
    /\ writer[w].at = "verify"
    /\ writer' = [writer EXCEPT ![w].at = "idle", ![w].key = NoKey]
    /\ walAcked' = walAcked \cup {RecordOfCall(w)}
    /\ UNCHANGED <<walObjects, walEpoch, walFaults, blindStart>>

\* A store call fails, and publish_record with it; a failed put may have stored.
StoreFails(w) ==
    /\ writer[w].at # "idle" /\ walFaults < MaxWalFaults
    /\ walFaults' = walFaults + 1
    /\ walObjects' \in {walObjects} \cup (IF writer[w].at = "put" THEN {WithKey(w)} ELSE {})
    /\ writer' = [writer EXCEPT ![w] = Stopped(@.seq, @.calls)]
    /\ UNCHANGED <<walEpoch, walAcked, blindStart>>

\* The process dies and starts again: with_node_id lists the namespace.
RestartWriter(w) ==
    /\ writer[w].calls > 0
    /\ writer' = [writer EXCEPT ![w] = Stopped(RecoverNextSeq(WriterNs[w], NodeOf(w)), @.calls)]
    /\ UNCHANGED <<walObjects, walEpoch, walAcked, walFaults, blindStart>>

\* unwrap_or(0): a failed listing starts at zero.
RestartBlind(w) ==
    /\ writer[w].calls > 0 /\ walFaults < MaxWalFaults
    /\ writer' = [writer EXCEPT ![w] = Stopped(0, @.calls)]
    /\ walFaults' = walFaults + 1
    /\ blindStart' = blindStart \cup {w}
    /\ UNCHANGED <<walObjects, walEpoch, walAcked>>

NextMillisecond ==
    /\ walEpoch < MaxWalEpoch
    /\ walEpoch' = walEpoch + 1
    /\ UNCHANGED <<walObjects, writer, walAcked, walFaults, blindStart>>

WalKeysNext ==
    \/ NextMillisecond
    \/ \E w \in WalWriters :
        \/ BeginPublish(w) \/ HeadCandidate(w) \/ PutCandidate(w) \/ ReadBack(w) \/ VerifyHead(w)
        \/ StoreFails(w) \/ RestartWriter(w) \/ RestartBlind(w)

-----------------------------------------------------------------------------
\* Replay returns every record whose publish_record returned Ok: no other
\* writer, later call, failed listing or restart writes over its key.  And it
\* returns the records of a writer in the order of its calls, restarts and older
\* layouts included, as long as no start went without a listing (with_node_id
\* then begins at zero again).
PublishedKept ==
    /\ \A r \in walAcked : \E k \in DOMAIN walObjects : walObjects[k] = r
    /\ \A w \in WalWriters \ blindStart : \A a, b \in DOMAIN walObjects :
        LET r == walObjects[a]
            s == walObjects[b]
        IN {r, s} \subseteq walAcked /\ r[1] = w /\ s[1] = w /\ r[2] < s[2] => KeyPrecedes(WriterNs[w], a, b)

\* replay_records returns the records of its own namespace only.  Violated when
\* the name of one namespace begins the name of another.
ReplayOwnNamespace ==
    \A w \in WalWriters : \A k \in ListPrefix(WriterNs[w]) : k.ns = WriterNs[w]
=============================================================================
