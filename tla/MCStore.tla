------------------------------ MODULE MCStore ------------------------------
(***************************************************************************)
(* Small instances of what lies between the node and the bucket or disk:   *)
(* the object store clients, the log's keys, the formats of log, segments  *)
(* and blobs, the delta log's replay, the flat-file cache, the prefix      *)
(* index, and the histograms that time it. They share no state; part is    *)
(* the one that runs in a behaviour, the others stay where they begin.     *)
(***************************************************************************)
EXTENDS ObjectStore, WalKeys, StorageFormats, DeltaReplay, FlatCache, PrefixIndex, LatencyHistogram

CONSTANTS w1, w2, c1, c2, body1, body2

VARIABLE part

\* Object store: two clients of one key, on each kind of backend that
\* put_if_token_matches distinguishes.
MCBackends == {[cond |-> "enforces", etag |-> TRUE], [cond |-> "enforces", etag |-> FALSE],
               [cond |-> "refuses", etag |-> TRUE], [cond |-> "memory", etag |-> FALSE]}
MCSymmetry == Permutations({c1, c2}) \cup Permutations({body1, body2})

\* Log keys: two nodes of one namespace, of which one's id begins with the
\* other's, on a bucket that may hold a batch or an object of the old layout.
MCWriterNs == [w \in WalWriters |-> "t"]
MCWriterId == (w1 :> [parts |-> <<Text("n"), Numeral(1)>>, sign |-> "."]) @@ (w2 :> [parts |-> <<Text("n")>>, sign |-> "-"])
MCListedUnder == [t |-> {"t", "t2"}, t2 |-> {"t2"}]
MCWalSeeds == {<<>>,
    [ns |-> "t", dir |-> 0, name |-> <<Text("batch"), Text("n"), Numeral(1), Numeral(1), Numeral(2)>>] :> <<w1, 0>>,
    [ns |-> "t", dir |-> Flat, name |-> <<Text("chunk"), Text("n"), Numeral(1), Numeral(2)>>] :> <<w1, 0>>}
MCWalCalls == (w1 :> 3) @@ (w2 :> 1)

\* Formats: empty, single and unsorted items, payloads past a chunk, keys that
\* are prefixes of each other; ranges that hit, miss and are empty.
MCFileItems == {<<>>, << <<<<1>>, <<2, 3>>>> >>,
    << <<<<2>>, <<1>>>>, <<<<1, 3>>, <<>>>>, <<<<1>>, <<0, 7>>>> >>,
    << <<<<3>>, <<1, 2, 3, 4, 5, 6>>>>, <<<<3, 0>>, <<4>>>> >>}
MCFileRanges == {<<<<1>>, <<2>>>>, <<<<>>, <<7>>>>, <<<<1>>, <<1>>>>, <<<<2>>, <<1>>>>, <<<<3>>, <<3, 0>>>>}
MCCompressCfgs == {[algo |-> algo, level |-> 3] : algo \in {"none", "zstd", "lz4"}}

\* Delta documents: duplicates, ties, conflicts, and what is left out.
Document(epoch, seq, write, prefix, digest) ==
    [json |-> TRUE, version |-> 1, epoch |-> epoch, seq |-> seq, write |-> write,
     tenant |-> "t", fingerprint |-> "f", prefix |-> prefix, digest |-> digest]
MCDocuments == {Document(1, 1, 2, "p", "x"), Document(1, 2, 1, "p", "y"), Document(0, 9, 3, "p", "y"),
                Document(1, 1, 1, "p", "x"), Document(0, 1, 1, "q", "x"), Document(0, 0, 1, "p", ""),
                [Document(0, 0, 1, "p", "z") EXCEPT !.version = 2],
                [Document(0, 0, 1, "p", "z") EXCEPT !.version = -1],
                [Document(0, 0, 1, "p", "z") EXCEPT !.json = FALSE]}

\* Flat files: two keys of one namespace, each put by a thread of its own.
MCFileKeys == {<<"a", "/", "b">>, <<"a", "/", "c">>}
MCPutsOf == [f1 |-> {<<"a", "/", "b">>}, f2 |-> {<<"a", "/", "c">>}]

\* Prefix index: calls to the store alone and to the index alone.
MCGuardrail == [host |-> 20, reserved |-> 10, pct |-> 50, overhead |-> 1]
MCPxBudgets == {<<2, 0>>, <<0, 6>>}

MCHistBounds == {[samples |-> 3, dumps |-> 0, resets |-> 1], [samples |-> 2, dumps |-> 1, resets |-> 0]}

-----------------------------------------------------------------------------
MCInit ==
    /\ part \in {"object", "keys", "files", "delta", "flat", "prefix", "histogram"}
    /\ CasInit /\ WalKeysInit /\ FilesInit /\ DeltaInit /\ FlatInit /\ PrefixInit /\ HistogramInit
    /\ format = "keys" /\ original = <<>> /\ frame = <<>> /\ edits = 0
    /\ part # "object" => object = Absent /\ backend.cond = "memory"
    /\ part # "keys" => walObjects = <<>>
    /\ part # "files" => fileKind = "segment" /\ items = <<>>
    /\ part # "prefix" => pxLeft = <<0, 6>>
    /\ part # "histogram" => histBound.resets = 0

MCNext ==
    \/ /\ part = "object" /\ CasNext
       /\ UNCHANGED <<part, walKeyVars, fileVars, codecVars, deltaVars, flatVars, prefixVars, histVars>>
    \/ /\ part = "keys" /\ WalKeysNext
       /\ UNCHANGED <<part, casVars, fileVars, codecVars, deltaVars, flatVars, prefixVars, histVars>>
    \/ /\ part = "files" /\ FilesNext
       /\ UNCHANGED <<part, casVars, walKeyVars, codecVars, deltaVars, flatVars, prefixVars, histVars>>
    \/ /\ part = "delta" /\ DeltaNext
       /\ UNCHANGED <<part, casVars, walKeyVars, fileVars, codecVars, flatVars, prefixVars, histVars>>
    \/ /\ part = "flat" /\ FlatNext
       /\ UNCHANGED <<part, casVars, walKeyVars, fileVars, codecVars, deltaVars, prefixVars, histVars>>
    \/ /\ part = "prefix" /\ PrefixNext
       /\ UNCHANGED <<part, casVars, walKeyVars, fileVars, codecVars, deltaVars, flatVars, histVars>>
    \/ /\ part = "histogram" /\ HistogramNext
       /\ UNCHANGED <<part, casVars, walKeyVars, fileVars, codecVars, deltaVars, flatVars, prefixVars>>

MCSpec ==
    MCInit /\ [][MCNext]_<<part, casVars, walKeyVars, fileVars, codecVars, deltaVars, flatVars, prefixVars, histVars>>

=============================================================================
