-------------------------- MODULE LatencyHistogram --------------------------
(***************************************************************************)
(* The lock-free latency histogram and its registry.  record_global finds  *)
(* or creates the histogram of a tag and then record_us touches five       *)
(* atomics one after the other, while other threads record, a dumper takes *)
(* a snapshot field by field and a window ends with reset, also field by   *)
(* field.  Every atomic access is a step; relaxed reads see the latest     *)
(* value, which is the weakest reading the properties below need.          *)
(***************************************************************************)
EXTENDS Integers, Sequences, FiniteSets

CONSTANTS
    Recorders,       \* recording threads
    Samples,         \* latencies in microseconds
    HistBuckets,     \* HISTOGRAM_BUCKETS
    Percentiles,     \* the percentiles that are asked for
    HistBounds       \* bounds: records at a time, snapshots and resets

ASSUME HistogramAssumption == HistBuckets \in Nat \ {0} /\ (\A b \in HistBounds : b.samples \in Nat) /\ Samples \subseteq Nat

VARIABLES
    registry,        \* the id of the tag's histogram, 0 before there is one
    hists,           \* the histograms: id |-> its atomics
    rec,             \* each recorder: its step, sample, histogram, loaded max
    dump,            \* the snapshot being taken, and its fields so far
    resetAt,         \* what the reset stores next, "idle" when none runs
    recorded,        \* samples whose record_us returned since the last reset
    tornReset,       \* a reset has overlapped a record
    dumps, resets,   \* number of snapshots and resets
    histBound        \* the bounds of this behaviour

histVars == <<registry, hists, rec, dump, resetAt, recorded, tornReset, dumps, resets, histBound>>

-----------------------------------------------------------------------------
\* bucket_for: floor(log2), the last value for everything above.
BucketFor(us) ==
    IF us <= 1 THEN 0
    ELSE CHOOSE b \in 0 .. HistBuckets :
            us >= 2 ^ b /\ (us < 2 ^ (b + 1) \/ b = HistBuckets)

\* The atomics in the order they are read and reset: the buckets, with the
\* overflow as the last one, then sum, count and max.
NewHistogram == [buckets |-> [b \in 0 .. HistBuckets |-> 0], sum |-> 0, count |-> 0, max |-> 0]

RestingRecorder(r) == rec[r].at = "idle"
AtRest == [at |-> "idle", us |-> 0, hist |-> 0, cur |-> 0]
Recording == \E r \in Recorders : ~RestingRecorder(r)
InFlight == {r \in Recorders : ~RestingRecorder(r)}

HistogramInit ==
    /\ registry = 0 /\ hists = <<>>
    /\ rec = [r \in Recorders |-> AtRest]
    /\ dump = [at |-> "idle", snap |-> NewHistogram]
    /\ resetAt = "idle"
    /\ recorded = <<>> /\ tornReset = FALSE
    /\ dumps = 0 /\ resets = 0
    /\ histBound \in HistBounds

\* record_global, read lock: the hot path when the tag is known.
FindTag(r, us) ==
    /\ RestingRecorder(r) /\ Len(recorded) + Cardinality(InFlight) < histBound.samples
    /\ rec' = [rec EXCEPT ![r] = IF registry # 0 THEN [AtRest EXCEPT !.at = "bucket", !.us = us, !.hist = registry]
                                                 ELSE [AtRest EXCEPT !.at = "create", !.us = us]]
    /\ tornReset' = (tornReset \/ resetAt # "idle")
    /\ UNCHANGED <<registry, hists, dump, resetAt, recorded, dumps, resets, histBound>>

\* Faulty variant: the new histogram replaces one that came first.
CreateTagInsert(r) ==
    /\ rec[r].at = "create"
    /\ hists' = Append(hists, NewHistogram)
    /\ registry' = Len(hists) + 1
    /\ rec' = [rec EXCEPT ![r].at = "bucket", ![r].hist = Len(hists) + 1]
    /\ UNCHANGED <<dump, resetAt, recorded, tornReset, dumps, resets, histBound>>

\* record_global, write lock: get or insert.
CreateTag(r) ==
    /\ rec[r].at = "create"
    /\ hists' = IF registry = 0 THEN Append(hists, NewHistogram) ELSE hists
    /\ registry' = IF registry = 0 THEN Len(hists) + 1 ELSE registry
    /\ rec' = [rec EXCEPT ![r].at = "bucket", ![r].hist = registry']
    /\ UNCHANGED <<dump, resetAt, recorded, tornReset, dumps, resets, histBound>>

\* One atomic of record_us changes, and the recorder goes on.
Bump(r, hist, next) ==
    /\ hists' = [hists EXCEPT ![rec[r].hist] = hist]
    /\ rec' = [rec EXCEPT ![r].at = next]
    /\ UNCHANGED <<registry, dump, resetAt, recorded, tornReset, dumps, resets, histBound>>

BumpBucket(r) ==
    /\ rec[r].at = "bucket"
    /\ Bump(r, [hists[rec[r].hist] EXCEPT !.buckets[BucketFor(rec[r].us)] = @ + 1], "sum")
BumpSum(r) == rec[r].at = "sum" /\ Bump(r, [hists[rec[r].hist] EXCEPT !.sum = @ + rec[r].us], "count")
BumpCount(r) == rec[r].at = "count" /\ Bump(r, [hists[rec[r].hist] EXCEPT !.count = @ + 1], "load")

LoadMax(r) ==
    /\ rec[r].at = "load"
    /\ rec' = [rec EXCEPT ![r].at = "cas", ![r].cur = hists[rec[r].hist].max]
    /\ UNCHANGED <<registry, hists, dump, resetAt, recorded, tornReset, dumps, resets, histBound>>

ReturnRecord(r) ==
    /\ rec' = [rec EXCEPT ![r] = AtRest]
    /\ recorded' = Append(recorded, rec[r].us)
    /\ UNCHANGED <<registry, dump, resetAt, tornReset, dumps, resets, histBound>>

\* Faulty variant: the maximum is stored whatever it has become.
RaiseMaxStore(r) ==
    /\ rec[r].at = "cas"
    /\ hists' = IF rec[r].us > rec[r].cur THEN [hists EXCEPT ![rec[r].hist].max = rec[r].us] ELSE hists
    /\ ReturnRecord(r)

\* The compare-exchange loop: a changed maximum is taken over and compared
\* again; the weak form may also fail without a change.
RaiseMax(r) ==
    /\ rec[r].at = "cas"
    /\ LET max == hists[rec[r].hist].max IN
       \/ rec[r].us <= rec[r].cur /\ hists' = hists /\ ReturnRecord(r)
       \/ /\ rec[r].us > rec[r].cur /\ max = rec[r].cur
          /\ hists' = [hists EXCEPT ![rec[r].hist].max = rec[r].us]
          /\ ReturnRecord(r)
       \/ /\ rec[r].us > rec[r].cur
          /\ rec' = [rec EXCEPT ![r].cur = max]
          /\ UNCHANGED <<registry, hists, dump, resetAt, recorded, tornReset, dumps, resets, histBound>>

-----------------------------------------------------------------------------
\* snapshot_all under the read lock: buckets, then sum and count, then max.
Snapshot(from, to, snap) ==
    /\ dump.at = from
    /\ dump' = [at |-> to, snap |-> snap]
    /\ UNCHANGED <<registry, hists, rec, resetAt, recorded, tornReset, resets, histBound>>

SnapBuckets ==
    /\ registry # 0 /\ dumps < histBound.dumps /\ dumps' = dumps + 1
    /\ Snapshot("idle", "count", [NewHistogram EXCEPT !.buckets = hists[registry].buckets])
SnapCount ==
    /\ UNCHANGED dumps
    /\ Snapshot("count", "max", [dump.snap EXCEPT !.sum = hists[registry].sum, !.count = hists[registry].count])
SnapMax ==
    /\ UNCHANGED dumps
    /\ Snapshot("max", "idle", [dump.snap EXCEPT !.max = hists[registry].max])

\* reset_all: every atomic is stored zero.
ResetStep(from, to, hist) ==
    /\ resetAt = from /\ resetAt' = to
    /\ hists' = [hists EXCEPT ![registry] = hist]
    /\ UNCHANGED <<registry, rec, dump, dumps, histBound>>

ResetBuckets ==
    /\ registry # 0 /\ resets < histBound.resets /\ resets' = resets + 1
    /\ recorded' = <<>> /\ tornReset' = (tornReset \/ Recording)
    /\ ResetStep("idle", "rest", [hists[registry] EXCEPT !.buckets = NewHistogram.buckets])
ResetRest ==
    /\ UNCHANGED <<resets, recorded, tornReset>>
    /\ ResetStep("rest", "idle", [NewHistogram EXCEPT !.buckets = hists[registry].buckets])

HistogramNext ==
    \/ \E r \in Recorders :
        \/ \E us \in Samples : FindTag(r, us)
        \/ CreateTag(r) \/ BumpBucket(r) \/ BumpSum(r) \/ BumpCount(r) \/ LoadMax(r) \/ RaiseMax(r)
    \/ SnapBuckets \/ SnapCount \/ SnapMax
    \/ ResetBuckets \/ ResetRest

-----------------------------------------------------------------------------
Total(hist, upto) ==
    LET below[b \in 0 .. upto] == hist.buckets[b] + IF b = 0 THEN 0 ELSE below[b - 1]
    IN below[upto]

\* percentile_us: the upper bound of the bucket in which the target rank
\* falls; the maximum when it falls beyond the buckets.
PercentileUs(hist, p) ==
    LET target == (hist.count * p + 99) \div 100
        reach == {b \in 0 .. HistBuckets - 1 : Total(hist, b) >= target}
    IN IF reach = {} THEN hist.max ELSE 2 ^ ((CHOOSE b \in reach : \A c \in reach : b <= c) + 1)

Quiet == ~Recording /\ resetAt = "idle" /\ registry # 0
Below(us) == Cardinality({i \in DOMAIN recorded : recorded[i] <= us})
SumRecorded ==
    LET sum[i \in 0 .. Len(recorded)] == IF i = 0 THEN 0 ELSE sum[i - 1] + recorded[i]
    IN sum[Len(recorded)]

\* When nothing runs, count and max of the registered histogram are those of the
\* samples since the last reset, whichever threads raced to create the tag or to
\* raise the maximum, provided no reset overlapped a record.
CountAndMaxAgree ==
    Quiet /\ ~tornReset =>
        LET h == hists[registry] IN
        /\ h.count = Len(recorded)
        /\ \A i \in DOMAIN recorded : recorded[i] <= h.max
        /\ h.max = 0 \/ \E i \in DOMAIN recorded : recorded[i] = h.max

\* When nothing runs, the registered histogram accounts for every sample since
\* the last reset (under the same proviso): count, sum, maximum and buckets agree
\* with the samples, and no percentile understates (at least p percent of the
\* samples are at or below it) or exceeds twice the maximum.  A snapshot taken
\* while threads record may miss parts of their samples, but what it reports
\* stays below twice the largest sample begun.
TotalsAgree ==
    /\ CountAndMaxAgree
    /\ Quiet /\ ~tornReset =>
        LET h == hists[registry] IN
        /\ Total(h, HistBuckets) = h.count /\ h.sum = SumRecorded
        /\ recorded # <<>> => \A p \in Percentiles :
            /\ Below(PercentileUs(h, p)) * 100 >= p * Len(recorded)
            /\ PercentileUs(h, p) <= 2 * h.max \/ h.max = 0
    /\ dumps > 0 /\ resets = 0 /\ dump.at = "idle" /\ dump.snap.count > 0 =>
        \A p \in Percentiles : \E us \in {1} \cup {recorded[i] : i \in DOMAIN recorded} \cup {rec[r].us : r \in InFlight} :
            PercentileUs(dump.snap, p) <= 2 * us

\* A window boundary loses no consistency: after reset_all has returned and all
\* records are done, count and buckets agree.  Violated when a record overlaps
\* the reset, and from then on in every window of the process.
WindowsAgree ==
    Quiet => hists[registry].count = Total(hists[registry], HistBuckets)
=============================================================================
