---------------------------- MODULE DeltaReplay ----------------------------
(***************************************************************************)
(* Delta facts: documents arrive in any order and any number of times,     *)
(* those that parse are replayed, the first fact of a logical key in the   *)
(* order of (epoch_ms, seq, write_id) wins.  A document is its fields; the *)
(* JSON text is left out, its failures are the "broken" documents.         *)
(***************************************************************************)
EXTENDS Integers, Sequences, FiniteSets
LOCAL INSTANCE SequencesExt

CONSTANTS
    Documents,        \* documents that may arrive
    MaxDocuments      \* bound: number of arrivals

ASSUME DocumentsAssumption == MaxDocuments \in Nat

VARIABLES
    docs,             \* the documents so far, in order of arrival
    deltaOutcome           \* replay_delta_facts_with_observability of the facts

deltaVars == <<docs, deltaOutcome>>

DeltaSchemaV1 == 1
U16Max == 65535

\* extract_schema_version: present, a number, and small enough.
SchemaVersion(doc) == doc.json /\ doc.version \in 0 .. U16Max

\* parse_delta_fact with parse_delta_fact_v1.
ParsesAsFact(doc) ==
    /\ SchemaVersion(doc) /\ doc.version = DeltaSchemaV1
    /\ \A field \in {"tenant", "fingerprint", "prefix", "digest"} : doc[field] # ""
    /\ doc.write > 0

LogicalKey(fact) == <<fact.tenant, fact.fingerprint, fact.prefix>>

\* Faulty variant: the sequence number is left out of the order.
ReplayLessNoSeq(a, b) ==
    a.epoch < b.epoch \/ (a.epoch = b.epoch /\ a.write < b.write)

ReplayLess(a, b) ==
    \/ a.epoch < b.epoch
    \/ a.epoch = b.epoch /\ a.seq < b.seq
    \/ a.epoch = b.epoch /\ a.seq = b.seq /\ a.write < b.write

\* sort_by is stable: a fact goes in front of the first one that is greater.
InsertSorted(sorted, fact) ==
    LET before == Cardinality({i \in DOMAIN sorted : ~ReplayLess(fact, sorted[i])})
    IN SubSeq(sorted, 1, before) \o <<fact>> \o SubSeq(sorted, before + 1, Len(sorted))

Ordered(facts) == FoldLeft(InsertSorted, <<>>, facts)

NoOutcome == [winners |-> <<>>, idempotent |-> 0, conflicts |-> <<>>]

\* The first fact of a key stays; a later one is a duplicate or a conflict row.
ApplyFact(out, fact) ==
    LET key == LogicalKey(fact) IN
    IF key \notin DOMAIN out.winners
    THEN [out EXCEPT !.winners = [k \in DOMAIN @ \cup {key} |-> IF k = key THEN fact ELSE @[k]]]
    ELSE IF out.winners[key].digest = fact.digest
    THEN [out EXCEPT !.idempotent = @ + 1]
    ELSE [out EXCEPT !.conflicts = Append(@, <<out.winners[key], fact>>)]

ReplayDeltaFacts(facts) == FoldLeft(ApplyFact, NoOutcome, Ordered(facts))

\* pick_winner: the first minimum by (epoch_ms, write_id).
CompareFacts(a, b) == a.epoch < b.epoch \/ (a.epoch = b.epoch /\ a.write <= b.write)
PickWinner(facts) == CHOOSE f \in facts : \A g \in facts : CompareFacts(f, g)

-----------------------------------------------------------------------------
DeltaInit == docs = <<>> /\ deltaOutcome = NoOutcome

Facts(arrived) == SelectSeq(arrived, ParsesAsFact)

Arrive(doc) ==
    /\ Len(docs) < MaxDocuments
    /\ docs' = Append(docs, doc)
    /\ deltaOutcome' = ReplayDeltaFacts(Facts(docs'))

DeltaNext == \E doc \in Documents : Arrive(doc)

-----------------------------------------------------------------------------
\* The outcome does not depend on the order or the repetition of arrivals:
\* every logical key has the earliest fact that parsed, every other fact is
\* counted once, as a duplicate or as a conflict with that winner, and the
\* digests in a conflict row differ.
OutcomeDeterministic ==
    LET facts == Facts(docs)
        keys == {LogicalKey(facts[i]) : i \in DOMAIN facts}
        Of(key) == {facts[i] : i \in {j \in DOMAIN facts : LogicalKey(facts[j]) = key}}
    IN /\ DOMAIN deltaOutcome.winners = keys
       /\ \A key \in keys :
            /\ deltaOutcome.winners[key] \in Of(key)
            /\ \A f \in Of(key) \ {deltaOutcome.winners[key]} :
                    <<deltaOutcome.winners[key].epoch, deltaOutcome.winners[key].seq>> = <<f.epoch, f.seq>>
                        => deltaOutcome.winners[key].write < f.write
            /\ \A f \in Of(key) :
                    \/ deltaOutcome.winners[key].epoch < f.epoch
                    \/ deltaOutcome.winners[key].epoch = f.epoch /\ deltaOutcome.winners[key].seq <= f.seq
       /\ Cardinality(keys) + deltaOutcome.idempotent + Len(deltaOutcome.conflicts) = Len(facts)
       /\ \A i \in DOMAIN deltaOutcome.conflicts :
            LET row == deltaOutcome.conflicts[i] IN
            row[1] = deltaOutcome.winners[LogicalKey(row[2])] /\ row[1].digest # row[2].digest

\* pick_winner chooses the fact that replay chooses.  Violated when the write
\* ids of one millisecond are not in the order of the sequence numbers.
PickWinnerAgrees ==
    \A key \in DOMAIN deltaOutcome.winners :
        LET all == {docs[i] : i \in {j \in DOMAIN docs : ParsesAsFact(docs[j]) /\ LogicalKey(docs[j]) = key}}
        IN PickWinner(all) = deltaOutcome.winners[key]
=============================================================================
