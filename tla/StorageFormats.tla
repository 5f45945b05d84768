--------------------------- MODULE StorageFormats ---------------------------
(***************************************************************************)
(* The objects the storage layer writes, cell by cell: a WAL record, a WAL *)
(* batch, a compacted segment, and a block in its compression envelope.    *)
(* Numbers are those of WireCodec; a checksum is one cell; a magic is one  *)
(* negative cell.                                                          *)
(*                                                                         *)
(* The machine writes one object, may damage it, and for a segment runs    *)
(* range_read_window, which asks the object store twice: once for the      *)
(* object with its index, once for the window that holds the payloads.     *)
(***************************************************************************)
EXTENDS WireCodec, FiniteSets

CONSTANTS
    FileItems,     \* block lists: sequences of <<key, payload>>
    FileRanges,    \* pairs <<first key, last key>> that are asked for
    CompressCfgs,  \* compression settings of the writer
    MaxFileEdits   \* bound: how often an object is damaged

ASSUME FileAssumption == MaxFileEdits \in Nat

VARIABLES
    fileKind,      \* "record", "batch", "segment" or "blob"
    fileCfg,       \* the writer's compression setting
    items,         \* what was written
    fileCells,        \* the object
    fileEdits,     \* number of edits so far
    reader         \* the range read in progress, and its result

fileVars == <<fileKind, fileCfg, items, fileCells, fileEdits, reader>>

WalMagic == -5
BatchMagic == -6
SegmentMagic == -7
FooterMagic == -8
CompressMagic == -9
ZstdFrame == -10

FitsU32(n) == n < CodecRadix * CodecRadix

\* FNV-1a in a prime field, over rows of seven cells and then over the rows'
\* sums: like the code's step it is one-to-one in the state and in the byte, so
\* that one changed byte always shows.
Fnv1a(cells) == FoldLeft(LAMBDA state, cell : ((state + cell) * 3) % 257, 5, cells)
Checksum32(bytes) ==
    Fnv1a([r \in 1 .. (Len(bytes) + 6) \div 7 |->
            Fnv1a(SubSeq(bytes, 7 * r - 6, IF 7 * r < Len(bytes) THEN 7 * r ELSE Len(bytes)))])

-----------------------------------------------------------------------------
\* WAL records: key, meta and payload behind their lengths and one checksum.

EncodeWalRecord(r) ==
    LET body == r.key \o r.meta \o r.payload IN
    <<WalMagic>> \o U32(Len(r.key)) \o U32(Len(r.meta)) \o U32(Len(r.payload))
        \o <<Checksum32(body)>> \o body

WalHeaderSize == 8

\* Faulty variant: the checksum is not compared.
DecodeWalRecordUnsummed(data) ==
    IF Len(data) < WalHeaderSize \/ data[1] # WalMagic THEN Rejected
    ELSE LET k == ReadU32(data, 1).value
             m == ReadU32(data, 3).value
             p == ReadU32(data, 5).value
             body == SubSeq(data, WalHeaderSize + 1, WalHeaderSize + k + m + p)
         IN IF Len(data) < WalHeaderSize + k + m + p THEN Rejected
            ELSE Accepted([key |-> SubSeq(body, 1, k), meta |-> SubSeq(body, k + 1, k + m),
                           payload |-> SubSeq(body, k + m + 1, Len(body))])

\* What follows the body is not looked at.
DecodeWalRecord(data) ==
    IF Len(data) < WalHeaderSize \/ data[1] # WalMagic THEN Rejected
    ELSE LET k == ReadU32(data, 1).value
             m == ReadU32(data, 3).value
             p == ReadU32(data, 5).value
             body == SubSeq(data, WalHeaderSize + 1, WalHeaderSize + k + m + p)
         IN IF Len(data) < WalHeaderSize + k + m + p \/ Checksum32(body) # data[WalHeaderSize]
            THEN Rejected
            ELSE Accepted([key |-> SubSeq(body, 1, k), meta |-> SubSeq(body, k + 1, k + m),
                           payload |-> SubSeq(body, k + m + 1, Len(body))])

\* A batch: first and last sequence number, count, checksum, then the records
\* behind their lengths.
EncodeWalBatch(start, recs) ==
    LET encoded == [i \in DOMAIN recs |-> EncodeWalRecord(recs[i])]
        body == FlattenSeq([i \in DOMAIN encoded |-> U32(Len(encoded[i])) \o encoded[i]])
    IN <<BatchMagic>> \o U32(start) \o U32(start + Len(recs) - 1) \o U32(Len(recs))
        \o <<Checksum32(body)>> \o body

BatchHeaderSize == 8

DecodeWalBatch(data) ==
    IF Len(data) < BatchHeaderSize THEN Rejected
    ELSE LET start == ReadU32(data, 1).value
             end == ReadU32(data, 3).value
             count == ReadU32(data, 5).value
             expected == IF end >= start THEN end - start + 1 ELSE 1
             Step(s, i) ==
                 LET len == ReadU32(data, s.cursor)
                     rec == DecodeWalRecord(SubSeq(data, len.cursor + 1, len.cursor + len.value))
                 IN IF ~s.ok \/ ~len.ok \/ len.cursor + len.value > Len(data) \/ ~rec.ok
                    THEN [s EXCEPT !.ok = FALSE]
                    ELSE [ok |-> TRUE, cursor |-> len.cursor + len.value,
                          recs |-> Append(s.recs, rec.items)]
             last == FoldLeft(Step, [ok |-> TRUE, cursor |-> BatchHeaderSize, recs |-> <<>>],
                              [i \in 1 .. count |-> i])
         IN IF data[1] # BatchMagic \/ Checksum32(SubSeq(data, 9, Len(data))) # data[8]
               \/ expected # count \/ ~last.ok \/ last.cursor # Len(data)
            THEN Rejected
            ELSE Accepted(last.recs)

\* decode_wal_object_records: the magic tells a batch from a record.
DecodeWalObject(data) ==
    IF data # <<>> /\ data[1] = BatchMagic THEN DecodeWalBatch(data)
    ELSE LET rec == DecodeWalRecord(data) IN IF rec.ok THEN Accepted(<<rec.items>>) ELSE Rejected

-----------------------------------------------------------------------------
\* Segments: blocks, then an index of where their payloads are, then a footer
\* with the index's length and checksum.

SegmentHeaderSize == 3
SegmentFooterSize == 4

EncodeSegmentIndex(entries) ==
    FlattenSeq([i \in DOMAIN entries |->
        U32(Len(entries[i].key)) \o entries[i].key \o U32(entries[i].offset) \o U32(entries[i].len)])

\* Faulty variant: the offset of a payload does not count its block's header.
WriteBlockOffset(s, block) ==
    [out |-> s.out \o U32(Len(block[1])) \o U32(Len(block[2])) \o block[1] \o block[2],
     index |-> Append(s.index, [key |-> block[1], len |-> Len(block[2]),
                                offset |-> Len(s.out) + 2 + Len(block[1])])]

WriteBlock(s, block) ==
    [out |-> s.out \o U32(Len(block[1])) \o U32(Len(block[2])) \o block[1] \o block[2],
     index |-> Append(s.index, [key |-> block[1], len |-> Len(block[2]),
                                offset |-> Len(s.out) + 4 + Len(block[1])])]

EncodeSegment(blocks) ==
    LET written == FoldLeft(WriteBlock, [out |-> <<SegmentMagic>> \o U32(Len(blocks)), index |-> <<>>], blocks)
        index == EncodeSegmentIndex(written.index)
    IN written.out \o index \o <<FooterMagic>> \o U32(Len(index)) \o <<Checksum32(index)>>

\* parse_segment_index: entries, of six cells or more, until the bytes are used up.
ParseSegmentIndex(bytes) ==
    LET Step(s, i) ==
            LET klen == ReadU32(bytes, s.cursor)
                off == ReadU32(bytes, klen.cursor + klen.value)
                len == ReadU32(bytes, off.cursor)
            IN IF ~s.ok \/ s.cursor >= Len(bytes) THEN s
               ELSE IF ~klen.ok \/ ~off.ok \/ ~len.ok THEN [s EXCEPT !.ok = FALSE]
               ELSE [ok |-> TRUE, cursor |-> len.cursor,
                     entries |-> Append(s.entries,
                        [key |-> SubSeq(bytes, klen.cursor + 1, klen.cursor + klen.value),
                         offset |-> off.value, len |-> len.value])]
        end == FoldLeft(Step, [ok |-> TRUE, cursor |-> 0, entries |-> <<>>],
                        [i \in 1 .. Len(bytes) \div 6 + 1 |-> i])
    IN IF end.ok THEN Accepted(end.entries) ELSE Rejected

\* decode_segment_index, with decode_segment_footer.
DecodeSegmentIndex(seg) ==
    IF Len(seg) < SegmentHeaderSize + SegmentFooterSize THEN Rejected
    ELSE LET footer == Len(seg) - SegmentFooterSize
             start == footer - ReadU32(seg, footer + 1).value
             index == SubSeq(seg, start + 1, footer)
         IN IF seg[1] # SegmentMagic \/ start < 0 \/ seg[footer + 1] # FooterMagic
               \/ Checksum32(index) # seg[Len(seg)]
            THEN Rejected
            ELSE ParseSegmentIndex(index)

\* Byte strings compare like words in a dictionary.
KeyLeq(a, b) ==
    \/ IsPrefix(a, b)
    \/ \E i \in DOMAIN a \cap DOMAIN b : a[i] < b[i] /\ \A j \in 1 .. i - 1 : a[j] = b[j]

\* get_object_range: the end is cut to the object's, past it nothing is read.
GetObjectRange(obj, from, to) == SubSeq(obj, from + 1, IF to < Len(obj) THEN to ELSE Len(obj))

-----------------------------------------------------------------------------
\* Blocks in the object store: encode_with_header and decode_if_compressed.
\* zstd is one frame cell in front of the bytes; a frame that was cut or has
\* another first cell does not decompress.

CompressHeaderSize == 5
AlgoCode(algo) == CASE algo = "none" -> 0 [] algo = "zstd" -> 1 [] algo = "lz4" -> 2

EncodeWithHeader(payload, cfg) ==
    CASE cfg.algo = "none" -> Accepted(payload)
      [] cfg.algo = "lz4" -> Rejected
      [] cfg.algo = "zstd" ->
            IF ~FitsU32(Len(payload)) THEN Rejected
            ELSE Accepted(<<CompressMagic, AlgoCode("zstd"), cfg.level>> \o U32(Len(payload))
                            \o <<ZstdFrame>> \o payload)

\* encode_for_storage: no envelope when compression is off.
EncodeForStorage(payload, cfg) ==
    IF cfg.algo = "none" THEN Accepted(payload) ELSE EncodeWithHeader(payload, cfg)

DecodeIfCompressed(bytes) ==
    IF Len(bytes) < CompressHeaderSize \/ bytes[1] # CompressMagic THEN bytes
    ELSE LET payload == SubSeq(bytes, CompressHeaderSize + 1, Len(bytes))
             raw == ReadU32(bytes, 3).value
         IN CASE bytes[2] = AlgoCode("none") -> payload
              [] /\ bytes[2] = AlgoCode("zstd")
                 /\ payload # <<>> /\ payload[1] = ZstdFrame /\ Len(payload) - 1 = raw -> Tail(payload)
              [] OTHER -> bytes

-----------------------------------------------------------------------------
RecordOf(block) == [key |-> block[1], meta |-> <<1>>, payload |-> block[2]]
Records == [i \in DOMAIN items |-> RecordOf(items[i])]

Write(kind, blocks, cfg) ==
    CASE kind = "record" -> Accepted(EncodeWalRecord(RecordOf(blocks[1])))
      [] kind = "batch" -> Accepted(EncodeWalBatch(3, [i \in DOMAIN blocks |-> RecordOf(blocks[i])]))
      [] kind = "segment" -> Accepted(EncodeSegment(blocks))
      [] kind = "blob" -> EncodeForStorage(blocks[1][2], cfg)

NoRead == [at |-> "idle", range |-> <<<<>>, <<>>>>, index |-> <<>>, result |-> Rejected, trips |-> 0]

\* Only an object that could be encoded is written.
FilesInit ==
    /\ fileKind \in {"record", "batch", "segment", "blob"}
    /\ fileCfg \in (IF fileKind = "blob" THEN CompressCfgs ELSE {[algo |-> "none", level |-> 3]})
    /\ items \in FileItems
    /\ fileKind # "segment" => items # <<>>
    /\ Write(fileKind, items, fileCfg).ok
    /\ fileCells = Write(fileKind, items, fileCfg).items
    /\ fileEdits = 0
    /\ reader = NoRead

\* Bytes are lost, added or changed, before a read or between its two calls.
DamageFile(bytes) ==
    /\ fileEdits < MaxFileEdits
    /\ fileEdits' = fileEdits + 1
    /\ fileCells' = bytes
    /\ UNCHANGED <<fileKind, fileCfg, items, reader>>

LoseTail == \E n \in 0 .. Len(fileCells) - 1 : DamageFile(SubSeq(fileCells, 1, n))
AddCell == \E c \in Cells : DamageFile(Append(fileCells, c))
ChangeCell == \E i \in DOMAIN fileCells, c \in Cells : c # fileCells[i] /\ DamageFile([fileCells EXCEPT ![i] = c])

\* range_read_window, first call: the object, of which the index is used.
ReadIndex(range) ==
    /\ fileKind = "segment" /\ reader.at = "idle"
    /\ LET index == DecodeSegmentIndex(fileCells)
           selected == SelectSeq(index.items, LAMBDA e : KeyLeq(range[1], e.key) /\ KeyLeq(e.key, range[2]))
           done == [NoRead EXCEPT !.at = "done", !.range = range, !.trips = 1]
       IN reader' =
            IF ~KeyLeq(range[1], range[2]) THEN [done EXCEPT !.trips = 0]
            ELSE IF ~index.ok THEN done
            ELSE IF selected = <<>> THEN [done EXCEPT !.result = Accepted(<<>>)]
            ELSE [done EXCEPT !.at = "window", !.index = selected]
    /\ UNCHANGED <<fileKind, fileCfg, items, fileCells, fileEdits>>

\* Second call: one window from the first payload to the end of the last.
ReadWindow ==
    /\ reader.at = "window"
    /\ LET sel == reader.index
           first == CHOOSE o \in {sel[i].offset : i \in DOMAIN sel} :
                        \A i \in DOMAIN sel : o <= sel[i].offset
           last == CHOOSE e \in {sel[i].offset + sel[i].len : i \in DOMAIN sel} :
                        \A i \in DOMAIN sel : e >= sel[i].offset + sel[i].len
           window == GetObjectRange(fileCells, first, last)
           start(i) == sel[i].offset - first
       IN reader' = [reader EXCEPT !.at = "done", !.trips = 2, !.result =
            IF \E i \in DOMAIN sel : start(i) + sel[i].len > Len(window) THEN Rejected
            ELSE Accepted([i \in DOMAIN sel |->
                    <<sel[i].key, SubSeq(window, start(i) + 1, start(i) + sel[i].len)>>])]
    /\ UNCHANGED <<fileKind, fileCfg, items, fileCells, fileEdits>>

FilesNext == LoseTail \/ AddCell \/ ChangeCell \/ (\E r \in FileRanges : ReadIndex(r)) \/ ReadWindow

-----------------------------------------------------------------------------
\* What was stored reads back, and nothing else does.  A WAL object that replay
\* accepts holds the records that were written, each with its own key, meta and
\* payload: one lost tail, added byte or changed byte is refused or without
\* effect, wherever it falls (header, lengths, body, inner records).  A blob,
\* which has no checksum, reads back as its payload when it is undamaged,
\* whatever compression its writer and its reader are set to.
ObjectsReadBack ==
    /\ fileKind \in {"record", "batch"} =>
        LET d == DecodeWalObject(fileCells)
            written == IF fileKind = "record" THEN <<Records[1]>> ELSE Records
        IN IF fileEdits = 0 THEN d = Accepted(written) ELSE d.ok => d.items = written
    /\ fileKind = "blob" /\ fileEdits = 0 => DecodeIfCompressed(fileCells) = items[1][2]

\* A range read that succeeds returns the blocks of the range, in the order of
\* the segment, with the bytes that lie where the segment put their payloads,
\* in at most two round trips; damage to header, index or footer, and a tail
\* lost between the two calls, make it fail instead.
RangeReadExact ==
    LET wanted == SelectSeq(items, LAMBDA b : KeyLeq(reader.range[1], b[1]) /\ KeyLeq(b[1], reader.range[2]))
        got == reader.result.items
        Changed == {i \in DOMAIN got : got[i][2] # wanted[i][2]}
    IN reader.at = "done" =>
        /\ reader.trips <= 2
        /\ reader.result.ok =>
            /\ Len(got) = Len(wanted)
            /\ \A i \in DOMAIN got : got[i][1] = wanted[i][1] /\ Len(got[i][2]) = Len(wanted[i][2])
            /\ Cardinality(Changed) <= fileEdits
        /\ fileEdits = 0 /\ KeyLeq(reader.range[1], reader.range[2]) => reader.result.ok

=============================================================================
