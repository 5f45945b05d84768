------------------------------ MODULE WireCodec ------------------------------
(***************************************************************************)
(* The byte formats that the daemon and its clients exchange.              *)
(*                                                                         *)
(* lib.rs writes two batch formats by hand: a batch of keys, each behind   *)
(* its own length, and a batch of payloads, all the lengths first.         *)
(* envelope.rs wraps every TCP and HTTP frame in magic, version, checksum  *)
(* and length.  A buffer is a sequence of cells.  A u32 takes two          *)
(* little-endian cells of radix CodecRadix in place of four bytes, so a    *)
(* buffer can be cut inside a number as it can in the code.                *)
(*                                                                         *)
(* The machine at the end takes one encoded buffer and damages it step by  *)
(* step: a cut tail, an extra cell, a changed cell.                        *)
(***************************************************************************)
EXTENDS Integers, Sequences, SequencesExt

CONSTANTS
    CodecRadix,     \* cells hold 0 .. CodecRadix - 1
    CodecItems,     \* the key lists and payload lists that are encoded
    MaxEdits        \* how often a buffer is damaged

ASSUME CodecRadixAssumption == CodecRadix \in Nat \ {0, 1}

VARIABLES
    format,         \* "keys", "bytes" or "envelope"
    original,       \* what was encoded
    frame,          \* the buffer as it arrives
    edits           \* number of edits so far

codecVars == <<format, original, frame, edits>>

Cells == 0 .. CodecRadix - 1

\* The first cell of each format.  No other cell is negative.
KeyBatchMagic == -2
BytesBatchMagic == -3
EnvelopeMagic == -4
EnvelopeVersion == 1

\* A number as a u32: the cast drops what does not fit.
U32(n) == <<n % CodecRadix, (n \div CodecRadix) % CodecRadix>>

Rejected == [ok |-> FALSE, items |-> <<>>]
Accepted(items) == [ok |-> TRUE, items |-> items]

\* The u32 at cursor, or nothing when the buffer ends before it does.
ReadU32(payload, cursor) ==
    IF cursor + 2 > Len(payload)
    THEN [ok |-> FALSE, value |-> 0, cursor |-> cursor]
    ELSE [ok     |-> TRUE,
          value  |-> payload[cursor + 1] + CodecRadix * payload[cursor + 2],
          cursor |-> cursor + 2]

EncodeKeyBatch(keys) ==
    <<KeyBatchMagic>> \o U32(Len(keys))
      \o FlattenSeq([i \in 1 .. Len(keys) |-> U32(Len(keys[i])) \o keys[i]])

\* The decoding loop: count keys, each behind its length.
ReadKeys(payload, count) ==
    LET Step(s, i) ==
          LET len == ReadU32(payload, s.cursor)
              end == len.cursor + len.value
          IN  IF ~s.ok \/ ~len.ok \/ end > Len(payload)
              THEN [s EXCEPT !.ok = FALSE]
              ELSE [ok |-> TRUE, cursor |-> end,
                    keys |-> Append(s.keys, SubSeq(payload, len.cursor + 1, end))]
    IN  FoldLeft(Step, [ok |-> count.ok, cursor |-> count.cursor, keys |-> <<>>],
                 [i \in 1 .. count.value |-> i])

\* Faulty variant: what follows the last key is ignored.
DecodeKeyBatchTrailing(payload) ==
    LET last == ReadKeys(payload, ReadU32(payload, 1))
    IN  IF payload = <<>> \/ payload[1] # KeyBatchMagic \/ ~last.ok
        THEN Rejected
        ELSE Accepted(last.keys)

DecodeKeyBatch(payload) ==
    LET last == ReadKeys(payload, ReadU32(payload, 1))
    IN  IF payload = <<>> \/ payload[1] # KeyBatchMagic
           \/ ~last.ok \/ last.cursor # Len(payload)
        THEN Rejected
        ELSE Accepted(last.keys)

EncodeBytesBatch(items) ==
    <<BytesBatchMagic>> \o U32(Len(items))
      \o FlattenSeq([i \in 1 .. Len(items) |-> U32(Len(items[i]))])
      \o FlattenSeq(items)

DecodeBytesBatch(batch) ==
    LET count == ReadU32(batch, 1)
        lengths == [i \in 1 .. count.value |-> ReadU32(batch, count.cursor + 2 * (i - 1))]
        start == count.cursor + 2 * count.value
        Total(n) == FoldLeft(LAMBDA sum, len : sum + len.value, 0, SubSeq(lengths, 1, n))
    IN  IF batch = <<>> \/ batch[1] # BytesBatchMagic \/ ~count.ok
           \/ (\E i \in DOMAIN lengths : ~lengths[i].ok)
           \/ start + Total(count.value) # Len(batch)
        THEN Rejected
        ELSE Accepted([i \in 1 .. count.value |->
                         SubSeq(batch, start + Total(i - 1) + 1, start + Total(i))])

\* A checksum that notices every single changed cell, which is all that the
\* model needs of CRC32C.
Crc32c(body) ==
    FoldLeft(LAMBDA sum, cell : (sum * CodecRadix + cell + 5) % 251, 7, body)

\* The length goes through u32::try_from, which never truncates.
EncodeEnvelope(body) ==
    <<EnvelopeMagic, EnvelopeVersion, Crc32c(body)>> \o U32(Len(body)) \o body

\* decode_envelope_header, then the length, then the checksum of the body.
DecodeEnvelope(bytes) ==
    IF Len(bytes) < 5
    THEN Rejected
    ELSE LET len == ReadU32(bytes, 3)
             body == SubSeq(bytes, 6, Len(bytes))
         IN  IF bytes[1] # EnvelopeMagic \/ bytes[2] # EnvelopeVersion
                \/ Len(body) # len.value \/ Crc32c(body) # bytes[3]
             THEN Rejected
             ELSE Accepted(body)

-----------------------------------------------------------------------------
Encode(f, items) ==
    CASE f = "keys"     -> EncodeKeyBatch(items)
      [] f = "bytes"    -> EncodeBytesBatch(items)
      [] f = "envelope" -> EncodeEnvelope(FlattenSeq(items))

Decode(f, bytes) ==
    CASE f = "keys"     -> DecodeKeyBatch(bytes)
      [] f = "bytes"    -> DecodeBytesBatch(bytes)
      [] f = "envelope" -> DecodeEnvelope(bytes)

Plain(f, items) == IF f = "envelope" THEN FlattenSeq(items) ELSE items

CodecInit ==
    /\ format \in {"keys", "bytes", "envelope"}
    /\ original \in CodecItems
    /\ frame = Encode(format, original)
    /\ edits = 0

Damage(bytes) ==
    /\ edits < MaxEdits
    /\ edits' = edits + 1
    /\ frame' = bytes
    /\ UNCHANGED <<format, original>>

CutTail == \E n \in 0 .. Len(frame) - 1 : Damage(SubSeq(frame, 1, n))

ExtraCell == \E c \in Cells : Damage(Append(frame, c))

ChangedCell ==
    \E i \in DOMAIN frame, c \in Cells : c # frame[i] /\ Damage([frame EXCEPT ![i] = c])

CodecNext == CutTail \/ ExtraCell \/ ChangedCell

-----------------------------------------------------------------------------
(***************************************************************************)
(* An undamaged buffer decodes to what was encoded.  A damaged one is      *)
(* refused unless it is, cell for cell, the encoding of what it decodes    *)
(* to: nothing trailing, nothing missing and no two readings of one        *)
(* buffer.  An envelope that was damaged once is always refused.           *)
(* (encode/decode_key_batch, encode/decode_bytes_batch, encode/decode_     *)
(* envelope.)                                                              *)
(***************************************************************************)
AcceptedIsCanonical ==
    LET d == Decode(format, frame)
        re == IF format = "envelope" THEN EncodeEnvelope(d.items) ELSE Encode(format, d.items)
    IN  /\ edits = 0 => d = Accepted(Plain(format, original))
        /\ d.ok => re = frame
        /\ (format = "envelope" /\ edits = 1) => ~d.ok
=============================================================================
