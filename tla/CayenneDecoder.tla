--------------------------- MODULE CayenneDecoder ---------------------------
(***************************************************************************)
(* The cayenne-decoder plugin: a loop over the records of a CayenneLPP     *)
(* payload, each a channel, a type and as many bytes as the type has.  A   *)
(* value is its raw integers; the division by the type's constant is left  *)
(* out.  One action per way an iteration of the loop can go.               *)
(***************************************************************************)
EXTENDS Integers, Sequences, SequencesExt, FiniteSetsExt, TLC

CONSTANTS
    Frames,     \* what devices send: [readings, cut], see Bytes
    Extra       \* extra_types of the configuration: type id -> size in bytes

VARIABLES
    frame,
    pos,        \* position of the next byte to read, from 1
    sensors,    \* the readings decoded so far: [channel, type, raw]
    st          \* "decoding", "emitted" or "bad_input"

vars == <<frame, pos, sensors, st>>

-----------------------------------------------------------------------------
(* The sender. *)

\* The bytes of v in size bytes, two's complement, the highest first.
Encode(v, size) == [i \in 1..size |-> (v \div 256 ^ (size - i)) % 256]

\* A reading is [channel, type, sizes, raw]: the sizes of its integers and their
\* values.  A frame is cut short after some of its bytes.
Record(r) ==
    <<r.channel, r.type>> \o FlattenSeq([i \in 1..Len(r.raw) |-> Encode(r.raw[i], r.sizes[i])])
Whole(readings) == FlattenSeq([i \in 1..Len(readings) |-> Record(readings[i])])
Bytes(f) == SubSeq(Whole(f.readings), 1, f.cut)

-----------------------------------------------------------------------------
(* The plugin. *)

Unsigned(b) == FoldLeft(LAMBDA acc, x : acc * 256 + x, 0, b)

\* i8, i16 and i32::from_be_bytes
TwosComplement(b) ==
    (IF b[1] >= 128 THEN b[1] - 256 ELSE b[1]) * 256 ^ (Len(b) - 1) + Unsigned(Tail(b))

\* read_i24_be
ReadI24(b) == TwosComplement(b)

\* decode_standard_type's table: how many integers a type has, of how many
\* bytes, and whether they are signed.
StandardTypes ==
    [t \in {0, 1, 102, 104} |-> [count |-> 1, width |-> 1, signed |-> FALSE]]
      @@ [t \in {2, 3, 103} |-> [count |-> 1, width |-> 2, signed |-> TRUE]]
      @@ [t \in {101, 115} |-> [count |-> 1, width |-> 2, signed |-> FALSE]]
      @@ [t \in {113, 134} |-> [count |-> 3, width |-> 2, signed |-> TRUE]]
      @@ [t \in {136} |-> [count |-> 3, width |-> 3, signed |-> TRUE]]

SizeOf(t) == StandardTypes[t].count * StandardTypes[t].width

ReadStandard(t, b) ==
    LET d == StandardTypes[t]
        part(i) == SubSeq(b, (i - 1) * d.width + 1, i * d.width)
    IN [i \in 1..d.count |->
          IF ~d.signed THEN Unsigned(part(i))
          ELSE IF d.width = 3 THEN ReadI24(part(i)) ELSE TwosComplement(part(i))]

\* read_signed_bytes, for a configured type
ReadSignedBytes(b) == IF Len(b) \in {1, 2, 4} THEN TwosComplement(b) ELSE Unsigned(b)

-----------------------------------------------------------------------------
Init ==
    /\ frame \in Frames
    /\ pos = 1
    /\ sensors = <<>>
    /\ st = "decoding"

Data == Bytes(frame)
More == st = "decoding" /\ pos <= Len(Data)
Header == More /\ pos + 1 <= Len(Data)
TypeId == Data[pos + 1]
Fits(size) == pos + 1 + size <= Len(Data)
Value(size) == SubSeq(Data, pos + 2, pos + 1 + size)

\* The next record is whole: its header, and its value when its size is known.
RecordFits ==
    /\ Header
    /\ TypeId \in DOMAIN StandardTypes => Fits(SizeOf(TypeId))
    /\ TypeId \in DOMAIN Extra \ DOMAIN StandardTypes => Fits(Extra[TypeId])

Push(raw, size) ==
    /\ sensors' = Append(sensors, [channel |-> Data[pos], type |-> TypeId, raw |-> raw])
    /\ pos' = pos + 2 + size
    /\ UNCHANGED <<frame, st>>

DecodeStandard ==
    /\ Header /\ TypeId \in DOMAIN StandardTypes /\ Fits(SizeOf(TypeId))
    /\ Push(ReadStandard(TypeId, Value(SizeOf(TypeId))), SizeOf(TypeId))

DecodeCustom ==
    /\ Header /\ TypeId \notin DOMAIN StandardTypes /\ TypeId \in DOMAIN Extra
    /\ Fits(Extra[TypeId])
    /\ Push(<<ReadSignedBytes(Value(Extra[TypeId]))>>, Extra[TypeId])

\* An unknown type has no size: it is marked, and the rest is not read.
Unknown ==
    /\ Header /\ TypeId \notin DOMAIN StandardTypes \cup DOMAIN Extra
    /\ sensors' = Append(sensors, [channel |-> Data[pos], type |-> TypeId, raw |-> <<TypeId>>])
    /\ st' = "emitted"
    /\ UNCHANGED <<frame, pos>>

\* Fault: a cut frame ends the decoding without an error.
TruncatedQuietly ==
    /\ More /\ ~RecordFits
    /\ st' = "emitted"
    /\ UNCHANGED <<frame, pos, sensors>>

\* A header or a value that the payload ends in: the whole payload is refused,
\* with what was decoded of it.
Truncated ==
    /\ More /\ ~RecordFits
    /\ st' = "bad_input"
    /\ UNCHANGED <<frame, pos, sensors>>

\* The end of the payload; an empty one is refused before the loop.
Finish ==
    /\ st = "decoding" /\ pos = Len(Data) + 1
    /\ st' = IF Data = <<>> THEN "bad_input" ELSE "emitted"
    /\ UNCHANGED <<frame, pos, sensors>>

Next ==
    \/ DecodeStandard \/ DecodeCustom \/ Unknown \/ Truncated \/ Finish
    \/ st # "decoding" /\ UNCHANGED vars

Spec == Init /\ [][Next]_vars

-----------------------------------------------------------------------------
(* Properties. *)

Known(r) == r.type \in DOMAIN StandardTypes \cup DOMAIN Extra

\* The readings of a frame up to the first of an unknown type, that one included.
Readable(rs) ==
    LET U == {i \in 1..Len(rs) : ~Known(rs[i])}
    IN IF U = {} THEN rs ELSE SubSeq(rs, 1, Min(U))

Meaning(r) ==
    [channel |-> r.channel, type |-> r.type, raw |-> IF Known(r) THEN r.raw ELSE <<r.type>>]

\* What is decoded is a prefix of what the device sent, value for value: no
\* reading of a frame is shifted, misread or invented, wherever the frame is cut
\* (plugins/cayenne-decoder/src/lib.rs:126).
DecodedIsPrefix ==
    LET rs == Readable(frame.readings)
    IN /\ Len(sensors) <= Len(rs)
       /\ \A i \in 1..Len(sensors) : sensors[i] = Meaning(rs[i])

\* A payload is emitted only when nothing is missing of what was emitted: every
\* reading it has bytes of, up to the first of an unknown type, is in the output
\* (plugins/cayenne-decoder/src/lib.rs:191).
EmittedIsComplete ==
    st = "emitted" =>
        LET n == Len(sensors)
        IN \/ frame.cut = Len(Whole(SubSeq(frame.readings, 1, n)))
           \/ n > 0 /\ ~Known(frame.readings[n])

=============================================================================
