------------------------------ MODULE Records ------------------------------
(***************************************************************************)
(* pn_record.h: the values of a record, one at a time, as 32 or 64 bit     *)
(* numbers, unabbreviated or through an abbreviation.  The bitstream is    *)
(* here a sequence of fields, what Bitstream is shown to deliver: a read   *)
(* that asks for another kind of field than the one that was written has   *)
(* lost its place.  A word has WordBits bits, a double word twice as many. *)
(***************************************************************************)
EXTENDS Integers, Sequences, SequencesExt, FiniteSets

CONSTANTS
  WordBits,   \* 32
  LengthBits, \* 6: the width of the pieces of a blob's length
  Numbers,    \* the numbers records hold
  MaxScalars, \* scalar operands of an abbreviation after the code
  MaxArray,   \* elements of an array
  MaxBlob     \* bytes of a blob

Word  == 2^WordBits
DWord == 2^(2 * WordBits)

NumbersAssumption ==
  /\ WordBits \in Nat \ {0} /\ Numbers \subseteq 0..(DWord - 1)
  /\ LengthBits \in Nat \ {0, 1}
  /\ MaxScalars \in Nat /\ MaxArray \in Nat /\ MaxBlob \in Nat

VARIABLES
  abbrev,  \* the operands of the record's abbreviation, <<>> without one
  values,  \* what the record holds: the code first
  fields,  \* the stream: the fields of the record and the entry that follows it
  pos,     \* fields read so far
  reader,  \* PNRecordReader: op_index, num_values, value_index
  n,       \* values delivered so far
  last,    \* the last call, what it returned
  status   \* "run"; "fatal": PN_FATAL; "lost": read what was not written; "done"

vars == <<abbrev, values, fields, pos, reader, n, last, status>>

-----------------------------------------------------------------------------
(* The stream, as a writer of bitcode lays it out (external).                       *)

Literal     == [enc |-> "LITERAL", value |-> 1]
Fixed(b)    == [enc |-> "FIXED", num_bits |-> b]
Vbr         == [enc |-> "VBR", num_bits |-> WordBits]
Char6       == [enc |-> "CHAR6"]
ScalarOps   == {Literal, Fixed(1), Fixed(WordBits), Vbr, Char6}

\* pn_decode_char6: a table of distinct characters, here of the numbers of a word.
DecodeChar6(v) == Word - 1 - v

\* What may be written for an operand, and the field it becomes.
Writable(op) ==
  Numbers \cap CASE op.enc = "LITERAL" -> {op.value}
                 [] op.enc = "FIXED"   -> 0..(2^op.num_bits - 1)
                 [] op.enc = "VBR"     -> 0..(DWord - 1)
                 [] op.enc = "CHAR6"   -> 0..(Word - 1)

Vbr6(v)  == <<"vbr", 6, v>>
Align    == <<"align", 0, 0>>
Rest     == <<"rest", 0, 0>>   \* pieces of a number that lie in another word than its first
Abbrev(e) == <<"entry", 0, e>>

FieldsOf(op, v) ==
  CASE op.enc = "LITERAL" -> <<>>
    [] op.enc = "FIXED"   -> << <<"fixed", op.num_bits, v>> >>
    [] op.enc = "VBR"     -> << <<"vbr", op.num_bits, v>> >>
    [] op.enc = "CHAR6"   -> << <<"fixed", 6, Word - 1 - v>> >>

\* The rest of a record behind its scalars: the elements of an array or a blob.
TailFields(ops, elts, rest) ==
  LET k == Len(ops)
  IN  IF k > 1 /\ ops[k - 1].enc = "ARRAY"
      THEN <<Vbr6(Len(elts))>> \o FlattenSeq([i \in DOMAIN elts |-> FieldsOf(ops[k], elts[i])])
      ELSE IF ops[k].enc = "BLOB"
      THEN <<Vbr6(Len(elts))>> \o rest \o <<Align>> \o [i \in DOMAIN elts |-> <<"fixed", 8, elts[i]>>] \o <<Align>>
      ELSE <<>>

\* The abbreviations: scalars, then perhaps an array with its element or a blob.
Shapes ==
  {scalars \o tail :
     scalars \in UNION {[1..k -> ScalarOps] : k \in 1..(MaxScalars + 1)},
     tail \in {<<>>, <<[enc |-> "BLOB"]>>} \cup {<<[enc |-> "ARRAY"], op>> : op \in ScalarOps}}

Scalars(ops) == SelectSeq(ops, LAMBDA op : op.enc \notin {"ARRAY", "BLOB"})
HasArray(ops) == \E i \in DOMAIN ops : ops[i].enc = "ARRAY"
HasBlob(ops) == \E i \in DOMAIN ops : ops[i].enc = "BLOB"
NumScalars(ops) == Len(Scalars(ops)) - (IF HasArray(ops) THEN 1 ELSE 0)

\* Of the bytes of a blob, which no read changes, only the extreme ones are taken.
Elements(ops) ==
  IF HasArray(ops) THEN Writable(ops[Len(ops)])
  ELSE IF HasBlob(ops) THEN {0, Word - 1} ELSE {}

\* What the first piece of a number of pieces of LengthBits bits says: the low bits, and
\* the bit that says that more pieces follow.
More == 2^(LengthBits - 1)
FirstPiece(v) == IF v < More THEN v ELSE (v % More) + More

ScalarValues(ops) ==
  {vs \in [1..NumScalars(ops) -> Numbers] : \A i \in DOMAIN vs : vs[i] \in Writable(ops[i])}

\* pn_record_reader_init
AtStart ==
  /\ pos = 0
  /\ reader = [op_index |-> 0, num_values |-> -1, value_index |-> 0]
  /\ n = 0
  /\ last = <<"init">>
  /\ status = "run"

\* A record that ends before another entry.
Init ==
  /\ \/ /\ abbrev = <<>>
        /\ values \in UNION {[1..k -> Numbers] : k \in 1..(MaxScalars + 2)}
        /\ values[1] < Word
        /\ fields = <<Vbr6(values[1]), Vbr6(Len(values) - 1)>>
                      \o [i \in 1..(Len(values) - 1) |-> Vbr6(values[i + 1])] \o <<Abbrev(1)>>
     \/ \E ops \in Shapes : \E vs \in ScalarValues(ops),
             elts \in UNION {[1..k -> Elements(ops)] :
                              k \in 0..(IF HasBlob(ops) THEN MaxBlob ELSE MaxArray)},
             rest \in {<<>>, <<Rest>>} :
          /\ vs[1] < Word
          /\ rest = <<Rest>> => HasBlob(ops) /\ Len(elts) >= More
          /\ abbrev = ops
          /\ values = vs \o elts
          /\ fields = FlattenSeq([i \in DOMAIN vs |-> FieldsOf(ops[i], vs[i])])
                        \o TailFields(ops, elts, rest) \o <<Abbrev(1)>>
  /\ AtStart

-----------------------------------------------------------------------------
(* Reading a value.  A result is the field position, the reader, the value, whether *)
(* there was one, and the way it failed if it did.                                  *)

\* A field as a 32 or 64 bit number: pn_bitstream_read, _read_vbr, _read_vbr_uint64.
Narrow(v) == v < Word \/ v >= DWord - Word \div 2

Get(p, kind, bits, wide) ==
  LET field == fields[p + 1]
      same  == field[1] = kind /\ field[2] = bits
  IN  IF p >= Len(fields) \/ ~same THEN [pos |-> p, v |-> 0, status |-> "lost"]
      ELSE IF kind = "vbr" /\ ~wide
      THEN [pos |-> p + 1, v |-> field[3] % Word,
            status |-> IF Narrow(field[3]) THEN "run" ELSE "fatal"]
      ELSE [pos |-> p + 1, v |-> field[3], status |-> "run"]

GetScalar(p, op, wide) ==
  CASE op.enc = "LITERAL" -> [pos |-> p, v |-> op.value, status |-> "run"]
    [] op.enc = "FIXED"   -> Get(p, "fixed", op.num_bits, wide)
    [] op.enc = "VBR"     -> Get(p, "vbr", op.num_bits, wide)
    [] op.enc = "CHAR6"   -> [Get(p, "fixed", 6, wide) EXCEPT !.v = DecodeChar6(@)]

NoValue(p, r) == [pos |-> p, r |-> r, v |-> 0, ok |-> FALSE, status |-> "run"]

\* The operands of one value.
ReadScalar(p, r, op, wide) ==
  LET got == GetScalar(p, op, wide)
  IN  [pos |-> got.pos, r |-> [r EXCEPT !.op_index = @ + 1, !.value_index = 0],
       v |-> got.v, ok |-> TRUE, status |-> got.status]

\* The first read of an array reads the number of elements too.  Only the 32 bit
\* reader refuses an empty array.
ReadArray(p, r, wide) ==
  LET count == IF r.value_index = 0 THEN Get(p, "vbr", 6, FALSE)
               ELSE [pos |-> p, v |-> r.num_values, status |-> "run"]
      got   == GetScalar(count.pos, abbrev[r.op_index + 2], wide)
      index == r.value_index + 1
      empty == r.value_index = 0 /\ count.v = 0 /\ ~wide
  IN  [pos |-> got.pos,
       r |-> [op_index    |-> r.op_index + (IF index = count.v THEN 2 ELSE 0),
              num_values  |-> count.v,
              value_index |-> index],
       v |-> got.v, ok |-> TRUE,
       status |-> IF count.status # "run" THEN count.status
                  ELSE IF empty THEN "fatal" ELSE got.status]

\* The number of bytes of a blob, read as six plain bits: the first piece.
\* pn_bitstream_align_32 skips the other pieces when they are in the same word.
GetLength(p) ==
  IF fields[p + 1][1] # "vbr" THEN [pos |-> p, v |-> 0, status |-> "lost"]
  ELSE [pos |-> IF fields[p + 2] = Align THEN p + 2 ELSE p + 1,
        v |-> FirstPiece(fields[p + 1][3]), status |-> "run"]

ReadBlob(p, r, wide) ==
  LET count == IF r.value_index = 0 THEN GetLength(p)
               ELSE [pos |-> p, v |-> r.num_values, status |-> "run"]
      got   == Get(count.pos, "fixed", 8, wide)
  IN  [pos |-> got.pos,
       r |-> [op_index    |-> r.op_index + (IF r.value_index = count.v THEN 1 ELSE 0),
              num_values  |-> count.v,
              value_index |-> r.value_index + 1],
       v |-> got.v, ok |-> TRUE,
       status |-> IF count.status # "run" THEN count.status ELSE got.status]

\* pn_record_read_abbrev and pn_record_read_abbrev_uint64
ReadAbbrev(p, r, wide) ==
  IF r.op_index >= Len(abbrev) THEN NoValue(p, r)
  ELSE LET op == abbrev[r.op_index + 1]
       IN  CASE op.enc = "ARRAY" -> ReadArray(p, r, wide)
             [] op.enc = "BLOB"  -> ReadBlob(p, r, wide)
             [] OTHER            -> ReadScalar(p, r, op, wide)

\* pn_record_try_read_uint32 and pn_record_try_read_uint64
TryRead(p, r, wide) ==
  IF abbrev # <<>> THEN ReadAbbrev(p, r, wide)
  ELSE IF r.value_index >= r.num_values THEN NoValue(p, r)
  ELSE LET got == Get(p, "vbr", 6, wide)
       IN  [pos |-> got.pos, r |-> [r EXCEPT !.value_index = @ + 1],
            v |-> got.v, ok |-> TRUE, status |-> got.status]

\* The loop of num_values_left and finish: what a record still holds, as 32 bit values.
ReadAll(p, r) ==
  LET after[k \in 0..(Len(values) + Len(fields))] ==
        IF k = 0 THEN [NoValue(p, r) EXCEPT !.ok = TRUE]
        ELSE LET was == after[k - 1]
             IN  IF ~was.ok \/ was.status # "run" THEN was
                 ELSE LET next == TryRead(was.pos, was.r, FALSE)
                      IN  [next EXCEPT !.v = was.v + (IF next.ok THEN 1 ELSE 0)]
  IN  after[Len(values) + Len(fields)]

-----------------------------------------------------------------------------
(* The calls.                                                                       *)

Finished(call, p, r, s) ==
  /\ pos' = p
  /\ reader' = r
  /\ last' = call
  /\ status' = s
  /\ UNCHANGED <<abbrev, values, fields>>

\* pn_record_read_code
ReadCode ==
  /\ status = "run" /\ n = 0
  /\ LET code == IF abbrev = <<>> THEN Get(pos, "vbr", 6, FALSE)
                 ELSE TryRead(pos, reader, FALSE)
         count == Get(code.pos, "vbr", 6, FALSE)
     IN  IF abbrev = <<>>
         THEN Finished(<<"u32", code.v>>, count.pos, [reader EXCEPT !.num_values = count.v], "run")
         ELSE Finished(<<"u32", code.v>>, code.pos, code.r, code.status)
  /\ n' = 1

Signed(v, modulus) == IF 2 * v >= modulus THEN v - modulus ELSE v

\* Slip: the value one is read as minus zero.
DecodeMinusZero(v) == IF v % 2 = 0 THEN v \div 2 ELSE -(v \div 2)

\* pn_decode_sign_rotated_value_int64
DecodeSignRotated(v) ==
  IF v % 2 = 0 THEN v \div 2 ELSE IF v # 1 THEN -(v \div 2) ELSE -(DWord \div 2)

InInt32(x) == x >= -(Word \div 2) /\ x < Word \div 2

\* What a call makes of the number it read, and the numbers it refuses: a uint16_t is
\* half a word.
Converted(kind, v) ==
  CASE kind = "i32" -> Signed(v, Word)
    [] kind \in {"decoded_i32", "decoded_i64"} -> DecodeSignRotated(v)
    [] OTHER -> v

Refused(kind, v) ==
  \/ kind = "u16" /\ v * v >= Word
  \/ kind = "decoded_i32" /\ ~InInt32(DecodeSignRotated(v))

Wide(kind) == kind \in {"u64", "decoded_i32", "decoded_i64"}
Kinds == {"u16", "u32", "i32", "u64", "decoded_i32", "decoded_i64"}

\* pn_record_read_uint16, _int32, _uint32, _decoded_int32, _uint64, _decoded_int64 and
\* the floats, which are 32 and 64 bit numbers.
ReadValue(kind) ==
  /\ status = "run" /\ n > 0
  /\ LET got == TryRead(pos, reader, Wide(kind))
         s   == IF got.status # "run" THEN got.status
                ELSE IF ~got.ok \/ Refused(kind, got.v) THEN "fatal"
                ELSE IF n = Len(values) THEN "lost" ELSE "run"
     IN  /\ Finished(<<kind, Converted(kind, got.v)>>, got.pos, got.r, s)
         /\ n' = IF s = "run" THEN n + 1 ELSE n

\* pn_record_num_values_left
NumValuesLeft ==
  /\ status = "run" /\ n > 0
  /\ LET all == ReadAll(pos, reader)
     IN  Finished(<<"left", all.v>>, pos, reader, all.status)
  /\ UNCHANGED n

\* pn_record_reader_finish
Finish ==
  /\ status = "run" /\ n > 0
  /\ LET all == ReadAll(pos, reader)
     IN  Finished(<<"finish">>, all.pos, all.r, IF all.status = "run" THEN "done" ELSE all.status)
  /\ UNCHANGED n

Stopped == status # "run" /\ UNCHANGED vars

Next ==
  \/ ReadCode
  \/ \E kind \in Kinds : ReadValue(kind)
  \/ NumValuesLeft
  \/ Finish
  \/ Stopped

Spec == Init /\ [][Next]_vars

-----------------------------------------------------------------------------
(* Properties.                                                                      *)

TypeOK ==
  /\ pos \in 0..Len(fields)
  /\ reader.op_index \in 0..Len(abbrev)
  /\ reader.num_values \in Int /\ reader.value_index \in Nat
  /\ n \in 0..Len(values)
  /\ status \in {"run", "fatal", "lost", "done"}

\* The number a writer encodes as v: the sign in the lowest bit.
Encoded(x) == IF x >= 0 THEN 2 * x ELSE (2 * (-x) + 1) % DWord
Decoded(v) == CHOOSE x \in (-(DWord \div 2))..((DWord \div 2) - 1) : Encoded(x) = v

\* Whatever the abbreviation, and however reads of 32 and 64 bits and counts of what is
\* left are mixed, the k-th value read is the k-th value written: the operand index, the
\* element index and the bit position stay in step.  INT32_MIN comes as a 33 bit number.
ValuesAsWritten ==
  status = "run" /\ n > 0 /\ last[1] \in Kinds =>
    LET v == values[n]
    IN  last[2] = CASE last[1] = "u64" -> v
                    [] last[1] \in {"decoded_i32", "decoded_i64"} -> Decoded(v)
                    [] last[1] = "i32" -> Signed(v % Word, Word)
                    [] OTHER -> v % Word

NumElements == Len(values) - NumScalars(abbrev)

\* A blob of 64 bytes or more: six bits do not hold its length.
LengthCut == HasBlob(abbrev) /\ NumElements >= 2^LengthBits

\* num_values_left counts what the reads that follow will deliver, and finish leaves
\* the stream at the entry behind the record, unless it is a blob whose length is cut:
\* of that the reader never sees the end.
LeftIsLeft ==
  IF LengthCut THEN status = "done" => pos < Len(fields) - 2
  ELSE /\ status = "run" /\ last[1] = "left" => last[2] = Len(values) - n
       /\ status = "done" => fields[pos + 1] = Abbrev(1)

\* "First read is the number of elements" of an array and of a blob.  A read asks the
\* stream for a field that is not there in three cases only: the reader ends a blob one
\* byte late; it takes for its first byte what is left of a length that goes on in the
\* next word; and its 64 bit half lacks the check that refuses an empty array.
LostOnlyPastTheTail ==
  status = "lost" =>
    \/ /\ HasBlob(abbrev) /\ ~LengthCut
       /\ (n = Len(values) \/ last[1] \in {"left", "finish"})
    \/ /\ \E i \in DOMAIN fields : fields[i] = Rest
       /\ (n = NumScalars(abbrev) \/ last[1] \in {"left", "finish"})
    \/ HasArray(abbrev) /\ n = Len(values) /\ n = NumScalars(abbrev) /\ Wide(last[1])

\* "First read is the number of elements": of a blob too, in pn_record_read_abbrev.
BlobCounted ==
  status = "run" /\ HasBlob(abbrev) /\ n > NumScalars(abbrev) =>
    reader.num_values = NumElements
=============================================================================
