----------------------------- MODULE Bitstream -----------------------------
(***************************************************************************)
(* pn_bitstream.h: reads of any number of bits out of a buffer, through a  *)
(* word that is filled from the buffer, at the end of the buffer only in   *)
(* part.  The word load always takes a whole word, so the last one brings  *)
(* in bytes from behind the buffer.  The widths are parameters: nothing    *)
(* depends on a byte having 8 bits but the positions being small enough.   *)
(***************************************************************************)
EXTENDS Bits, Sequences

CONSTANTS
  ByteBits,   \* 8
  WordBytes,  \* sizeof(uint32_t)
  MaxLen,     \* the longest buffer, in bytes
  VbrWidths,  \* the widths of the variable bit rate fields
  MaxSeek     \* the largest position a caller seeks to

WordBits == ByteBits * WordBytes

WidthsAssumption ==
  /\ ByteBits \in Nat \ {0} /\ WordBytes \in Nat \ {0}
  /\ MaxLen \in Nat /\ MaxSeek \in Nat
  /\ VbrWidths \subseteq 2..WordBits

VARIABLES
  data,      \* the one bits of the buffer and of the bytes behind it
  data_len,  \* its length in bytes
  bs,        \* the stream: curword, curword_bits, bit_offset; fatal once a check failed
  out        \* the last operation and its value

vars == <<data, data_len, bs, out>>

\* pn_bitstream_init
NewStream == [curword |-> {}, curword_bits |-> 0, bit_offset |-> 0, fatal |-> FALSE]

\* A buffer with any contents, and any bytes behind it.
Init ==
  /\ data_len \in 0..MaxLen
  /\ data \in SUBSET (0..(ByteBits * (data_len + WordBytes - 1) - 1))
  /\ bs = NewStream
  /\ out = <<<<"init">>>>

-----------------------------------------------------------------------------
(* The functions of the file, as functions of the stream.  A failed PN_CHECK or     *)
(* assert sets fatal.                                                               *)

\* pn_bitstream_read_frac_bits: the stream after it and the value
ReadFracBits(s, n) ==
  IF n > s.curword_bits THEN <<[s EXCEPT !.fatal = TRUE], {}>>
  ELSE <<[s EXCEPT !.curword = ShiftRight(@, n), !.curword_bits = @ - n,
                   !.bit_offset = @ + n],
         Low(s.curword, n)>>

\* Slip: the end of the buffer is not looked at.
FillWholeWord(s) ==
  LET byte_offset == s.bit_offset \div ByteBits
  IN  IF byte_offset > data_len THEN [s EXCEPT !.fatal = TRUE]
      ELSE [s EXCEPT !.curword = Window(data, ByteBits * byte_offset, WordBits),
                     !.curword_bits = WordBits]

\* pn_bitstream_fill_curword: near the end only the bits of the buffer count, and with
\* none left curword keeps what it was.
FillCurword(s) ==
  LET byte_offset == s.bit_offset \div ByteBits
      word == Window(data, ByteBits * byte_offset, WordBits)
      left == (data_len - byte_offset) * ByteBits
  IN  IF byte_offset + WordBytes < data_len
      THEN [s EXCEPT !.curword = word, !.curword_bits = WordBits]
      ELSE IF byte_offset > data_len THEN [s EXCEPT !.fatal = TRUE]
      ELSE [s EXCEPT !.curword = IF left > 0 THEN word ELSE @, !.curword_bits = left]

\* pn_bitstream_read
ReadBits(s, n) ==
  IF n <= s.curword_bits THEN ReadFracBits(s, n)
  ELSE LET filled == FillCurword([s EXCEPT !.bit_offset = @ + s.curword_bits])
           rest   == ReadFracBits(filled, n - s.curword_bits)
       IN  <<rest[1], s.curword \cup ShiftLeft(rest[2], s.curword_bits)>>

\* The loop of pn_bitstream_read_vbr6, _vbr and _vbr_uint64: pieces until one has its
\* top bit clear, at most as many as have their place in two words.
VbrLoop(s, n) ==
  LET rounds == (2 * WordBits + n - 2) \div (n - 1)
      after[k \in 0..rounds] ==
        IF k = 0 THEN [s |-> s, value |-> {}, more |-> TRUE, shift |-> 0]
        ELSE LET was   == after[k - 1]
                 piece == ReadBits(was.s, n)
             IN  IF ~was.more \/ was.s.fatal THEN was
                 ELSE [s     |-> piece[1],
                       value |-> was.value \cup
                                   Low(ShiftLeft(Low(piece[2], n - 1), was.shift),
                                       2 * WordBits),
                       more  |-> n - 1 \in piece[2],
                       shift |-> was.shift + n - 1]
  IN  after[rounds]

\* Slip: a field that is too long ends where the loop does.
VbrCutOff(s, n) == <<VbrLoop(s, n).s, VbrLoop(s, n).value>>

\* PN_UNREACHABLE behind the loop
VbrUint64(s, n) ==
  LET loop == VbrLoop(s, n)
  IN  <<[loop.s EXCEPT !.fatal = @ \/ loop.more], loop.value>>

\* The value fits in a word, or is the sign extension of one.
FitsInWord(value) ==
  \/ value \subseteq 0..(WordBits - 1)
  \/ (WordBits - 1)..(2 * WordBits - 1) \subseteq value

\* Slip: the value is cut to a word without the check.
VbrUnchecked(s, n) == <<VbrUint64(s, n)[1], Low(VbrUint64(s, n)[2], WordBits)>>

Vbr(s, n) ==
  LET wide == VbrUint64(s, n)
  IN  <<[wide[1] EXCEPT !.fatal = @ \/ ~FitsInWord(wide[2])], Low(wide[2], WordBits)>>

\* pn_bitstream_seek_bit
SeekBit(s, p) ==
  LET filled == FillCurword([s EXCEPT !.bit_offset = (p \div WordBits) * WordBits])
  IN  IF p % WordBits = 0 \/ filled.fatal THEN filled
      ELSE ReadFracBits(filled, p % WordBits)[1]

-----------------------------------------------------------------------------
(* What callers do.                                                                 *)

\* The state after an operation.  PN_FATAL ends the program: of the stream only that
\* it failed is kept.
Return(op, s, value) ==
  /\ ~bs.fatal
  /\ bs' = IF s.fatal THEN [NewStream EXCEPT !.fatal = TRUE] ELSE s
  /\ out' = IF s.fatal THEN <<op>> ELSE <<op, value>>
  /\ UNCHANGED <<data, data_len>>

Read(n) == Return(<<"read", n>>, ReadBits(bs, n)[1], ReadBits(bs, n)[2])

ReadVbr(n) == Return(<<"vbr", n>>, Vbr(bs, n)[1], Vbr(bs, n)[2])

ReadVbrUint64(n) == Return(<<"vbr64", n>>, VbrUint64(bs, n)[1], VbrUint64(bs, n)[2])

Seek(p) == Return(<<"seek", p>>, SeekBit(bs, p), {})

\* pn_bitstream_skip_bytes and pn_bitstream_align_32
SkipBytes(num_bytes) ==
  LET p == bs.bit_offset + num_bytes * ByteBits
  IN  Return(<<"seek", p>>, SeekBit(bs, p), {})

Align32 ==
  LET p == ((bs.bit_offset + WordBits - 1) \div WordBits) * WordBits
  IN  Return(<<"seek", p>>, SeekBit(bs, p), {})

\* pn_bitstream_at_end
AtEnd == Return(<<"at_end">>, bs, IF bs.bit_offset \div ByteBits = data_len THEN {0} ELSE {})

Done == bs.fatal /\ UNCHANGED vars

Next ==
  \/ \E n \in 0..WordBits : Read(n)
  \/ \E n \in VbrWidths : ReadVbr(n) \/ ReadVbrUint64(n)
  \/ \E p \in 0..MaxSeek : Seek(p)
  \/ \E num_bytes \in 0..MaxLen : SkipBytes(num_bytes)
  \/ Align32
  \/ AtEnd
  \/ Done

Spec == Init /\ [][Next]_vars

-----------------------------------------------------------------------------
(* Properties.                                                                      *)

TypeOK ==
  /\ data_len \in 0..MaxLen
  /\ data \subseteq 0..(ByteBits * (data_len + WordBytes - 1) - 1)
  /\ bs.curword \subseteq 0..(WordBits - 1)
  /\ bs.curword_bits \in 0..WordBits
  /\ bs.bit_offset \in 0..(ByteBits * data_len)
  /\ bs.fatal \in BOOLEAN

\* However the stream got to where it is, the word holds the next bits of the buffer:
\* fill_curword starts at a whole byte, and the bytes from behind the buffer that the
\* last load brings in are never among the bits that count.
WordIsNext ==
  /\ Low(bs.curword, bs.curword_bits) = Window(data, bs.bit_offset, bs.curword_bits)
  /\ (bs.bit_offset + bs.curword_bits) % ByteBits = 0
  /\ bs.bit_offset + bs.curword_bits <= ByteBits * data_len

Cursor == INSTANCE BitCursor WITH pos <- bs.bit_offset, fatal <- bs.fatal,
            MaxSeek <- MaxSeek + ByteBits * (2 * MaxLen + WordBytes)

\* The word, its partial fill at the end of the buffer, the read that straddles two
\* words and the seek that reads the unaligned bits again implement a plain cursor
\* over the bits of the buffer, with variable bit rate fields read to their last piece.
ImplementsCursor == Cursor!Spec
=============================================================================
