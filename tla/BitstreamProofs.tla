--------------------------- MODULE BitstreamProofs ---------------------------
(***************************************************************************)
(* Proofs about Bitstream, for buffers of any length and for any width of  *)
(* bytes and words: the word always holds the next bits of the buffer, and *)
(* the reads and seeks through it are those of a plain cursor.             *)
(***************************************************************************)
EXTENDS Bitstream, CommonLemmas

-----------------------------------------------------------------------------
(* Bits.  The sets of Bits, element by element.                              *)

\* The bits of a window of a stream.
LEMMA InWindow ==
  ASSUME NEW d \in SUBSET Nat, NEW p \in Nat, NEW n \in Nat
  PROVE  \A b : b \in Window(d, p, n) <=> b \in Nat /\ b < n /\ p + b \in d
<1>1. ASSUME NEW b, b \in Window(d, p, n) PROVE b \in Nat /\ b < n /\ p + b \in d
  <2>1. PICK c \in d : c >= p /\ c < p + n /\ b = c - p
    BY <1>1 DEF Window
  <2> QED BY <2>1
<1>2. ASSUME NEW b \in Nat, b < n, p + b \in d PROVE b \in Window(d, p, n)
  <2>1. p + b >= p /\ p + b < p + n /\ b = (p + b) - p
    BY <1>2
  <2> QED BY <1>2, <2>1 DEF Window
<1> QED BY <1>1, <1>2

\* The bits of a word shifted right.
LEMMA InShiftRight ==
  ASSUME NEW w \in SUBSET Nat, NEW n \in Nat
  PROVE  \A b : b \in ShiftRight(w, n) <=> b \in Nat /\ b + n \in w
<1>1. ASSUME NEW b, b \in ShiftRight(w, n) PROVE b \in Nat /\ b + n \in w
  <2>1. PICK c \in w : c >= n /\ b = c - n
    BY <1>1 DEF ShiftRight
  <2> QED BY <2>1
<1>2. ASSUME NEW b \in Nat, b + n \in w PROVE b \in ShiftRight(w, n)
  <2>1. b + n >= n /\ b = (b + n) - n
    BY <1>2
  <2> QED BY <1>2, <2>1 DEF ShiftRight
<1> QED BY <1>1, <1>2

\* The bits of a word shifted left.
LEMMA InShiftLeft ==
  ASSUME NEW w \in SUBSET Nat, NEW n \in Nat
  PROVE  \A b : b \in ShiftLeft(w, n) <=> b \in Nat /\ b >= n /\ b - n \in w
<1>1. ASSUME NEW b, b \in ShiftLeft(w, n) PROVE b \in Nat /\ b >= n /\ b - n \in w
  <2>1. PICK c \in w : b = c + n
    BY <1>1 DEF ShiftLeft
  <2> QED BY <2>1
<1>2. ASSUME NEW b \in Nat, b >= n, b - n \in w PROVE b \in ShiftLeft(w, n)
  <2>1. b = (b - n) + n
    BY <1>2
  <2> QED BY <1>2, <2>1 DEF ShiftLeft
<1> QED BY <1>1, <1>2

\* Of a window, the low bits are a shorter window.
LEMMA LowWindow ==
  ASSUME NEW d \in SUBSET Nat, NEW p \in Nat, NEW n \in Nat, NEW m \in Nat, m <= n
  PROVE  Low(Window(d, p, n), m) = Window(d, p, m)
<1>1. \A b : b \in Low(Window(d, p, n), m) <=> b \in Window(d, p, m)
  <2>1. \A b : b \in Window(d, p, n) <=> b \in Nat /\ b < n /\ p + b \in d
    BY InWindow
  <2>2. \A b : b \in Window(d, p, m) <=> b \in Nat /\ b < m /\ p + b \in d
    BY InWindow
  <2> QED BY <2>1, <2>2 DEF Low
<1> QED BY <1>1

-----------------------------------------------------------------------------
(* The stream.                                                               *)

Stream == [curword : SUBSET Nat, curword_bits : Nat, bit_offset : Nat, fatal : BOOLEAN]

\* The bits of the buffer.
Bound == ByteBits * data_len

BufferOK == data_len \in 0..MaxLen /\ data \in SUBSET Nat

\* What every operation keeps of a stream.  The last part is what read relies on when it
\* takes the whole of curword for the low bits of its result: only the last word of the
\* buffer has bits above those that count.
Sound(s) ==
  /\ s \in Stream
  /\ s.curword \subseteq 0..(WordBits - 1)
  /\ s.curword_bits <= WordBits
  /\ s.bit_offset + s.curword_bits <= Bound
  /\ (s.bit_offset + s.curword_bits) % ByteBits = 0
  /\ \A b \in Nat : b < s.curword_bits => (b \in s.curword <=> s.bit_offset + b \in data)
  /\ (\A b \in s.curword : b < s.curword_bits) \/ s.bit_offset + s.curword_bits = Bound

\* The widths are numbers, and what follows for a word and for the buffer.
LEMMA Widths ==
  ASSUME WidthsAssumption, BufferOK
  PROVE  /\ ByteBits \in Nat /\ ByteBits > 0 /\ WordBytes \in Nat /\ WordBytes > 0
         /\ WordBits \in Nat /\ WordBits > 0 /\ WordBits = ByteBits * WordBytes
         /\ Bound \in Nat /\ data_len \in Nat /\ data \in SUBSET Nat /\ MaxLen \in Nat
         /\ Bound = ByteBits * data_len
<1>1. /\ ByteBits \in Nat /\ ByteBits > 0 /\ WordBytes \in Nat /\ WordBytes > 0
      /\ data_len \in Nat /\ data \in SUBSET Nat /\ MaxLen \in Nat
  BY DEF WidthsAssumption, BufferOK
<1>2. \A a, b \in Nat : a > 0 /\ b > 0 => a * b \in Nat /\ a * b > 0
  OBVIOUS
<1>3. \A a, b \in Nat : a * b \in Nat
  OBVIOUS
<1> QED BY <1>1, <1>2, <1>3 DEF WordBits, Bound

\* pn_bitstream_read_frac_bits reads the next bits when the word has them.
LEMMA FracReads ==
  ASSUME WidthsAssumption, BufferOK, NEW s, Sound(s), NEW n \in Nat, n <= s.curword_bits
  PROVE  LET r == ReadFracBits(s, n) IN
         /\ Sound(r[1]) /\ r[1].fatal = s.fatal /\ r[1].bit_offset = s.bit_offset + n
         /\ r[2] = Window(data, s.bit_offset, n)
<1> DEFINE t == [s EXCEPT !.curword = ShiftRight(@, n), !.curword_bits = @ - n,
                          !.bit_offset = @ + n]
<1>1. /\ s \in Stream /\ s.curword \in SUBSET Nat /\ s.curword_bits \in Nat
      /\ s.bit_offset \in Nat /\ s.fatal \in BOOLEAN
  BY DEF Sound, Stream
<1>2. ReadFracBits(s, n) = <<t, Low(s.curword, n)>>
  BY <1>1 DEF ReadFracBits
<1>3. /\ t.curword = ShiftRight(s.curword, n) /\ t.curword_bits = s.curword_bits - n
      /\ t.bit_offset = s.bit_offset + n /\ t.fatal = s.fatal
  BY <1>1 DEF Stream
<1>4. \A b : b \in t.curword <=> b \in Nat /\ b + n \in s.curword
  BY <1>1, <1>3, InShiftRight
<1>5. t \in Stream
  <2>1. t.curword \in SUBSET Nat
    BY <1>4
  <2>2. s.curword_bits - n \in Nat /\ s.bit_offset + n \in Nat
    BY <1>1
  <2>3. ShiftRight(s.curword, n) \in SUBSET Nat
    BY <1>3, <2>1
  <2> QED BY <1>1, <2>2, <2>3 DEF Stream
<1>6. Low(s.curword, n) = Window(data, s.bit_offset, n)
  <2>1. \A b : b \in Window(data, s.bit_offset, n) <=> b \in Nat /\ b < n /\ s.bit_offset + b \in data
    BY <1>1, Widths, InWindow
  <2>2. \A b : b \in Low(s.curword, n) <=> b \in Nat /\ b < n /\ s.bit_offset + b \in data
    BY <1>1 DEF Low, Sound
  <2> QED BY <2>1, <2>2
<1> HIDE DEF t
<1>7. Sound(t)
  <2>1. t.bit_offset + t.curword_bits = s.bit_offset + s.curword_bits
    BY <1>1, <1>3
  <2>2. t.curword \subseteq 0..(WordBits - 1)
    <3>1. s.curword \subseteq 0..(WordBits - 1) /\ WordBits \in Nat
      BY Widths DEF Sound
    <3> QED BY <1>4, <3>1
  <2>3. t.curword_bits <= WordBits
    BY <1>1, <1>3, Widths DEF Sound
  <2>4. ASSUME NEW b \in Nat, b < t.curword_bits
        PROVE  b \in t.curword <=> t.bit_offset + b \in data
    <3>1. b + n \in Nat /\ b + n < s.curword_bits /\ s.bit_offset + (b + n) = t.bit_offset + b
      BY <1>1, <1>3, <2>4
    <3> QED BY <1>4, <3>1 DEF Sound
  <2>5. (\A b \in t.curword : b < t.curword_bits) \/ t.bit_offset + t.curword_bits = Bound
    <3>1. CASE \A b \in s.curword : b < s.curword_bits
      <4>1. ASSUME NEW b \in t.curword PROVE b < t.curword_bits
        <5>1. b \in Nat /\ b + n < s.curword_bits
          BY <1>4, <3>1
        <5> QED BY <1>1, <1>3, <5>1
      <4> QED BY <4>1
    <3> QED BY <2>1, <3>1 DEF Sound
  <2> QED BY <1>5, <2>1, <2>2, <2>3, <2>4, <2>5 DEF Sound
<1> QED BY <1>2, <1>3, <1>6, <1>7

\* It fails when the word has too few.
LEMMA FracFails ==
  ASSUME NEW s \in Stream, NEW n \in Nat, n > s.curword_bits
  PROVE  LET r == ReadFracBits(s, n) IN r[1] \in Stream /\ r[1].fatal /\ r[2] = {}
<1> DEFINE t == [s EXCEPT !.fatal = TRUE]
<1>1. t \in Stream /\ t.fatal
  BY DEF Stream
<1>2. ReadFracBits(s, n) = <<t, {}>>
  BY DEF ReadFracBits
<1> HIDE DEF t
<1> QED BY <1>1, <1>2

\* Byte offsets and bit offsets are in the same order.
LEMMA BytesInOrder ==
  ASSUME NEW B \in Nat, B > 0, NEW q \in Nat, NEW m \in Nat, NEW k \in Nat
  PROVE  /\ q + k < m => B * q + B * k < B * m
         /\ q + k >= m => B * m <= B * q + B * k
         /\ q <= m <=> B * q <= B * m
         /\ q <= m => m - q \in Nat /\ (m - q) * B = B * m - B * q
<1>1. \A x, y \in Nat : x <= y => B * x <= B * y
  <2> SUFFICES ASSUME NEW x \in Nat, NEW y \in Nat, x <= y PROVE B * x <= B * y
    OBVIOUS
  <2>1. PICK e \in Nat : y = x + e
    <3>1. y - x \in Nat /\ y = x + (y - x)
      OBVIOUS
    <3> QED BY <3>1
  <2>2. B * y = B * x + B * e /\ B * e \in Nat /\ B * x \in Nat
    BY <2>1
  <2> QED BY <2>2
<1>2. ASSUME NEW x \in Nat, NEW y \in Nat, x < y PROVE B * x < B * y
  <2>1. x + 1 \in Nat /\ x + 1 <= y
    BY <1>2
  <2>3. B * (x + 1) <= B * y
    BY <1>1, <2>1
  <2>2. B * (x + 1) = B * x + B /\ B * x \in Nat
    OBVIOUS
  <2>4. B * y \in Nat
    OBVIOUS
  <2> QED BY <2>2, <2>3, <2>4
<1>3. B * (q + k) = B * q + B * k /\ q + k \in Nat
  OBVIOUS
<1>4. (m - q) * B = B * m - B * q
  OBVIOUS
<1>5. q + k < m => B * q + B * k < B * m
  BY <1>2, <1>3
<1>6. q + k >= m => B * m <= B * q + B * k
  BY <1>1, <1>3
<1>7. q <= m <=> B * q <= B * m
  <2>1. q <= m => B * q <= B * m
    BY <1>1
  <2>2. ~(q <= m) => B * m < B * q
    BY <1>2
  <2>3. B * q \in Nat /\ B * m \in Nat
    OBVIOUS
  <2> QED BY <2>1, <2>2, <2>3
<1> QED BY <1>4, <1>5, <1>6, <1>7

\* A whole number of bytes.
LEMMA WholeBytes ==
  ASSUME NEW o \in Nat, NEW B \in Nat, B > 0, o % B = 0
  PROVE  o \div B \in Nat /\ o = B * (o \div B)
<1>1. o \div B \in Nat /\ o = B * (o \div B) + (o % B) /\ B * (o \div B) \in Nat
  BY DivMod
<1> QED BY <1>1

\* pn_bitstream_fill_curword, at a whole byte: it fails behind the end of the buffer, and
\* else fills the word, at the end of the buffer with what is left.
LEMMA Fills ==
  ASSUME WidthsAssumption, BufferOK, NEW s \in Stream, ~s.fatal,
         s.bit_offset % ByteBits = 0, s.curword \subseteq 0..(WordBits - 1)
  PROVE  LET f == FillCurword(s) IN
         /\ f \in Stream
         /\ s.bit_offset > Bound => f.fatal
         /\ s.bit_offset <= Bound =>
              /\ Sound(f) /\ ~f.fatal /\ f.bit_offset = s.bit_offset
              /\ f.curword_bits = WordBits \/ f.bit_offset + f.curword_bits = Bound
<1> DEFINE q    == s.bit_offset \div ByteBits
           word == Window(data, ByteBits * q, WordBits)
           left == (data_len - q) * ByteBits
           full == [s EXCEPT !.curword = word, !.curword_bits = WordBits]
           part == [s EXCEPT !.curword = IF left > 0 THEN word ELSE @, !.curword_bits = left]
           fail == [s EXCEPT !.fatal = TRUE]
<1>1. /\ ByteBits \in Nat /\ ByteBits > 0 /\ WordBytes \in Nat /\ WordBits \in Nat /\ WordBits > 0
      /\ WordBits = ByteBits * WordBytes /\ Bound \in Nat /\ data_len \in Nat
      /\ data \in SUBSET Nat /\ Bound = ByteBits * data_len /\ WordBytes > 0
  BY Widths
<1>2. /\ s.curword \in SUBSET Nat /\ s.curword_bits \in Nat /\ s.bit_offset \in Nat
  BY DEF Stream
<1>3. q \in Nat /\ s.bit_offset = ByteBits * q
  BY <1>1, <1>2, WholeBytes
<1>4. /\ q + WordBytes < data_len => s.bit_offset + WordBits < Bound
      /\ q + WordBytes >= data_len => Bound <= s.bit_offset + WordBits
      /\ q <= data_len <=> s.bit_offset <= Bound
      /\ q <= data_len => left \in Nat /\ left = Bound - s.bit_offset
  <2> HIDE DEF q
  <2>1. /\ q + WordBytes < data_len => ByteBits * q + ByteBits * WordBytes < ByteBits * data_len
        /\ q + WordBytes >= data_len => ByteBits * data_len <= ByteBits * q + ByteBits * WordBytes
        /\ q <= data_len <=> ByteBits * q <= ByteBits * data_len
        /\ q <= data_len => left = ByteBits * data_len - ByteBits * q
    BY <1>1, <1>3, BytesInOrder
  <2> HIDE DEF left
  <2>2. /\ q + WordBytes < data_len => s.bit_offset + WordBits < Bound
        /\ q + WordBytes >= data_len => Bound <= s.bit_offset + WordBits
        /\ q <= data_len <=> s.bit_offset <= Bound
        /\ q <= data_len => left = Bound - s.bit_offset
    BY <1>1, <1>3, <2>1
  <2>3. q <= data_len => left \in Nat
    BY <1>1, <1>2, <2>2
  <2> QED BY <2>2, <2>3
<1>5. FillCurword(s) = IF q + WordBytes < data_len THEN full
                       ELSE IF q > data_len THEN fail ELSE part
  BY DEF FillCurword
<1>6. \A b : b \in word <=> b \in Nat /\ b < WordBits /\ s.bit_offset + b \in data
  <2> HIDE DEF q
  <2>1. ByteBits * q \in Nat
    BY <1>2, <1>3
  <2> QED BY <1>1, <1>2, <1>3, <2>1, InWindow
<1> HIDE DEF word, left, q
<1>7. ASSUME NEW f \in Stream, NEW c \in SUBSET Nat, NEW n \in Nat,
             f.curword = c, f.curword_bits = n, f.bit_offset = s.bit_offset,
             c \subseteq 0..(WordBits - 1), n <= WordBits, n > 0 => c = word,
             n = WordBits \/ s.bit_offset + n = Bound,
             s.bit_offset + n <= Bound, (s.bit_offset + n) % ByteBits = 0
      PROVE  Sound(f)
  <2>1. \A b \in Nat : b < n => (b \in c <=> s.bit_offset + b \in data)
    BY <1>1, <1>6, <1>7
  <2>2. (\A b \in c : b < n) \/ s.bit_offset + n = Bound
    BY <1>1, <1>7
  <2> QED BY <1>7, <2>1, <2>2 DEF Sound
<1>8. word \in SUBSET Nat /\ word \subseteq 0..(WordBits - 1)
  BY <1>1, <1>6
<1>9. /\ (s.bit_offset + WordBits) % ByteBits = 0 /\ Bound % ByteBits = 0
  <2>1. WordBits % ByteBits = 0 /\ Bound % ByteBits = 0
    BY <1>1, DivExact
  <2> DEFINE o == s.bit_offset
             W == WordBits
  <2>2. /\ o \in Nat /\ W \in Nat /\ o % ByteBits = 0 /\ W % ByteBits = 0
        /\ ByteBits \in Nat /\ ByteBits # 0
    BY <1>1, <1>2, <2>1
  <2>3. (o + W) % ByteBits = 0
    <3> HIDE DEF o, W
    <3> QED BY <2>2, DivSum
  <2> QED BY <2>1, <2>3
<1>10. CASE q + WordBytes < data_len
  <2>1. full \in Stream /\ full.curword = word /\ full.curword_bits = WordBits
        /\ full.bit_offset = s.bit_offset /\ full.fatal = s.fatal
    BY <1>1, <1>8 DEF Stream
  <2>2. s.bit_offset + WordBits <= Bound /\ s.bit_offset <= Bound
    BY <1>1, <1>2, <1>4, <1>10
  <2> HIDE DEF full
  <2>3. Sound(full)
    BY <1>1, <1>7, <1>8, <1>9, <2>1, <2>2
  <2> QED BY <1>1, <1>2, <1>5, <1>10, <2>1, <2>2, <2>3
<1>11. CASE ~(q + WordBytes < data_len) /\ q > data_len
  <2>1. fail \in Stream /\ fail.fatal
    BY DEF Stream
  <2>2. ~(s.bit_offset <= Bound)
    BY <1>1, <1>3, <1>4, <1>11
  <2> HIDE DEF fail
  <2> QED BY <1>1, <1>2, <1>5, <1>11, <2>1, <2>2
<1>12. CASE ~(q + WordBytes < data_len) /\ ~(q > data_len)
  <2> DEFINE c == IF left > 0 THEN word ELSE s.curword
  <2>1. left \in Nat /\ left = Bound - s.bit_offset /\ s.bit_offset <= Bound
        /\ left <= WordBits /\ s.bit_offset + left = Bound
    BY <1>1, <1>2, <1>3, <1>4, <1>12
  <2>2. c \in SUBSET Nat /\ c \subseteq 0..(WordBits - 1)
    BY <1>2, <1>8
  <2>3. part = [s EXCEPT !.curword = c, !.curword_bits = left]
    OBVIOUS
  <2>4. left > 0 => c = word
    OBVIOUS
  <2> HIDE DEF c, part
  <2>5. part \in Stream /\ part.curword = c /\ part.curword_bits = left
        /\ part.bit_offset = s.bit_offset /\ part.fatal = s.fatal
    BY <2>1, <2>2, <2>3 DEF Stream
  <2>6. Sound(part)
    BY <1>1, <1>7, <1>9, <2>1, <2>2, <2>4, <2>5
  <2> QED BY <1>1, <1>2, <1>5, <1>12, <2>1, <2>5, <2>6
<1> QED BY <1>10, <1>11, <1>12

\* pn_bitstream_read reads the next bits, within the word or across two of them, and
\* fails when the buffer has too few.
LEMMA Reads ==
  ASSUME WidthsAssumption, BufferOK, NEW s, Sound(s), ~s.fatal, NEW n \in Nat, n <= WordBits
  PROVE  LET r == ReadBits(s, n) IN
         /\ r[1] \in Stream /\ r[2] \in SUBSET Nat
         /\ s.bit_offset + n <= Bound =>
              /\ Sound(r[1]) /\ ~r[1].fatal /\ r[1].bit_offset = s.bit_offset + n
              /\ r[2] = Window(data, s.bit_offset, n)
         /\ s.bit_offset + n > Bound => r[1].fatal
<1> DEFINE o == s.bit_offset
           c == s.curword_bits
           s2 == [s EXCEPT !.bit_offset = @ + s.curword_bits]
           f == FillCurword(s2)
           rest == ReadFracBits(f, n - c)
<1>1. /\ s \in Stream /\ s.curword \in SUBSET Nat /\ c \in Nat /\ o \in Nat
      /\ c <= WordBits /\ o + c <= Bound /\ (o + c) % ByteBits = 0
      /\ s.curword \subseteq 0..(WordBits - 1)
      /\ \A b \in Nat : b < c => (b \in s.curword <=> o + b \in data)
      /\ (\A b \in s.curword : b < c) \/ o + c = Bound
  BY DEF Sound, Stream
<1>2. WordBits \in Nat /\ Bound \in Nat /\ data \in SUBSET Nat
  BY Widths
<1>3. ASSUME NEW p \in Nat, NEW m \in Nat PROVE Window(data, p, m) \in SUBSET Nat
  BY <1>2, InWindow
<1>4. CASE n <= c
  <2>1. ReadBits(s, n) = ReadFracBits(s, n)
    BY <1>4 DEF ReadBits
  <2>2. LET r == ReadFracBits(s, n) IN
        /\ Sound(r[1]) /\ r[1].fatal = s.fatal /\ r[1].bit_offset = s.bit_offset + n
        /\ r[2] = Window(data, s.bit_offset, n)
    BY <1>4, FracReads
  <2>3. s.bit_offset + n <= Bound
    BY <1>1, <1>2, <1>4
  <2>4. ReadFracBits(s, n)[1] \in Stream
    BY <2>2 DEF Sound
  <2> QED BY <1>1, <1>2, <1>3, <2>1, <2>2, <2>3, <2>4
<1>5. CASE n > c
  <2>1. ReadBits(s, n) = <<rest[1], s.curword \cup ShiftLeft(rest[2], c)>>
    BY <1>1, <1>5 DEF ReadBits
  <2>2. /\ s2 \in Stream /\ s2.bit_offset = o + c /\ s2.curword = s.curword
        /\ s2.fatal = s.fatal
    BY <1>1 DEF Stream
  <2>3. /\ f \in Stream /\ Sound(f) /\ ~f.fatal /\ f.bit_offset = o + c
        /\ f.curword_bits = WordBits \/ f.bit_offset + f.curword_bits = Bound
    <3> HIDE DEF s2, o, c
    <3> QED BY <1>1, <2>2, Fills
  <2>4. f.curword_bits \in Nat /\ f.bit_offset + f.curword_bits <= Bound
    BY <2>3 DEF Sound, Stream
  <2> DEFINE m == n - c
  <2>5. m \in Nat /\ m > 0 /\ m <= WordBits /\ o + c + m = o + n
    BY <1>1, <1>2, <1>5
  <2> HIDE DEF o, c, s2, f, m
  <2>6. CASE m <= f.curword_bits
    <3>1. /\ Sound(rest[1]) /\ rest[1].fatal = f.fatal /\ rest[1].bit_offset = o + c + m
          /\ rest[2] = Window(data, o + c, m)
      BY <2>3, <2>5, <2>6, FracReads DEF m
    <3>2. o + n <= Bound
      BY <1>1, <1>2, <2>3, <2>4, <2>5, <2>6
    <3>3. \A b \in s.curword : b < c
      BY <1>1, <1>2, <2>3, <2>4, <2>5, <2>6
    <3>4. s.curword \cup ShiftLeft(rest[2], c) = Window(data, o, n)
      <4>1. \A b : b \in rest[2] <=> b \in Nat /\ b < m /\ o + c + b \in data
        <5>1. o + c \in Nat
          BY <1>1
        <5> QED BY <1>2, <2>5, <3>1, <5>1, InWindow
      <4>2. rest[2] \in SUBSET Nat
        BY <4>1
      <4>3. \A b : b \in ShiftLeft(rest[2], c) <=> b \in Nat /\ b >= c /\ b - c \in rest[2]
        BY <1>1, <4>2, InShiftLeft
      <4>4. \A b : b \in Window(data, o, n) <=> b \in Nat /\ b < n /\ o + b \in data
        BY <1>1, <1>2, InWindow
      <4>5. ASSUME NEW b \in Nat
            PROVE  b \in s.curword \cup ShiftLeft(rest[2], c) <=> b < n /\ o + b \in data
        <5>1. CASE b < c
          BY <1>1, <1>5, <4>3, <5>1
        <5>2. CASE b >= c
          <6>1. b - c \in Nat /\ o + c + (b - c) = o + b /\ (b - c < m <=> b < n)
            BY <1>1, <5>2 DEF m
          <6>2. b \notin s.curword
            BY <1>1, <3>3, <5>2
          <6> QED BY <4>1, <4>3, <5>2, <6>1, <6>2
        <5> QED BY <1>1, <5>1, <5>2
      <4>6. \A b : b \in s.curword \cup ShiftLeft(rest[2], c) => b \in Nat
        BY <1>1, <4>3
      <4>7. \A b : b \in s.curword \cup ShiftLeft(rest[2], c) <=> b \in Window(data, o, n)
        BY <4>4, <4>5, <4>6
      <4> QED BY <4>7
    <3>5. rest[1] \in Stream
      BY <3>1 DEF Sound
    <3> HIDE DEF rest
    <3>6. Window(data, o, n) \in SUBSET Nat
      BY <1>1, <1>3
    <3>7. /\ ReadBits(s, n)[1] = rest[1] /\ ReadBits(s, n)[2] = Window(data, o, n)
      BY <2>1, <3>4
    <3>8. /\ Sound(rest[1]) /\ ~rest[1].fatal /\ rest[1].bit_offset = o + n
      BY <2>3, <2>5, <3>1
    <3> QED BY <1>1, <1>2, <3>2, <3>5, <3>6, <3>7, <3>8 DEF o
  <2>7. CASE ~(m <= f.curword_bits)
    <3>1. m > f.curword_bits
      BY <2>4, <2>5, <2>7
    <3>2. rest[1] \in Stream /\ rest[1].fatal /\ rest[2] = {}
      BY <2>3, <2>5, <3>1, FracFails DEF m
    <3>3. ~(o + n <= Bound)
      BY <1>1, <1>2, <2>3, <2>4, <2>5, <2>7
    <3>4. ShiftLeft({}, c) = {}
      BY DEF ShiftLeft
    <3> HIDE DEF rest
    <3>5. s.curword \cup ShiftLeft(rest[2], c) \in SUBSET Nat
      BY <1>1, <3>2, <3>4
    <3>6. ReadBits(s, n)[1] = rest[1] /\ ReadBits(s, n)[2] \in SUBSET Nat
      BY <2>1, <3>5
    <3> QED BY <3>2, <3>3, <3>6 DEF o
  <2> QED BY <2>6, <2>7
<1> QED BY <1>1, <1>4, <1>5

\* pn_bitstream_seek_bit moves to the bit, or fails behind the end of the buffer.
LEMMA Seeks ==
  ASSUME WidthsAssumption, BufferOK, NEW s, Sound(s), ~s.fatal, NEW p \in Nat
  PROVE  LET t == SeekBit(s, p) IN
         /\ t \in Stream
         /\ p <= Bound => Sound(t) /\ ~t.fatal /\ t.bit_offset = p
         /\ p > Bound => t.fatal
<1> DEFINE a == (p \div WordBits) * WordBits
           r == p % WordBits
           s2 == [s EXCEPT !.bit_offset = a]
           f == FillCurword(s2)
<1>1. /\ ByteBits \in Nat /\ ByteBits > 0 /\ WordBytes \in Nat /\ WordBits \in Nat /\ WordBits > 0
      /\ WordBits = ByteBits * WordBytes /\ Bound \in Nat
  BY Widths
<1>2. a \in Nat /\ a <= p /\ p < a + WordBits /\ r = p - a /\ r \in Nat
  <2>1. /\ (p \div WordBits) * WordBits \in 0..p
        /\ p < (p \div WordBits) * WordBits + WordBits
    BY <1>1, RoundDown
  <2>2. p \div WordBits \in Nat /\ p = WordBits * (p \div WordBits) + (p % WordBits)
        /\ p % WordBits \in 0..(WordBits - 1)
    BY <1>1, DivMod
  <2>3. WordBits * (p \div WordBits) = (p \div WordBits) * WordBits
    BY <1>1, <2>2
  <2> HIDE DEF a, r
  <2>4. p = a + r /\ a \in 0..p /\ p < a + WordBits /\ r \in Nat
    BY <1>1, <2>1, <2>2, <2>3 DEF a, r
  <2> QED BY <2>4
<1>3. a % ByteBits = 0
  <2> DEFINE k == p \div WordBits
  <2>1. k \in Nat
    BY <1>1, DivMod
  <2> HIDE DEF k
  <2>2. a = ByteBits * (WordBytes * k) /\ WordBytes * k \in Nat
    BY <1>1, <2>1 DEF k
  <2> DEFINE w == WordBytes * k
  <2>3. a = ByteBits * w /\ w \in Nat
    BY <2>2
  <2> HIDE DEF w, a
  <2> QED BY <1>1, <2>3, DivExact
<1> HIDE DEF a, r
<1>4. s \in Stream /\ s.curword \subseteq 0..(WordBits - 1)
  BY DEF Sound
<1>5. s2 \in Stream /\ s2.bit_offset = a /\ s2.curword = s.curword /\ s2.fatal = s.fatal
  BY <1>2, <1>4 DEF Stream
<1> HIDE DEF s2
<1>6. /\ f \in Stream
      /\ a > Bound => f.fatal
      /\ a <= Bound =>
           /\ Sound(f) /\ ~f.fatal /\ f.bit_offset = a
           /\ f.curword_bits = WordBits \/ f.bit_offset + f.curword_bits = Bound
  BY <1>3, <1>4, <1>5, Fills
<1>7. SeekBit(s, p) = IF r = 0 \/ f.fatal THEN f ELSE ReadFracBits(f, r)[1]
  BY DEF SeekBit, s2, a, r
<1> HIDE DEF f
<1>8. CASE a > Bound
  BY <1>1, <1>2, <1>6, <1>7, <1>8
<1>9. CASE a <= Bound /\ r = 0
  BY <1>1, <1>2, <1>6, <1>7, <1>9
<1>10. CASE a <= Bound /\ r # 0
  <2>1. /\ Sound(f) /\ ~f.fatal /\ f.bit_offset = a
        /\ f.curword_bits = WordBits \/ f.bit_offset + f.curword_bits = Bound
    BY <1>6, <1>10
  <2>2. f.curword_bits \in Nat /\ f.bit_offset + f.curword_bits <= Bound
    BY <2>1 DEF Sound, Stream
  <2>3. SeekBit(s, p) = ReadFracBits(f, r)[1]
    BY <1>7, <1>10, <2>1
  <2>4. CASE r <= f.curword_bits
    <3>1. LET x == ReadFracBits(f, r) IN
          Sound(x[1]) /\ x[1].fatal = f.fatal /\ x[1].bit_offset = a + r
      BY <1>2, <2>1, <2>4, FracReads
    <3>2. a + r = p /\ p <= Bound
      BY <1>1, <1>2, <2>1, <2>2, <2>4
    <3>3. ReadFracBits(f, r)[1] \in Stream
      BY <3>1 DEF Sound
    <3> QED BY <1>1, <2>1, <2>3, <3>1, <3>2, <3>3
  <2>5. CASE ~(r <= f.curword_bits)
    <3>1. r > f.curword_bits
      BY <1>2, <2>2, <2>5
    <3>2. SeekBit(s, p) \in Stream /\ SeekBit(s, p).fatal
      BY <1>2, <1>6, <2>3, <3>1, FracFails
    <3>3. ~(p <= Bound)
      BY <1>1, <1>2, <2>1, <2>2, <2>5
    <3> QED BY <3>2, <3>3
  <2> QED BY <2>4, <2>5
<1> QED BY <1>1, <1>2, <1>8, <1>9, <1>10

-----------------------------------------------------------------------------
(* Variable bit rate fields.                                                 *)

\* The states of the loop, its first one, and one round of it.
LoopStates ==
  {x \in [s : Stream, value : SUBSET Nat, more : BOOLEAN, shift : Nat] :
     Sound(x.s) \/ x.s.fatal}

LoopStart(s) == [s |-> s, value |-> {}, more |-> TRUE, shift |-> 0]

OneMore(x, n) ==
  LET piece == ReadBits(x.s, n)
  IN  IF ~x.more \/ x.s.fatal THEN x
      ELSE [s     |-> piece[1],
            value |-> x.value \cup
                        Low(ShiftLeft(Low(piece[2], n - 1), x.shift), 2 * WordBits),
            more  |-> n - 1 \in piece[2],
            shift |-> x.shift + n - 1]

\* The rounds of the loop: as many as have their place in two words.
Rounds(n) == (2 * WordBits + n - 2) \div (n - 1)

\* What the pieces 0..(k - 1) from position o on say, and that each is followed by another.
PieceAt(o, n, i) == ShiftLeft(Window(data, o + n * i, n - 1), (n - 1) * i)
Pieces(o, n, k) == Low(UNION {PieceAt(o, n, i) : i \in 0..(k - 1)}, 2 * WordBits)
Tops(o, n, k) == \A i \in 0..(k - 1) : o + n * i + n - 1 \in data

\* The loop is at piece k; it has ended with piece j; it has failed at piece j.
Going(x, o, n, k) ==
  /\ x.more /\ ~x.s.fatal /\ Sound(x.s) /\ x.s.bit_offset = o + n * k
  /\ x.shift = (n - 1) * k /\ x.value = Pieces(o, n, k) /\ Tops(o, n, k)
Ended(x, o, n, j) ==
  /\ ~x.more /\ ~x.s.fatal /\ Sound(x.s) /\ x.s.bit_offset = o + n * (j + 1)
  /\ x.value = Pieces(o, n, j + 1) /\ Tops(o, n, j) /\ o + n * j + n - 1 \notin data
Failed(x, o, n, j) == x.s.fatal /\ Tops(o, n, j) /\ o + n * (j + 1) > Bound

\* One more piece.
LEMMA PiecesGrow ==
  ASSUME NEW o, NEW n, NEW k \in Nat
  PROVE  /\ Pieces(o, n, 0) = {}
         /\ Pieces(o, n, k + 1) = Pieces(o, n, k) \cup Low(PieceAt(o, n, k), 2 * WordBits)
<1>1. ASSUME NEW m, NEW b
      PROVE  b \in Pieces(o, n, m) <=>
               b < 2 * WordBits /\ \E i \in 0..(m - 1) : b \in PieceAt(o, n, i)
  BY Zenon DEF Pieces, Low
<1>2. \A i : i \in 0..((k + 1) - 1) <=> i \in 0..(k - 1) \/ i = k
  OBVIOUS
<1>3. \A i : i \notin 0..(0 - 1)
  OBVIOUS
<1>4. \A b : b \in Low(PieceAt(o, n, k), 2 * WordBits) <=> b \in PieceAt(o, n, k) /\ b < 2 * WordBits
  BY Zenon DEF Low
<1>5. \A b : b \notin Pieces(o, n, 0)
  BY <1>1, <1>3, Zenon
<1>6. \A b : b \in Pieces(o, n, k + 1) <=>
              b \in Pieces(o, n, k) \/ b \in Low(PieceAt(o, n, k), 2 * WordBits)
  BY <1>1, <1>2, <1>4, Zenon
<1> QED BY <1>5, <1>6, Zenon

\* A piece as the loop takes it from the stream.
LEMMA PieceRead ==
  ASSUME WidthsAssumption, BufferOK, NEW o \in Nat, NEW n \in Nat, n >= 2, NEW k \in Nat
  PROVE  LET w == Window(data, o + n * k, n) IN
         /\ ShiftLeft(Low(w, n - 1), (n - 1) * k) = PieceAt(o, n, k)
         /\ n - 1 \in w <=> o + n * k + n - 1 \in data
<1>1. data \in SUBSET Nat /\ n - 1 \in Nat /\ n - 1 <= n /\ n - 1 < n
  BY Widths
<1> DEFINE p == o + n * k
<1>2. p \in Nat
  OBVIOUS
<1>3. p + (n - 1) = o + n * k + n - 1
  BY <1>2
<1> HIDE DEF p
<1>4. Low(Window(data, p, n), n - 1) = Window(data, p, n - 1)
  BY <1>1, <1>2, LowWindow
<1>5. n - 1 \in Window(data, p, n) <=> p + (n - 1) \in data
  BY <1>1, <1>2, InWindow
<1> QED BY <1>3, <1>4, <1>5 DEF PieceAt, p

\* A round leads from one state of the loop to another.
LEMMA RoundTypes ==
  ASSUME WidthsAssumption, BufferOK, NEW n \in Nat, n >= 2, n <= WordBits, NEW x \in LoopStates
  PROVE  OneMore(x, n) \in LoopStates
<1> DEFINE piece == ReadBits(x.s, n)
<1>1. /\ x.s \in Stream /\ x.value \in SUBSET Nat /\ x.more \in BOOLEAN /\ x.shift \in Nat
      /\ Sound(x.s) \/ x.s.fatal
  BY DEF LoopStates
<1>2. CASE ~x.more \/ x.s.fatal
  BY <1>2 DEF OneMore
<1>3. CASE ~(~x.more \/ x.s.fatal)
  <2>1. /\ piece[1] \in Stream /\ piece[2] \in SUBSET Nat
        /\ x.s.bit_offset + n <= Bound => Sound(piece[1])
        /\ x.s.bit_offset + n > Bound => piece[1].fatal
    BY <1>1, <1>3, Reads
  <2>2. Sound(piece[1]) \/ piece[1].fatal
    <3>1. x.s.bit_offset + n \in Nat /\ Bound \in Nat
      BY <1>1, Widths DEF Stream
    <3> QED BY <2>1, <3>1
  <2> DEFINE v == x.value \cup Low(ShiftLeft(Low(piece[2], n - 1), x.shift), 2 * WordBits)
  <2>3. v \in SUBSET Nat
    <3>1. Low(piece[2], n - 1) \in SUBSET Nat
      BY <2>1 DEF Low
    <3>2. ShiftLeft(Low(piece[2], n - 1), x.shift) \in SUBSET Nat
      BY <1>1, <3>1, InShiftLeft
    <3> QED BY <1>1, <3>2 DEF Low
  <2>4. x.shift + n - 1 \in Nat
    BY <1>1
  <2>5. OneMore(x, n) = [s |-> piece[1], value |-> v, more |-> n - 1 \in piece[2],
                         shift |-> x.shift + n - 1]
    BY <1>3 DEF OneMore
  <2> HIDE DEF piece, v
  <2> QED BY <2>1, <2>2, <2>3, <2>4, <2>5 DEF LoopStates
<1> QED BY <1>2, <1>3

\* A round of a loop that is going.
LEMMA RoundStep ==
  ASSUME WidthsAssumption, BufferOK, NEW n \in Nat, n >= 2, n <= WordBits,
         NEW x \in LoopStates, NEW o \in Nat, NEW k \in Nat, Going(x, o, n, k)
  PROVE  LET y == OneMore(x, n) IN
         Going(y, o, n, k + 1) \/ Ended(y, o, n, k) \/ Failed(y, o, n, k)
<1> DEFINE piece == ReadBits(x.s, n)
           y == OneMore(x, n)
           q == o + n * k
<1>1. /\ Sound(x.s) /\ ~x.s.fatal /\ x.more /\ x.s.bit_offset = q
      /\ x.shift = (n - 1) * k /\ x.value = Pieces(o, n, k) /\ Tops(o, n, k)
  BY DEF Going
<1>2. /\ y.s = piece[1] /\ y.more = (n - 1 \in piece[2])
      /\ y.value = x.value \cup Low(ShiftLeft(Low(piece[2], n - 1), x.shift), 2 * WordBits)
      /\ y.shift = x.shift + n - 1
  BY <1>1 DEF OneMore
<1> HIDE DEF y
<1>3. /\ q + n <= Bound => /\ Sound(piece[1]) /\ ~piece[1].fatal
                           /\ piece[1].bit_offset = q + n
                           /\ piece[2] = Window(data, q, n)
      /\ q + n > Bound => piece[1].fatal
  BY <1>1, Reads
<1>4. q \in Nat /\ Bound \in Nat /\ n - 1 \in Nat
  BY Widths
<1>5. n * (k + 1) = n * k + n /\ (n - 1) * (k + 1) = (n - 1) * k + (n - 1) /\ n * k \in Nat
      /\ (n - 1) * k \in Nat
  BY <1>4
<1>6. o + n * (k + 1) = q + n
  BY <1>5
<1>7. CASE q + n > Bound
  BY <1>1, <1>2, <1>3, <1>6, <1>7 DEF y, Failed
<1>8. CASE q + n <= Bound
  <2>1. /\ Sound(y.s) /\ ~y.s.fatal /\ y.s.bit_offset = q + n /\ piece[2] = Window(data, q, n)
    BY <1>2, <1>3, <1>8
  <2>2. /\ ShiftLeft(Low(piece[2], n - 1), (n - 1) * k) = PieceAt(o, n, k)
        /\ n - 1 \in piece[2] <=> o + n * k + n - 1 \in data
    BY <2>1, PieceRead
  <2>3. y.value = Pieces(o, n, k + 1)
    BY <1>1, <1>2, <2>2, PiecesGrow
  <2>4. y.shift = (n - 1) * (k + 1)
    BY <1>1, <1>2, <1>4, <1>5
  <2>5. CASE n - 1 \in piece[2]
    <3>1. Tops(o, n, k + 1)
      <4>1. ASSUME NEW i \in 0..((k + 1) - 1) PROVE o + n * i + n - 1 \in data
        <5>1. i \in 0..(k - 1) \/ i = k
          OBVIOUS
        <5> QED BY <1>1, <2>2, <2>5, <5>1 DEF Tops
      <4> QED BY <4>1 DEF Tops
    <3> QED BY <1>2, <1>6, <2>1, <2>3, <2>4, <2>5, <3>1 DEF Going, y
  <2>6. CASE n - 1 \notin piece[2]
    BY <1>1, <1>2, <1>6, <2>1, <2>2, <2>3, <2>6 DEF Ended, y
  <2> QED BY <2>5, <2>6
<1> QED BY <1>4, <1>7, <1>8

\* The rounds are those whose piece has its place in two words.
LEMMA RoundsCount ==
  ASSUME WidthsAssumption, BufferOK, NEW n \in Nat, n >= 2
  PROVE  /\ Rounds(n) \in Nat
         /\ \A j \in Nat : /\ j < Rounds(n) <=> (n - 1) * j < 2 * WordBits
                           /\ j < Rounds(n) => j <= 2 * WordBits
<1> DEFINE d == n - 1
           t == 2 * WordBits + n - 2
<1>1. d \in Nat /\ d > 0 /\ d # 0 /\ WordBits \in Nat /\ t \in Nat /\ t = 2 * WordBits + d - 1
  BY Widths
<1>2. Rounds(n) = t \div d
  BY DEF Rounds
<1> HIDE DEF d, t
<1>3. Rounds(n) \in Nat
  BY <1>1, <1>2, DivMod
<1>4. ASSUME NEW j \in Nat
      PROVE  /\ j < Rounds(n) <=> d * j < 2 * WordBits
             /\ j < Rounds(n) => j <= 2 * WordBits
  <2>1. j + 1 <= t \div d <=> d * (j + 1) <= t
    <3>1. j + 1 \in Nat
      OBVIOUS
    <3> QED BY <1>1, <3>1, DivAtLeast
  <2>2. d * (j + 1) = d * j + d /\ d * j \in Nat
    BY <1>1
  <2>3. j < Rounds(n) <=> j + 1 <= t \div d
    BY <1>2, <1>3
  <2>4. d * (j + 1) <= t <=> d * j < 2 * WordBits
    BY <1>1, <2>2
  <2>5. j <= d * j
    <3>1. PICK e \in Nat : d = e + 1
      <4>1. d - 1 \in Nat /\ d = (d - 1) + 1
        BY <1>1
      <4> QED BY <4>1
    <3>2. d * j = e * j + j /\ e * j \in Nat
      BY <3>1
    <3> QED BY <3>2
  <2> QED BY <1>1, <2>1, <2>2, <2>3, <2>4, <2>5
<1> QED BY <1>3, <1>4 DEF d

\* The loop is its rounds, one after the other.
LEMMA LoopUnrolled ==
  ASSUME WidthsAssumption, BufferOK, NEW n \in Nat, n >= 2, n <= WordBits,
         NEW s, Sound(s)
  PROVE  \E f : /\ f[0] = LoopStart(s)
                /\ \A k \in 0..Rounds(n) : f[k] \in LoopStates
                /\ \A k \in 1..Rounds(n) : f[k] = OneMore(f[k - 1], n)
                /\ VbrLoop(s, n) = f[Rounds(n)]
<1> DEFINE S == LoopStates
           g == [x \in S |-> OneMore(x, n)]
           N == Rounds(n)
           W(f) == f = [k \in 0..N |->
                    IF k = 0 THEN [s |-> s, value |-> {}, more |-> TRUE, shift |-> 0]
                    ELSE LET was   == f[k - 1]
                             piece == ReadBits(was.s, n)
                         IN  IF ~was.more \/ was.s.fatal THEN was
                             ELSE [s     |-> piece[1],
                                   value |-> was.value \cup
                                       Low(ShiftLeft(Low(piece[2], n - 1), was.shift),
                                           2 * WordBits),
                                   more  |-> n - 1 \in piece[2],
                                   shift |-> was.shift + n - 1]]
<1>1. LoopStart(s) \in S
  <2>1. s \in Stream
    BY DEF Sound
  <2> QED BY <2>1 DEF LoopStates, LoopStart
<1>2. g \in [S -> S]
  <2> HIDE DEF S
  <2>1. \A x \in S : OneMore(x, n) \in S
    BY RoundTypes DEF S
  <2> QED BY <2>1
<1>3. N \in Nat
  BY RoundsCount
<1>4. PICK f : Repeats(f, N, g, LoopStart(s)) /\ \A k \in 0..N : f[k] \in S
  <2> HIDE DEF S, g, N
  <2> QED BY <1>1, <1>2, <1>3, Repeated
<1>5. /\ f = [k \in 0..N |-> f[k]] /\ f[0] = LoopStart(s)
      /\ \A k \in 1..N : f[k] = g[f[k - 1]]
  BY <1>4 DEF Repeats
<1>6. ASSUME NEW k \in 1..N PROVE f[k] = OneMore(f[k - 1], n)
  <2>1. k - 1 \in 0..N
    BY <1>3
  <2> HIDE DEF S, N
  <2> QED BY <1>4, <1>5, <2>1
<1> HIDE DEF g
<1>7. W(f)
  <2>1. \A k \in 0..N : f[k] = IF k = 0 THEN LoopStart(s) ELSE OneMore(f[k - 1], n)
    <3>1. \A k \in 0..N : k # 0 => k \in 1..N
      BY <1>3
    <3> QED BY <1>5, <1>6, <3>1
  <2>2. f = [k \in 0..N |-> IF k = 0 THEN LoopStart(s) ELSE OneMore(f[k - 1], n)]
    <3> HIDE DEF N
    <3> QED BY <1>5, <2>1, Zenon
  <2> QED BY <2>2, Zenon DEF LoopStart, OneMore
<1>8. VbrLoop(s, n) = (CHOOSE c : W(c))[N]
  BY Zenon DEF VbrLoop, Rounds
<1>9. W(CHOOSE c : W(c))
  <2> HIDE DEF W
  <2> QED BY <1>7
<1> DEFINE h == CHOOSE c : W(c)
<1>10. /\ h[0] = LoopStart(s)
       /\ \A k \in 1..N : h[k] = OneMore(h[k - 1], n)
  <2>1. h = [k \in 0..N |-> IF k = 0 THEN LoopStart(s) ELSE OneMore(h[k - 1], n)]
    <3> HIDE DEF h, N
    <3>1. W(h)
      BY <1>9 DEF h
    <3> QED BY <3>1, Zenon DEF LoopStart, OneMore
  <2>2. 0 \in 0..N /\ \A k \in 1..N : k \in 0..N /\ k # 0
    BY <1>3
  <2> HIDE DEF h, N
  <2> QED BY <2>1, <2>2
<1>11. \A k \in 0..N : h[k] \in S
  <2> DEFINE Good == {k \in 0..N : h[k] \in S}
  <2> HIDE DEF h, S
  <2>1. 0 \in Good
    BY <1>1, <1>3, <1>10
  <2>2. ASSUME NEW k \in 0..N, k < N, k \in Good PROVE k + 1 \in Good
    <3>1. k + 1 \in 1..N /\ k + 1 \in 0..N /\ (k + 1) - 1 = k
      BY <1>3, <2>2
    <3>2. h[k + 1] = OneMore(h[k], n)
      BY <1>10, <3>1
    <3>3. h[k] \in LoopStates
      BY <2>2 DEF S
    <3> QED BY <3>1, <3>2, <3>3, RoundTypes DEF S
  <2>3. \A k \in 0..N : k \in Good
    <3> HIDE DEF Good, N
    <3> QED BY <1>3, <2>1, <2>2, NatSetUpTo
  <2> QED BY <2>3
<1> HIDE DEF h
<1> QED BY <1>8, <1>10, <1>11 DEF h

\* The loop ends with the first piece that no other follows, fails where the buffer has no
\* whole piece, or has taken as many as have their place.
LEMMA LoopEnds ==
  ASSUME WidthsAssumption, BufferOK, NEW n \in Nat, n >= 2, n <= WordBits,
         NEW s, Sound(s), ~s.fatal
  PROVE  LET x == VbrLoop(s, n)
             o == s.bit_offset IN
         /\ x \in LoopStates
         /\ \/ Going(x, o, n, Rounds(n))
            \/ \E j \in Nat : j < Rounds(n) /\ (Ended(x, o, n, j) \/ Failed(x, o, n, j))
<1> DEFINE o == s.bit_offset
           N == Rounds(n)
<1>1. N \in Nat /\ o \in Nat
  BY RoundsCount DEF Sound, Stream
<1>2. PICK f : /\ f[0] = LoopStart(s)
               /\ \A k \in 0..N : f[k] \in LoopStates
               /\ \A k \in 1..N : f[k] = OneMore(f[k - 1], n)
               /\ VbrLoop(s, n) = f[N]
  BY LoopUnrolled
<1> DEFINE Good == {k \in 0..N : \/ Going(f[k], o, n, k)
                                 \/ \E j \in Nat : j < k /\ (Ended(f[k], o, n, j)
                                                             \/ Failed(f[k], o, n, j))}
<1>3. 0 \in Good
  <2>1. Going(LoopStart(s), o, n, 0)
    <3>1. o + n * 0 = o /\ (n - 1) * 0 = 0
      BY <1>1
    <3>2. Tops(o, n, 0)
      BY DEF Tops
    <3>3. Pieces(o, n, 0) = {}
      BY PiecesGrow
    <3> QED BY <3>1, <3>2, <3>3 DEF Going, LoopStart
  <2> QED BY <1>1, <1>2, <2>1
<1>4. ASSUME NEW k \in 0..N, k < N, k \in Good PROVE k + 1 \in Good
  <2>1. k + 1 \in 1..N /\ k + 1 \in 0..N /\ (k + 1) - 1 = k /\ k \in Nat
    BY <1>1, <1>4
  <2>2. f[k] \in LoopStates /\ f[k + 1] = OneMore(f[k], n)
    BY <1>2, <2>1
  <2> HIDE DEF o
  <2>3. CASE Going(f[k], o, n, k)
    <3>1. \/ Going(f[k + 1], o, n, k + 1) \/ Ended(f[k + 1], o, n, k)
          \/ Failed(f[k + 1], o, n, k)
      BY <1>1, <2>1, <2>2, <2>3, RoundStep
    <3>2. k < k + 1
      BY <2>1
    <3> QED BY <2>1, <3>1, <3>2
  <2>4. CASE \E j \in Nat : j < k /\ (Ended(f[k], o, n, j) \/ Failed(f[k], o, n, j))
    <3>1. PICK j \in Nat : j < k /\ (Ended(f[k], o, n, j) \/ Failed(f[k], o, n, j))
      BY <2>4
    <3>2. ~f[k].more \/ f[k].s.fatal
      BY <3>1 DEF Ended, Failed
    <3>3. f[k + 1] = f[k]
      BY <2>2, <3>2 DEF OneMore
    <3>4. j < k + 1
      BY <2>1, <3>1
    <3> QED BY <2>1, <3>1, <3>3, <3>4
  <2> QED BY <1>4, <2>3, <2>4
<1>5. N \in Good
  <2> HIDE DEF Good, N
  <2>1. \A k \in 0..N : k \in Good
    BY <1>1, <1>3, <1>4, NatSetUpTo
  <2> QED BY <1>1, <2>1
<1>6. N \in 0..N
  BY <1>1
<1> QED BY <1>2, <1>5, <1>6

\* A check leaves a stream that passes it alone.
LEMMA Checked ==
  ASSUME NEW s \in Stream, NEW c \in BOOLEAN
  PROVE  LET t == [s EXCEPT !.fatal = @ \/ c] IN
         /\ t \in Stream /\ t.fatal = (s.fatal \/ c)
         /\ ~s.fatal /\ ~c => t = s
<1>1. s.fatal \in BOOLEAN
  BY DEF Stream
<1> DEFINE e == s.fatal \/ c
<1>2. e \in BOOLEAN
  OBVIOUS
<1>3. [s EXCEPT !.fatal = @ \/ c] = [s EXCEPT !.fatal = e]
  OBVIOUS
<1>4. ~s.fatal /\ ~c => e = s.fatal
  BY <1>1
<1> HIDE DEF e
<1>5. [s EXCEPT !.fatal = e] \in Stream /\ [s EXCEPT !.fatal = e].fatal = e
  BY <1>2 DEF Stream
<1>6. e = s.fatal => [s EXCEPT !.fatal = e] = s
  BY DEF Stream
<1> QED BY <1>3, <1>4, <1>5, <1>6 DEF e

-----------------------------------------------------------------------------
(* The cursor.                                                               *)

\* The instance's sets of bits are this module's, and its field from position o on, with
\* last piece j, is made of the pieces 0..j.
LEMMA SameBits ==
  /\ \A w, n : Cursor!Low(w, n) = Low(w, n)
  /\ \A d, p, n : Cursor!Window(d, p, n) = Window(d, p, n)
  /\ \A w, n : Cursor!ShiftLeft(w, n) = ShiftLeft(w, n)
  /\ \A w : Cursor!Narrow(w) <=> FitsInWord(w)
  /\ Cursor!End = Bound
BY Zenon DEF Cursor!Low, Low, Cursor!Window, Window, Cursor!ShiftLeft, ShiftLeft,
             Cursor!Narrow, FitsInWord, Cursor!End, Bound

\* The field that the cursor reads is made of the pieces up to its last one.
LEMMA FieldPieces ==
  ASSUME NEW n, Cursor!LastPiece(n) \in Nat
  PROVE  Cursor!Field(n) = Pieces(bs.bit_offset, n, Cursor!LastPiece(n) + 1)
<1> DEFINE j == Cursor!LastPiece(n)
           o == bs.bit_offset
<1>1. (j + 1) - 1 = j
  OBVIOUS
<1>2. \A k : Cursor!ShiftLeft(Cursor!Window(data, o + n * k, n - 1), (n - 1) * k) = PieceAt(o, n, k)
  BY SameBits, Zenon DEF PieceAt
<1>3. Cursor!Field(n) =
        Low(UNION {Cursor!ShiftLeft(Cursor!Window(data, o + n * k, n - 1), (n - 1) * k) :
                     k \in 0..j}, 2 * WordBits)
  BY SameBits, Zenon DEF Cursor!Field
<1> HIDE DEF j, o
<1>4. {Cursor!ShiftLeft(Cursor!Window(data, o + n * k, n - 1), (n - 1) * k) : k \in 0..j}
        = {PieceAt(o, n, k) : k \in 0..j}
  BY <1>2, Zenon
<1> QED BY <1>1, <1>3, <1>4, Zenon DEF Pieces, j, o

\* Where the loop ends is where the cursor's field ends.
LEMMA LastPieceFound ==
  ASSUME WidthsAssumption, BufferOK, NEW n \in Nat, n >= 2, n <= WordBits,
         Sound(bs), ~bs.fatal
  PROVE  LET x == VbrLoop(bs, n)
             o == bs.bit_offset IN
         \/ /\ Cursor!LastPieces(n) # {} /\ Cursor!LastPiece(n) \in Nat
            /\ Ended(x, o, n, Cursor!LastPiece(n))
         \/ Cursor!LastPieces(n) = {} /\ (x.s.fatal \/ x.more)
<1> DEFINE x == VbrLoop(bs, n)
           o == bs.bit_offset
           L == Cursor!LastPieces(n)
<1>1. /\ x \in LoopStates
      /\ \/ Going(x, o, n, Rounds(n))
         \/ \E j \in Nat : j < Rounds(n) /\ (Ended(x, o, n, j) \/ Failed(x, o, n, j))
  BY LoopEnds
<1>2. /\ Rounds(n) \in Nat /\ Bound \in Nat /\ WordBits \in Nat /\ o \in Nat
  BY RoundsCount, Widths DEF Sound, Stream
<1> HIDE DEF x, o
<1>3. \A k : k \in L <=> /\ k \in Nat /\ k < Rounds(n)
                         /\ o + n * (k + 1) <= Bound /\ o + n * k + n - 1 \notin data
  <2>1. ASSUME NEW k
        PROVE  k \in L <=> /\ k \in 0..(2 * WordBits) /\ (n - 1) * k < 2 * WordBits
                           /\ o + n * (k + 1) <= Bound /\ o + n * k + n - 1 \notin data
    BY SameBits, Zenon DEF Cursor!LastPieces, o
  <2>2. \A k : k \in 0..(2 * WordBits) /\ (n - 1) * k < 2 * WordBits <=>
               k \in Nat /\ k < Rounds(n)
    <3>1. \A k \in Nat : /\ k < Rounds(n) <=> (n - 1) * k < 2 * WordBits
                         /\ k < Rounds(n) => k <= 2 * WordBits
      BY RoundsCount
    <3>2. \A k : k \in 0..(2 * WordBits) <=> k \in Nat /\ k <= 2 * WordBits
      BY <1>2
    <3> QED BY <3>1, <3>2, Zenon
  <2> QED BY <2>1, <2>2, Zenon
<1> HIDE DEF L
<1>4. CASE Going(x, o, n, Rounds(n))
  <2>1. ASSUME NEW k \in L PROVE FALSE
    <3>1. k \in 0..(Rounds(n) - 1) /\ o + n * k + n - 1 \notin data
      BY <1>2, <1>3
    <3> QED BY <1>4, <3>1 DEF Going, Tops
  <2>2. x.more
    BY <1>4 DEF Going
  <2> QED BY <2>1, <2>2 DEF L, x
<1>5. CASE \E j \in Nat : j < Rounds(n) /\ Ended(x, o, n, j)
  <2>1. PICK j \in Nat : j < Rounds(n) /\ Ended(x, o, n, j)
    BY <1>5
  <2>2. o + n * (j + 1) <= Bound
    <3>1. x.s.bit_offset = o + n * (j + 1) /\ x.s.curword_bits \in Nat
          /\ x.s.bit_offset + x.s.curword_bits <= Bound /\ x.s.bit_offset \in Nat
      BY <2>1 DEF Ended, Sound, Stream
    <3> DEFINE e == o + n * (j + 1)
    <3>2. x.s.bit_offset = e
      BY <3>1
    <3> HIDE DEF e
    <3>3. e <= Bound
      BY <1>2, <3>1, <3>2
    <3> QED BY <3>3 DEF e
  <2>3. j \in L
    BY <1>3, <2>1, <2>2 DEF Ended
  <2>4. ASSUME NEW k \in L PROVE j <= k
    <3>1. k \in Nat /\ o + n * k + n - 1 \notin data
      BY <1>3
    <3>2. k \notin 0..(j - 1)
      BY <2>1, <3>1 DEF Ended, Tops
    <3> QED BY <3>1, <3>2
  <2>5. Cursor!LastPiece(n) = j
    <3>1. \A m \in L : (\A y \in L : m <= y) => m = j
      <4>1. \A m \in L : m \in Nat
        BY <1>3
      <4> QED BY <2>3, <2>4, <4>1
    <3>2. Cursor!LastPiece(n) = CHOOSE m \in L : \A y \in L : m <= y
      BY Zenon DEF Cursor!LastPiece, Cursor!Min, L
    <3> QED BY <2>3, <2>4, <3>1, <3>2, Zenon
  <2> QED BY <2>1, <2>3, <2>5 DEF L, x, o
<1>6. CASE \E j \in Nat : j < Rounds(n) /\ Failed(x, o, n, j)
  <2>1. PICK j \in Nat : j < Rounds(n) /\ Failed(x, o, n, j)
    BY <1>6
  <2>2. ASSUME NEW k \in L PROVE FALSE
    <3>1. /\ k \in Nat /\ o + n * (k + 1) <= Bound /\ o + n * k + n - 1 \notin data
      BY <1>3
    <3>2. k \notin 0..(j - 1)
      BY <2>1, <3>1 DEF Failed, Tops
    <3>3. j <= k
      BY <3>1, <3>2
    <3>4. n * (j + 1) <= n * (k + 1)
      <4>1. j + 1 \in Nat /\ k + 1 \in Nat /\ j + 1 <= k + 1 /\ n > 0
        BY <3>1, <3>3
      <4> QED BY <4>1, BytesInOrder
    <3> DEFINE p == n * (j + 1)
               q == n * (k + 1)
    <3>5. p \in Nat /\ q \in Nat /\ p <= q /\ o + p > Bound /\ o + q <= Bound
      BY <2>1, <3>1, <3>4 DEF Failed
    <3> HIDE DEF p, q
    <3> QED BY <1>2, <3>5
  <2>3. x.s.fatal
    BY <2>1 DEF Failed
  <2> QED BY <2>2, <2>3 DEF L, x
<1> QED BY <1>1, <1>4, <1>5, <1>6

\* pn_bitstream_read_vbr_uint64 reads the cursor's field, or fails where there is none.
LEMMA VbrReads ==
  ASSUME WidthsAssumption, BufferOK, NEW n \in Nat, n >= 2, n <= WordBits,
         Sound(bs), ~bs.fatal
  PROVE  LET r == VbrUint64(bs, n) IN
         /\ r[1] \in Stream
         /\ Cursor!LastPieces(n) # {} =>
              /\ Sound(r[1]) /\ ~r[1].fatal /\ r[2] = Cursor!Field(n)
              /\ r[1].bit_offset = bs.bit_offset + n * (Cursor!LastPiece(n) + 1)
         /\ Cursor!LastPieces(n) = {} => r[1].fatal
<1> DEFINE x == VbrLoop(bs, n)
           t == [x.s EXCEPT !.fatal = @ \/ x.more]
<1>1. VbrUint64(bs, n) = <<t, x.value>>
  BY DEF VbrUint64
<1>2. x \in LoopStates
  BY LoopEnds
<1> HIDE DEF x
<1>3. x.s \in Stream /\ x.more \in BOOLEAN
  BY <1>2 DEF LoopStates
<1>4. /\ t \in Stream /\ t.fatal = (x.s.fatal \/ x.more)
      /\ ~x.s.fatal /\ ~x.more => t = x.s
  BY <1>3, Checked
<1> HIDE DEF t
<1>5. \/ /\ Cursor!LastPieces(n) # {} /\ Cursor!LastPiece(n) \in Nat
         /\ Ended(x, bs.bit_offset, n, Cursor!LastPiece(n))
      \/ Cursor!LastPieces(n) = {} /\ (x.s.fatal \/ x.more)
  BY LastPieceFound DEF x
<1>6. CASE Cursor!LastPieces(n) = {}
  <2>1. t.fatal
    BY <1>3, <1>4, <1>5, <1>6
  <2>2. VbrUint64(bs, n)[1] = t
    BY <1>1
  <2> QED BY <1>4, <1>6, <2>1, <2>2
<1>7. CASE Cursor!LastPieces(n) # {}
  <2>1. Cursor!LastPiece(n) \in Nat /\ Ended(x, bs.bit_offset, n, Cursor!LastPiece(n))
    BY <1>5, <1>7
  <2>2. /\ ~x.more /\ ~x.s.fatal /\ Sound(x.s)
        /\ x.s.bit_offset = bs.bit_offset + n * (Cursor!LastPiece(n) + 1)
        /\ x.value = Pieces(bs.bit_offset, n, Cursor!LastPiece(n) + 1)
    BY <2>1 DEF Ended
  <2>3. t = x.s
    BY <1>4, <2>2
  <2>4. x.value = Cursor!Field(n)
    BY <2>1, <2>2, FieldPieces
  <2>5. VbrUint64(bs, n)[1] = x.s /\ VbrUint64(bs, n)[2] = Cursor!Field(n)
    BY <1>1, <2>3, <2>4
  <2> QED BY <1>3, <1>7, <2>2, <2>5
<1> QED BY <1>6, <1>7

\* pn_bitstream_read_vbr reads it too when it is a number of one word.
LEMMA VbrWordReads ==
  ASSUME WidthsAssumption, BufferOK, NEW n \in Nat, n >= 2, n <= WordBits,
         Sound(bs), ~bs.fatal
  PROVE  LET r == Vbr(bs, n)
             may == Cursor!LastPieces(n) # {} /\ Cursor!Narrow(Cursor!Field(n)) IN
         /\ r[1] \in Stream
         /\ may =>
              /\ Sound(r[1]) /\ ~r[1].fatal /\ r[2] = Cursor!Low(Cursor!Field(n), WordBits)
              /\ r[1].bit_offset = bs.bit_offset + n * (Cursor!LastPiece(n) + 1)
         /\ ~may => r[1].fatal
<1> DEFINE w == VbrUint64(bs, n)
           c == ~FitsInWord(w[2])
           t == [w[1] EXCEPT !.fatal = @ \/ c]
<1>1. Vbr(bs, n) = <<t, Low(w[2], WordBits)>>
  BY DEF Vbr
<1>2. /\ w[1] \in Stream
      /\ Cursor!LastPieces(n) # {} =>
           /\ Sound(w[1]) /\ ~w[1].fatal /\ w[2] = Cursor!Field(n)
           /\ w[1].bit_offset = bs.bit_offset + n * (Cursor!LastPiece(n) + 1)
      /\ Cursor!LastPieces(n) = {} => w[1].fatal
  BY VbrReads
<1>3. c \in BOOLEAN
  BY DEF FitsInWord
<1>4. /\ Cursor!Narrow(w[2]) <=> ~c
      /\ Cursor!Low(w[2], WordBits) = Low(w[2], WordBits)
  BY SameBits, Zenon
<1> HIDE DEF w, c
<1>5. t \in Stream /\ t.fatal = (w[1].fatal \/ c) /\ (~w[1].fatal /\ ~c => t = w[1])
  BY <1>2, <1>3, Checked
<1> HIDE DEF t
<1>6. Vbr(bs, n)[1] = t /\ Vbr(bs, n)[2] = Low(w[2], WordBits)
  BY <1>1
<1> QED BY <1>2, <1>3, <1>4, <1>5, <1>6

-----------------------------------------------------------------------------
(* The steps.                                                                *)

\* The inductive invariant.
Inv == BufferOK /\ Sound(bs)

\* An operation that fails, or leaves a sound stream, keeps the invariant, and is the
\* answer of the cursor that it stands for.
LEMMA ReturnStep ==
  ASSUME WidthsAssumption, Inv, NEW op, NEW t \in Stream, NEW v, NEW may \in BOOLEAN,
         NEW value, NEW newpos, Return(op, t, v),
         may => Sound(t) /\ ~t.fatal /\ v = value /\ t.bit_offset = newpos,
         ~may => t.fatal
  PROVE  Inv' /\ Cursor!Answer(may, op, value, newpos)
<1> DEFINE failed == [NewStream EXCEPT !.fatal = TRUE]
<1>1. /\ failed \in Stream /\ failed.fatal = TRUE /\ failed.bit_offset = 0
      /\ failed.curword = {} /\ failed.curword_bits = 0
  <2>1. /\ NewStream \in Stream /\ NewStream.bit_offset = 0
        /\ NewStream.curword = {} /\ NewStream.curword_bits = 0
    BY DEF NewStream, Stream
  <2> QED BY <2>1 DEF Stream
<1> HIDE DEF failed
<1>2. Sound(failed)
  <2>1. ByteBits \in Nat /\ ByteBits > 0 /\ WordBits \in Nat /\ Bound \in Nat
    BY Widths DEF Inv
  <2>2. 0 % ByteBits = 0
    BY <2>1
  <2> QED BY <1>1, <2>1, <2>2 DEF Sound
<1>3. /\ ~bs.fatal /\ data' = data /\ data_len' = data_len
      /\ bs' = IF t.fatal THEN failed ELSE t
      /\ out' = IF t.fatal THEN <<op>> ELSE <<op, v>>
  BY DEF Return, failed
<1>4. Sound(bs') /\ bs'.fatal = ~may
  <2>1. t.fatal \in BOOLEAN
    BY DEF Stream
  <2> QED BY <1>1, <1>2, <1>3, <2>1
<1>5. Inv'
  <2>1. Bound' = Bound
    BY <1>3 DEF Bound
  <2>2. Sound(bs)'
    BY <1>3, <1>4, <2>1 DEF Sound
  <2>3. BufferOK'
    BY <1>3 DEF Inv, BufferOK
  <2> QED BY <2>2, <2>3 DEF Inv
<1>6. /\ out'[1] = op
      /\ out' = IF may THEN <<op, value>> ELSE <<op>>
      /\ bs'.bit_offset = IF may THEN newpos ELSE 0
  BY <1>1, <1>3
<1>7. Cursor!Answer(may, op, value, newpos)
  BY <1>3, <1>4, <1>6, Zenon DEF Cursor!Answer
<1> QED BY <1>5, <1>7

\* Each operation keeps the invariant and is an operation of the cursor.
LEMMA ReadStep ==
  ASSUME WidthsAssumption, Inv, NEW n \in 0..WordBits, Read(n)
  PROVE  Inv' /\ Cursor!Read(n)
<1> DEFINE r == ReadBits(bs, n)
           may == bs.bit_offset + n <= Bound
<1>1. Return(<<"read", n>>, r[1], r[2])
  BY DEF Read
<1>2. ~bs.fatal
  BY <1>1 DEF Return
<1>3. WordBits \in Nat /\ Bound \in Nat /\ n \in Nat /\ n <= WordBits /\ bs.bit_offset \in Nat
  BY Widths DEF Inv, Sound, Stream
<1>4. /\ r[1] \in Stream
      /\ may => /\ Sound(r[1]) /\ ~r[1].fatal /\ r[1].bit_offset = bs.bit_offset + n
                /\ r[2] = Window(data, bs.bit_offset, n)
      /\ ~may => r[1].fatal
  <2>1. ~may => bs.bit_offset + n > Bound
    BY <1>3
  <2> QED BY <1>2, <1>3, <2>1, Reads DEF Inv
<1>5. may \in BOOLEAN
  OBVIOUS
<1> HIDE DEF r, may
<1>6. Inv' /\ Cursor!Answer(may, <<"read", n>>, Window(data, bs.bit_offset, n), bs.bit_offset + n)
  BY <1>1, <1>4, <1>5, ReturnStep
<1> QED BY <1>6, SameBits, Zenon DEF Cursor!Read, may

\* A seek that is known to be to a position p, by whatever operation.
LEMMA SeekStep ==
  ASSUME WidthsAssumption, Inv, NEW p \in Nat, Return(<<"seek", p>>, SeekBit(bs, p), {})
  PROVE  Inv' /\ Cursor!Seek(p)
<1> DEFINE t == SeekBit(bs, p)
           may == p <= Bound
<1>1. ~bs.fatal
  BY DEF Return
<1>2. /\ t \in Stream
      /\ may => Sound(t) /\ ~t.fatal /\ t.bit_offset = p
      /\ ~may => t.fatal
  <2>1. ~may => p > Bound
    BY Widths DEF Inv
  <2> QED BY <1>1, <2>1, Seeks DEF Inv
<1>3. may \in BOOLEAN
  OBVIOUS
<1>4. Return(<<"seek", p>>, t, {})
  OBVIOUS
<1> HIDE DEF t, may
<1>5. Inv' /\ Cursor!Answer(may, <<"seek", p>>, {}, p)
  BY <1>2, <1>3, <1>4, ReturnStep
<1> QED BY <1>5, SameBits, Zenon DEF Cursor!Seek, may

\* The variable bit rate reads.
LEMMA VbrStep ==
  ASSUME WidthsAssumption, Inv, NEW n \in VbrWidths
  PROVE  /\ ReadVbr(n) => Inv' /\ Cursor!ReadVbr(n)
         /\ ReadVbrUint64(n) => Inv' /\ Cursor!ReadVbrUint64(n)
<1>1. n \in Nat /\ n >= 2 /\ n <= WordBits
  BY Widths DEF WidthsAssumption, Inv
<1> DEFINE end == bs.bit_offset + n * (Cursor!LastPiece(n) + 1)
<1>2. ASSUME ReadVbr(n) PROVE Inv' /\ Cursor!ReadVbr(n)
  <2> DEFINE r == Vbr(bs, n)
             may == Cursor!LastPieces(n) # {} /\ Cursor!Narrow(Cursor!Field(n))
             value == Cursor!Low(Cursor!Field(n), WordBits)
  <2>1. Return(<<"vbr", n>>, r[1], r[2]) /\ ~bs.fatal
    BY <1>2 DEF ReadVbr, Return
  <2>2. /\ r[1] \in Stream
        /\ may => Sound(r[1]) /\ ~r[1].fatal /\ r[2] = value /\ r[1].bit_offset = end
        /\ ~may => r[1].fatal
    BY <1>1, <2>1, VbrWordReads DEF Inv
  <2>3. may \in BOOLEAN
    BY DEF Cursor!Narrow
  <2> HIDE DEF r, may, value, end
  <2>4. Inv' /\ Cursor!Answer(may, <<"vbr", n>>, value, end)
    BY <2>1, <2>2, <2>3, ReturnStep
  <2> QED BY <2>4, Zenon DEF Cursor!ReadVbr, may, value, end
<1>3. ASSUME ReadVbrUint64(n) PROVE Inv' /\ Cursor!ReadVbrUint64(n)
  <2> DEFINE r == VbrUint64(bs, n)
             may == Cursor!LastPieces(n) # {}
             value == Cursor!Field(n)
  <2>1. Return(<<"vbr64", n>>, r[1], r[2]) /\ ~bs.fatal
    BY <1>3 DEF ReadVbrUint64, Return
  <2>2. /\ r[1] \in Stream
        /\ may => Sound(r[1]) /\ ~r[1].fatal /\ r[2] = value /\ r[1].bit_offset = end
        /\ ~may => r[1].fatal
    BY <1>1, <2>1, VbrReads DEF Inv
  <2>3. may \in BOOLEAN
    OBVIOUS
  <2> HIDE DEF r, may, value, end
  <2>4. Inv' /\ Cursor!Answer(may, <<"vbr64", n>>, value, end)
    BY <2>1, <2>2, <2>3, ReturnStep
  <2> QED BY <2>4, Zenon DEF Cursor!ReadVbrUint64, may, value, end
<1> QED BY <1>2, <1>3

\* pn_bitstream_at_end.
LEMMA AtEndStep ==
  ASSUME WidthsAssumption, Inv, AtEnd
  PROVE  Inv' /\ Cursor!AtEnd
<1> DEFINE v == IF bs.bit_offset \div ByteBits = data_len THEN {0} ELSE {}
           w == IF bs.bit_offset = Bound THEN {0} ELSE {}
<1>1. Return(<<"at_end">>, bs, v) /\ ~bs.fatal
  BY DEF AtEnd, Return
<1>2. bs \in Stream /\ Sound(bs)
  BY DEF Inv, Sound
<1>3. v = w
  <2> DEFINE o == bs.bit_offset
  <2>1. /\ ByteBits \in Nat /\ ByteBits > 0 /\ data_len \in Nat /\ Bound = ByteBits * data_len
        /\ Bound \in Nat
    BY Widths DEF Inv
  <2>2. o \in Nat /\ o <= Bound
    <3>1. bs.bit_offset \in Nat /\ bs.curword_bits \in Nat /\ bs.bit_offset + bs.curword_bits <= Bound
      BY <1>2 DEF Sound, Stream
    <3> QED BY <2>1, <3>1
  <2> HIDE DEF o
  <2>3. o \div ByteBits = data_len => o = Bound
    <3>1. o = ByteBits * (o \div ByteBits) + (o % ByteBits) /\ o % ByteBits \in Nat
      BY <2>1, <2>2, DivMod
    <3>2. o \div ByteBits = data_len => o = Bound + (o % ByteBits)
      BY <2>1, <3>1
    <3> QED BY <2>1, <2>2, <3>1, <3>2
  <2>4. o = Bound => o \div ByteBits = data_len
    <3>1. (ByteBits * data_len) \div ByteBits = data_len
      BY <2>1, DivExact
    <3> QED BY <2>1, <3>1
  <2> QED BY <2>3, <2>4 DEF o
<1> HIDE DEF v, w
<1>4. Inv' /\ Cursor!Answer(TRUE, <<"at_end">>, w, bs.bit_offset)
  BY <1>1, <1>2, <1>3, ReturnStep
<1> QED BY <1>4, SameBits, Zenon DEF Cursor!AtEnd, w

\* The positions that skip_bytes and align_32 seek to.
LEMMA Positions ==
  ASSUME WidthsAssumption, Inv
  PROVE  LET far == MaxSeek + ByteBits * (2 * MaxLen + WordBytes) IN
         /\ far \in Nat /\ MaxSeek \in Nat /\ MaxSeek <= far
         /\ \A num_bytes \in 0..MaxLen :
              bs.bit_offset + num_bytes * ByteBits \in 0..far
         /\ ((bs.bit_offset + WordBits - 1) \div WordBits) * WordBits \in 0..far
<1> DEFINE far == MaxSeek + ByteBits * (2 * MaxLen + WordBytes)
           o == bs.bit_offset
           most == ByteBits * MaxLen
<1>1. /\ ByteBits \in Nat /\ ByteBits > 0 /\ WordBytes \in Nat /\ WordBits \in Nat /\ WordBits > 0
      /\ WordBits = ByteBits * WordBytes /\ Bound = ByteBits * data_len /\ MaxLen \in Nat
      /\ Bound \in Nat /\ data_len \in Nat
  BY Widths DEF Inv
<1>2. MaxSeek \in Nat /\ data_len <= MaxLen
  BY DEF WidthsAssumption, Inv, BufferOK
<1>3. far = MaxSeek + 2 * most + WordBits /\ most \in Nat
  BY <1>1, <1>2
<1>4. o \in Nat /\ o <= most
  <2>1. bs.bit_offset \in Nat /\ bs.curword_bits \in Nat /\ bs.bit_offset + bs.curword_bits <= Bound
    BY DEF Inv, Sound, Stream
  <2>2. ByteBits * data_len <= ByteBits * MaxLen
    BY <1>1, <1>2, BytesInOrder
  <2>3. Bound <= most
    BY <1>1, <2>2
  <2> HIDE DEF most
  <2> QED BY <1>1, <1>3, <2>1, <2>3
<1>5. ASSUME NEW num_bytes \in 0..MaxLen PROVE num_bytes * ByteBits \in 0..most
  <2>1. ByteBits * num_bytes <= ByteBits * MaxLen
    BY <1>1, BytesInOrder
  <2>2. num_bytes * ByteBits = ByteBits * num_bytes /\ ByteBits * num_bytes \in Nat
    BY <1>1
  <2> QED BY <1>3, <2>1, <2>2
<1> DEFINE up == ((o + WordBits - 1) \div WordBits) * WordBits
<1>6. up \in Nat /\ up < o + WordBits
  <2> HIDE DEF o
  <2>1. o \in Nat /\ WordBits \in Nat /\ WordBits # 0
    BY <1>1, <1>4
  <2> QED BY <2>1, RoundUp
<1> HIDE DEF far, most, up, o
<1>7. far \in Nat /\ MaxSeek <= far /\ up \in 0..far
  BY <1>1, <1>2, <1>3, <1>4, <1>6
<1>8. ASSUME NEW num_bytes \in 0..MaxLen PROVE o + num_bytes * ByteBits \in 0..far
  <2> DEFINE b == num_bytes * ByteBits
  <2>1. b \in 0..most
    BY <1>5
  <2> HIDE DEF b
  <2>2. o + b \in 0..far
    BY <1>1, <1>2, <1>3, <1>4, <2>1
  <2> QED BY <2>2 DEF b
<1> QED BY <1>2, <1>7, <1>8 DEF far, up, o

\* The invariant holds at first.
LEMMA InitInv ==
  ASSUME WidthsAssumption, Init PROVE Inv
<1>1. BufferOK
  <2>1. data_len \in 0..MaxLen /\ data \in SUBSET (0..(ByteBits * (data_len + WordBytes - 1) - 1))
    BY DEF Init
  <2>2. \A k : k \in 0..(ByteBits * (data_len + WordBytes - 1) - 1) => k \in Nat
    OBVIOUS
  <2> QED BY <2>1, <2>2 DEF BufferOK
<1>2. /\ bs \in Stream /\ bs.bit_offset = 0 /\ bs.curword = {} /\ bs.curword_bits = 0
  BY DEF Init, NewStream, Stream
<1>3. ByteBits \in Nat /\ ByteBits > 0 /\ WordBits \in Nat /\ Bound \in Nat
  BY <1>1, Widths
<1>4. 0 % ByteBits = 0
  BY <1>3
<1> QED BY <1>1, <1>2, <1>3, <1>4 DEF Inv, Sound

\* Every step keeps the invariant, and is one of the cursor or changes nothing of it.
LEMMA Step ==
  ASSUME WidthsAssumption, Inv, [Next]_vars
  PROVE  Inv' /\ [Cursor!Next]_(Cursor!vars)
<1> DEFINE far == MaxSeek + ByteBits * (2 * MaxLen + WordBytes)
           Answers == \/ \E n \in 0..WordBits : Cursor!Read(n)
                      \/ \E n \in VbrWidths : Cursor!ReadVbr(n) \/ Cursor!ReadVbrUint64(n)
                      \/ \E p \in 0..far : Cursor!Seek(p)
                      \/ Cursor!AtEnd
<1>1. /\ far \in Nat /\ MaxSeek \in Nat /\ MaxSeek <= far
      /\ \A num_bytes \in 0..MaxLen : bs.bit_offset + num_bytes * ByteBits \in 0..far
      /\ ((bs.bit_offset + WordBits - 1) \div WordBits) * WordBits \in 0..far
  BY Positions
<1>2. \A p \in 0..far : p \in Nat
  OBVIOUS
<1>3. ASSUME Inv', Answers PROVE Inv' /\ [Cursor!Next]_(Cursor!vars)
  <2> HIDE DEF Answers, far
  <2>1. Cursor!Next <=> Cursor!vars' # Cursor!vars /\ Answers
    BY Zenon DEF Cursor!Next, Answers, far
  <2> QED BY <1>3, <2>1
<1>4. CASE \E n \in 0..WordBits : Read(n)
  <2>1. PICK n \in 0..WordBits : Read(n)
    BY <1>4
  <2> QED BY <1>3, <2>1, ReadStep
<1>5. CASE \E n \in VbrWidths : ReadVbr(n) \/ ReadVbrUint64(n)
  <2>1. PICK n \in VbrWidths : ReadVbr(n) \/ ReadVbrUint64(n)
    BY <1>5
  <2> QED BY <1>3, <2>1, VbrStep
<1>6. CASE \E p \in 0..MaxSeek : Seek(p)
  <2>1. PICK p \in 0..MaxSeek : Seek(p)
    BY <1>6
  <2>2. p \in 0..far
    BY <1>1
  <2>3. Inv' /\ Cursor!Seek(p)
    BY <1>2, <2>1, <2>2, SeekStep DEF Seek
  <2> QED BY <1>3, <2>2, <2>3
<1>7. CASE \E num_bytes \in 0..MaxLen : SkipBytes(num_bytes)
  <2>1. PICK num_bytes \in 0..MaxLen : SkipBytes(num_bytes)
    BY <1>7
  <2> DEFINE p == bs.bit_offset + num_bytes * ByteBits
  <2>2. p \in 0..far
    BY <1>1
  <2>3. Return(<<"seek", p>>, SeekBit(bs, p), {})
    BY <2>1 DEF SkipBytes
  <2> HIDE DEF p, far
  <2>4. Inv' /\ Cursor!Seek(p)
    BY <1>2, <2>2, <2>3, SeekStep
  <2> QED BY <1>3, <2>2, <2>4
<1>8. CASE Align32
  <2> DEFINE p == ((bs.bit_offset + WordBits - 1) \div WordBits) * WordBits
  <2>1. p \in 0..far
    BY <1>1
  <2>2. Return(<<"seek", p>>, SeekBit(bs, p), {})
    BY <1>8 DEF Align32
  <2> HIDE DEF p, far
  <2>3. Inv' /\ Cursor!Seek(p)
    BY <1>2, <2>1, <2>2, SeekStep
  <2> QED BY <1>3, <2>1, <2>3
<1>9. CASE AtEnd
  BY <1>3, <1>9, AtEndStep
<1>10. CASE UNCHANGED vars
  <2>1. data' = data /\ data_len' = data_len /\ bs' = bs /\ out' = out
    BY <1>10 DEF vars
  <2>2. Inv'
    BY <2>1 DEF Inv, BufferOK, Sound, Bound
  <2>3. UNCHANGED Cursor!vars
    BY <2>1 DEF Cursor!vars
  <2> QED BY <2>2, <2>3
<1>11. CASE Done
  BY <1>10, <1>11 DEF Done
<1> QED BY <1>4, <1>5, <1>6, <1>7, <1>8, <1>9, <1>10, <1>11 DEF Next

-----------------------------------------------------------------------------
(* The theorems.                                                             *)

\* Of pn_bitstream.h: the offset stays within the buffer and the word within its width.
THEOREM BitstreamTypes ==
  ASSUME WidthsAssumption PROVE Spec => []TypeOK
<1> DEFINE Typed == data_len \in 0..MaxLen
                    /\ data \subseteq 0..(ByteBits * (data_len + WordBytes - 1) - 1)
<1>1. Init => Inv /\ Typed
  BY InitInv DEF Init
<1>2. Inv /\ Typed /\ [Next]_vars => Inv' /\ Typed'
  <2> SUFFICES ASSUME Inv, Typed, [Next]_vars PROVE Inv' /\ Typed'
    OBVIOUS
  <2>1. data' = data /\ data_len' = data_len
    BY DEF Next, vars, Read, ReadVbr, ReadVbrUint64, Seek, SkipBytes, Align32, AtEnd, Done,
           Return
  <2> QED BY <2>1, Step
<1>3. Inv /\ Typed => TypeOK
  <2> SUFFICES ASSUME Inv, Typed PROVE TypeOK
    OBVIOUS
  <2>1. WordBits \in Nat /\ Bound \in Nat /\ Bound = ByteBits * data_len
    BY Widths DEF Inv
  <2>2. /\ bs \in Stream /\ bs.curword \subseteq 0..(WordBits - 1) /\ bs.curword_bits <= WordBits
        /\ bs.bit_offset + bs.curword_bits <= Bound
    BY DEF Inv, Sound
  <2>3. bs.bit_offset \in Nat /\ bs.curword_bits \in Nat /\ bs.fatal \in BOOLEAN
    BY <2>2 DEF Stream
  <2>4. bs.bit_offset \in 0..Bound /\ bs.curword_bits \in 0..WordBits
    BY <2>1, <2>2, <2>3
  <2> QED BY <2>1, <2>2, <2>3, <2>4 DEF TypeOK
<1> QED BY <1>1, <1>2, <1>3, PTL DEF Spec

\* However the stream got to where it is, and whatever the widths and the length of the
\* buffer, the bits of the word that count are the next ones of the buffer, and none is
\* from behind it.
THEOREM WordCorrect ==
  ASSUME WidthsAssumption PROVE Spec => []WordIsNext
<1>1. Init => Inv
  BY InitInv
<1>2. Inv /\ [Next]_vars => Inv'
  BY Step
<1>3. Inv => WordIsNext
  <2> SUFFICES ASSUME Inv PROVE WordIsNext
    OBVIOUS
  <2>1. /\ bs.curword \in SUBSET Nat /\ bs.curword_bits \in Nat /\ bs.bit_offset \in Nat
    BY DEF Inv, Sound, Stream
  <2>2. \A b : b \in Window(data, bs.bit_offset, bs.curword_bits) <=>
               b \in Nat /\ b < bs.curword_bits /\ bs.bit_offset + b \in data
    BY <2>1, Widths, InWindow DEF Inv
  <2>3. \A b : b \in Low(bs.curword, bs.curword_bits) <=>
               b \in Nat /\ b < bs.curword_bits /\ bs.bit_offset + b \in data
    BY <2>1 DEF Low, Inv, Sound
  <2>4. Low(bs.curword, bs.curword_bits) = Window(data, bs.bit_offset, bs.curword_bits)
    BY <2>2, <2>3
  <2> QED BY <2>4 DEF WordIsNext, Inv, Sound, Bound
<1> QED BY <1>1, <1>2, <1>3, PTL DEF Spec

\* Reads within a word and across two, the partial word at the end of the buffer, seeks to
\* unaligned bits and fields of any number of pieces are those of a plain cursor over the
\* bits of the buffer, with an error exactly where the buffer ends too early.
THEOREM CursorImplemented ==
  ASSUME WidthsAssumption PROVE Spec => ImplementsCursor
<1>1. Init => Inv
  BY InitInv
<1>2. Init => Cursor!Init
  BY DEF Init, Cursor!Init, NewStream
<1>3. Inv /\ [Next]_vars => Inv' /\ [Cursor!Next]_(Cursor!vars)
  BY Step
<1> QED BY <1>1, <1>2, <1>3, PTL DEF Spec, Cursor!Spec, ImplementsCursor
=============================================================================
