----------------------------- MODULE BitCursor -----------------------------
(***************************************************************************)
(* What the users of a bitstream rely on: a cursor over the bits of a      *)
(* buffer.  A read returns the next bits and moves behind them, or the     *)
(* program stops with an error when there are not enough; a seek moves.    *)
(***************************************************************************)
EXTENDS Bits

CONSTANTS
  ByteBits,    \* bits of a byte, 8
  WordBits,    \* bits of a word, 32
  VbrWidths,   \* the widths of the variable bit rate fields
  MaxSeek      \* the largest position a caller may seek to

VARIABLES
  data,      \* the one bits of the buffer and of what lies behind it
  data_len,  \* bytes in the buffer
  pos,       \* the position of the cursor
  out,       \* the last operation and the value it returned
  fatal      \* the program has stopped with an error

vars == <<data, data_len, pos, out, fatal>>

End == ByteBits * data_len

Init ==
  /\ pos = 0
  /\ out = <<<<"init">>>>
  /\ fatal = FALSE

\* The operation op answers value and leaves the cursor at newpos, when it may.
Answer(may, op, value, newpos) ==
  /\ out'[1] = op
  /\ ~fatal
  /\ fatal' = ~may
  /\ out' = IF may THEN <<op, value>> ELSE <<op>>
  /\ pos' = IF may THEN newpos ELSE 0
  /\ UNCHANGED <<data, data_len>>

Read(n) == Answer(pos + n <= End, <<"read", n>>, Window(data, pos, n), pos + n)

\* A field of pieces of n bits, the top bit of each saying whether one follows: the
\* value is made of the low n - 1 bits of the pieces, the first piece lowest, as long
\* as their place is within two words.
LastPieces(n) ==
  {k \in 0..(2 * WordBits) : /\ (n - 1) * k < 2 * WordBits
                             /\ pos + n * (k + 1) <= End
                             /\ pos + n * k + n - 1 \notin data}
LastPiece(n) == Min(LastPieces(n))

Field(n) ==
  Low(UNION {ShiftLeft(Window(data, pos + n * k, n - 1), (n - 1) * k) :
               k \in 0..LastPiece(n)},
      2 * WordBits)

\* A number of one word, or one of two words that is the sign extension of a word.
Narrow(w) ==
  w \subseteq 0..(WordBits - 1) \/ (WordBits - 1)..(2 * WordBits - 1) \subseteq w

ReadVbr(n) ==
  Answer(LastPieces(n) # {} /\ Narrow(Field(n)), <<"vbr", n>>, Low(Field(n), WordBits),
         pos + n * (LastPiece(n) + 1))

ReadVbrUint64(n) ==
  Answer(LastPieces(n) # {}, <<"vbr64", n>>, Field(n), pos + n * (LastPiece(n) + 1))

Seek(p) == Answer(p <= End, <<"seek", p>>, {}, p)

AtEnd == Answer(TRUE, <<"at_end">>, IF pos = End THEN {0} ELSE {}, pos)

\* (A call that changes nothing is a stuttering step.)
Next ==
  /\ vars' # vars
  /\ \/ \E n \in 0..WordBits : Read(n)
     \/ \E n \in VbrWidths : ReadVbr(n) \/ ReadVbrUint64(n)
     \/ \E p \in 0..MaxSeek : Seek(p)
     \/ AtEnd

Spec == Init /\ [][Next]_vars
=============================================================================
