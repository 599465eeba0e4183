-------------------------------- MODULE Bits --------------------------------
(* Words as the sets of their one bits, bit 0 the lowest. *)
EXTENDS Integers, FiniteSets, FiniteSetsExt

\* w & ((1 << n) - 1)
Low(w, n) == {b \in w : b < n}

\* w >> n and w << n, before the width of the result cuts it off
ShiftRight(w, n) == {b - n : b \in {c \in w : c >= n}}
ShiftLeft(w, n) == {b + n : b \in w}

\* The n bits of a stream from position pos on.
Window(data, pos, n) == {b - pos : b \in {c \in data : c >= pos /\ c < pos + n}}

\* The number a word stands for, and the word of a number.
ToNat(w) == MapThenSumSet(LAMBDA b : 2^b, w)
ToBits(x, n) == {b \in 0..(n - 1) : (x \div 2^b) % 2 = 1}
=============================================================================
