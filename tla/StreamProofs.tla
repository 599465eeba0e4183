---------------------------- MODULE StreamProofs ----------------------------
(***************************************************************************)
(* Proofs about the instruction stream of MCPasses: where the translator   *)
(* puts the blocks (LaidOut), and that the interpreter, which knows only   *)
(* an address, is where the function is (RunInv).                          *)
(***************************************************************************)
EXTENDS PassesProofs

\* What the instructions of a function of num blocks are like.
JumpKinds == {"BR", "BR_INT1", "SWITCH"}
BodyKinds == {"BINOP", "VSELECT", "PHI", "CALL"}
LeafKinds == {"RET", "RET_VALUE", "UNREACHABLE"}
Kinds     == JumpKinds \cup BodyKinds \cup LeafKinds

Inst(num) == [kind : Kinds, count : Nat, to : Seq(1..num)]

\* A block: its jump, if it has one, is its last instruction.
BlockOK(blk, num) ==
  /\ blk = [insts |-> blk.insts, num_phi_assigns |-> blk.num_phi_assigns]
  /\ blk.num_phi_assigns \in Nat
  /\ blk.insts \in Seq(Inst(num))
  /\ Len(blk.insts) >= 1
  /\ \A k \in 1..Len(blk.insts) : blk.insts[k].to # <<>> <=> blk.insts[k].kind \in JumpKinds
  /\ \A k \in 1..Len(blk.insts) : blk.insts[k].kind \notin BodyKinds => k = Len(blk.insts)

\* Only the last block may have no end.
FunctionOK(f) ==
  /\ Len(f) \in Nat \ {0}
  /\ DOMAIN f = 1..Len(f)
  /\ \A b \in 1..Len(f) : BlockOK(f[b], Len(f))
  /\ \A b \in 1..Len(f) : b < Len(f) => f[b].insts[Len(f[b].insts)].kind \notin BodyKinds

\* The counts of a block fit into their fields.
Fits(blk) ==
  /\ blk.num_phi_assigns <= MaxU16
  /\ \A k \in 1..Len(blk.insts) : blk.insts[k].count <= MaxU8

\* Where instruction k of block b is, which of them are written, and the end of b.
Place(b, k) == Stream!OffsetOf(bbs[b], bb_offsets[b], k)
Written(b)  == {k \in DOMAIN bbs[b].insts : bbs[b].insts[k].kind # "PHI"}
End(b)      == Stream!EndOfBlock(bbs[b], bb_offsets[b])

\* Both passes are where the blocks before say.
PassesOK ==
  /\ phase \in {"size", "write", "run", "end"}
  /\ n \in 1..(Len(bbs) + 1)
  /\ phase \in {"run", "end"} => n = Len(bbs) + 1
  /\ bb_offsets \in Seq(Nat)
  /\ Len(bb_offsets) = IF phase = "size" THEN n - 1 ELSE Len(bbs)
  /\ \A b \in 1..Len(bb_offsets) : bb_offsets[b] = IF b = 1 THEN 0 ELSE Stream!AlignUp(End(b - 1), 4)
  /\ offset = IF n = 1 THEN 0 ELSE End(n - 1)
  /\ size = IF phase = "size" THEN 0 ELSE End(Len(bbs)) + Stream!Sizeof.CALL

\* The stream holds the instructions of the blocks that were written.
StreamOK ==
  /\ phase = "size" => DOMAIN stream = {}
  /\ phase # "size" => \A b \in 1..(n - 1) : \A k \in Written(b) :
       /\ Place(b, k) \in DOMAIN stream
       /\ stream[Place(b, k)] = Stream!Encoded(bbs[b].insts[k], bbs[b])
  /\ \A o \in DOMAIN stream :
       \/ \E b \in 1..(n - 1) : \E k \in Written(b) : o = Place(b, k)
       \/ phase \in {"run", "end"} /\ o = offset
  /\ phase \in {"run", "end"} => offset \in DOMAIN stream /\ stream[offset] = Stream!Trap

-----------------------------------------------------------------------------
(* The layout.                                                              *)

\* A count that is cut to a field is at most what it was, and is what it was if it fits.
LEMMA CutCount ==
  ASSUME NEW c \in Nat, NEW most \in Nat
  PROVE  c % (most + 1) \in 0..c /\ (c <= most => c % (most + 1) = c)
<1>1. most + 1 \in Nat /\ most + 1 # 0
  OBVIOUS
<1> DEFINE d == most + 1
<1> HIDE DEF d
<1>2. c \div d \in Nat /\ c % d \in 0..(d - 1) /\ c = d * (c \div d) + (c % d) /\ d \in Nat
  BY <1>1, DivMod DEF d
<1>3. d * (c \div d) \in Nat
  BY <1>2
<1>4. c <= most => c % (most + 1) = c
  OBVIOUS
<1> QED BY <1>2, <1>3, <1>4 DEF d

\* Only a phi takes no bytes.
LEMMA Sizes ==
  ASSUME NEW num, NEW i \in Inst(num)
  PROVE  /\ Stream!InstructionSize(i) \in Nat
         /\ i.kind = "PHI" => Stream!InstructionSize(i) = 0
         /\ i.kind # "PHI" => Stream!InstructionSize(i) >= 4
<1>1. i.kind \in Kinds /\ i.count \in Nat
  BY DEF Inst
<1> DEFINE more == CASE i.kind = "CALL"   -> i.count * Stream!SizeofValueId
                     [] i.kind = "SWITCH" -> i.count * Stream!SizeofCase
                     [] OTHER             -> 0
<1>2. more \in Nat /\ (i.kind = "PHI" => more = 0)
  BY <1>1 DEF Stream!SizeofValueId, Stream!SizeofCase
<1>3. /\ Stream!Sizeof[i.kind] \in Nat
      /\ i.kind = "PHI" => Stream!Sizeof[i.kind] = 0
      /\ i.kind # "PHI" => Stream!Sizeof[i.kind] >= 4
  BY <1>1 DEF Stream!Sizeof, Kinds, JumpKinds, BodyKinds, LeafKinds
<1>4. Stream!InstructionSize(i) = Stream!Sizeof[i.kind] + more
  BY DEF Stream!InstructionSize
<1> HIDE DEF more
<1> QED BY <1>2, <1>3, <1>4

\* The offsets of a block, one instruction after the other.
LEMMA OffsetSteps ==
  ASSUME NEW num, NEW blk, BlockOK(blk, num), NEW start \in Nat
  PROVE  /\ Stream!OffsetOf(blk, start, 1) = start
         /\ \A k \in 1..Len(blk.insts) :
              Stream!OffsetOf(blk, start, k + 1) = Stream!OffsetOf(blk, start, k) + Stream!InstructionSize(blk.insts[k])
         /\ \A k \in 1..(Len(blk.insts) + 1) : Stream!OffsetOf(blk, start, k) \in Nat
<1> DEFINE N == Len(blk.insts)
           S == Nat
           sz(i) == Stream!InstructionSize(blk.insts[i])
           g == [i \in 1..N |-> [y \in S |-> y + sz(i)]]
           W(c) == c = [j \in 0..N |-> IF j = 0 THEN start ELSE c[j - 1] + sz(j)]
<1>1. N \in Nat /\ \A i \in 1..N : sz(i) \in Nat
  <2>1. N \in Nat /\ \A i \in 1..N : blk.insts[i] \in Inst(num)
    BY DEF BlockOK
  <2> QED BY <2>1, Sizes
<1> HIDE DEF N, sz
<1>2. \A i \in 1..N : \A y \in S : y + sz(i) \in S
  BY <1>1
<1>3. g \in [1..N -> [S -> S]]
  <2> HIDE DEF S
  <2> QED BY <1>2
<1>4. PICK f : Steps(f, N, S, g, start)
  <2>1. start \in S
    OBVIOUS
  <2> HIDE DEF S, g
  <2> QED BY <1>1, <1>3, <2>1, Stepped
<1>5. f \in [0..N -> S] /\ f[0] = start /\ \A i \in 1..N : f[i] = g[i][f[i - 1]]
  BY <1>4 DEF Steps
<1>6. W(f)
  <2> HIDE DEF S
  <2>1. f = [i \in 0..N |-> f[i]]
    BY <1>5
  <2>2. \A i \in 0..N : f[i] = IF i = 0 THEN start ELSE f[i - 1] + sz(i)
    <3> SUFFICES ASSUME NEW i \in 0..N, i # 0 PROVE f[i] = f[i - 1] + sz(i)
      BY <1>5
    <3>1. i \in 1..N /\ i - 1 \in 0..N
      BY <1>1
    <3>2. f[i - 1] \in S
      BY <1>5, <3>1
    <3> QED BY <1>5, <3>1, <3>2
  <2> QED BY <2>1, <2>2, Zenon
<1> DEFINE h == CHOOSE c : W(c)
<1>7. W(h)
  <2> HIDE DEF W
  <2> QED BY <1>6
<1>8. \A k : Stream!OffsetOf(blk, start, k) = h[k - 1]
  BY Zenon DEF Stream!OffsetOf, N, sz
<1>9. h[0] = start /\ \A i \in 1..N : h[i] = h[i - 1] + sz(i)
  <2>1. 0 \in 0..N /\ \A i \in 1..N : i \in 0..N /\ i # 0
    BY <1>1
  <2>2. h = [j \in 0..N |-> IF j = 0 THEN start ELSE h[j - 1] + sz(j)]
    BY <1>7
  <2> HIDE DEF h
  <2> QED BY <2>1, <2>2
<1> HIDE DEF h, W, g
<1> DEFINE Good == {i \in 0..N : h[i] \in Nat}
<1>10. 0 \in Good
  BY <1>1, <1>9
<1>11. ASSUME NEW i \in 0..N, i < N, i \in Good PROVE i + 1 \in Good
  <2>1. i + 1 \in 1..N /\ i + 1 \in 0..N /\ (i + 1) - 1 = i
    BY <1>1, <1>11
  <2>2. h[i + 1] = h[i] + sz(i + 1)
    BY <1>9, <2>1
  <2> QED BY <1>1, <1>11, <2>1, <2>2
<1>12. \A i \in 0..N : i \in Good
  <2> HIDE DEF Good
  <2> QED BY <1>1, <1>10, <1>11, NatSetUpTo
<1>13. \A k \in 1..N : k - 1 \in 0..N /\ k \in 0..N /\ (k + 1) - 1 = k
  BY <1>1
<1>14. Stream!OffsetOf(blk, start, 1) = start
  <2>1. 1 - 1 = 0
    OBVIOUS
  <2> QED BY <1>8, <1>9, <2>1
<1>15. ASSUME NEW k \in 1..N PROVE Stream!OffsetOf(blk, start, k + 1) = Stream!OffsetOf(blk, start, k) + sz(k)
  BY <1>8, <1>9, <1>13
<1>16. ASSUME NEW k \in 1..(N + 1) PROVE Stream!OffsetOf(blk, start, k) \in Nat
  <2>1. k - 1 \in 0..N
    BY <1>1
  <2> QED BY <1>8, <1>12, <2>1
<1> QED BY <1>14, <1>15, <1>16 DEF N, sz

\* An instruction ends before the next one starts.
LEMMA OffsetsUp ==
  ASSUME NEW num, NEW blk, BlockOK(blk, num), NEW start \in Nat,
         NEW j \in 1..(Len(blk.insts) + 1), NEW k \in 1..(Len(blk.insts) + 1), j <= k
  PROVE  /\ Stream!OffsetOf(blk, start, j) <= Stream!OffsetOf(blk, start, k)
         /\ j < k => Stream!OffsetOf(blk, start, j) + Stream!InstructionSize(blk.insts[j])
                     <= Stream!OffsetOf(blk, start, k)
<1> DEFINE N == Len(blk.insts)
           of(i) == Stream!OffsetOf(blk, start, i)
           sz(i) == Stream!InstructionSize(blk.insts[i])
<1>1. N \in Nat /\ \A i \in 1..N : sz(i) \in Nat
  <2>1. N \in Nat /\ \A i \in 1..N : blk.insts[i] \in Inst(num)
    BY DEF BlockOK
  <2> QED BY <2>1, Sizes
<1>2. (\A i \in 1..N : of(i + 1) = of(i) + sz(i)) /\ \A i \in 1..(N + 1) : of(i) \in Nat
  BY OffsetSteps
<1>3. j \in 1..(N + 1) /\ k \in 1..(N + 1)
  OBVIOUS
<1> HIDE DEF N, of, sz
<1>4. ASSUME NEW a \in 1..(N + 1) PROVE \A b \in a..(N + 1) : of(a) <= of(b)
  <2> DEFINE M == N + 1 - a
             Good == {d \in 0..M : of(a) <= of(a + d)}
  <2>1. M \in Nat
    BY <1>1
  <2>2. 0 \in Good
    BY <1>1, <1>2
  <2>3. ASSUME NEW d \in 0..M, d < M, d \in Good PROVE d + 1 \in Good
    <3>1. a + d \in 1..N /\ a + d \in 1..(N + 1) /\ (a + d) + 1 = a + (d + 1) /\ d + 1 \in 0..M
      BY <1>1, <2>3
    <3>2. of((a + d) + 1) = of(a + d) + sz(a + d) /\ of(a + d) \in Nat /\ sz(a + d) \in Nat
      BY <1>1, <1>2, <3>1
    <3>3. of(a) \in Nat
      BY <1>2
    <3>4. of(a) <= of(a + (d + 1))
      BY <2>3, <3>1, <3>2, <3>3
    <3> QED BY <3>1, <3>4
  <2>4. \A d \in 0..M : d \in Good
    <3> HIDE DEF Good, M
    <3> QED BY <2>1, <2>2, <2>3, NatSetUpTo
  <2>5. ASSUME NEW b \in a..(N + 1) PROVE of(a) <= of(b)
    <3>1. b - a \in 0..M /\ a + (b - a) = b
      BY <1>1
    <3> QED BY <2>4, <3>1
  <2> QED BY <2>5
<1>5. of(j) <= of(k)
  <2>1. k \in j..(N + 1)
    BY <1>1, <1>3
  <2> QED BY <1>3, <1>4, <2>1
<1>6. ASSUME j < k PROVE of(j) + sz(j) <= of(k)
  <2>1. j \in 1..N /\ j + 1 \in 1..(N + 1) /\ k \in (j + 1)..(N + 1)
    BY <1>1, <1>3, <1>6
  <2>2. of(j + 1) <= of(k)
    BY <1>4, <2>1
  <2> QED BY <1>2, <2>1, <2>2
<1> QED BY <1>5, <1>6 DEF of, sz

\* Instructions that are not written take no place.
LEMMA OffsetsSame ==
  ASSUME NEW num, NEW blk, BlockOK(blk, num), NEW start \in Nat,
         NEW j \in 1..(Len(blk.insts) + 1), NEW k \in 1..(Len(blk.insts) + 1), j <= k,
         \A i \in 1..Len(blk.insts) : j <= i /\ i < k => blk.insts[i].kind = "PHI"
  PROVE  Stream!OffsetOf(blk, start, j) = Stream!OffsetOf(blk, start, k)
<1> DEFINE N == Len(blk.insts)
           of(i) == Stream!OffsetOf(blk, start, i)
           M == k - j
           Good == {d \in 0..M : of(j + d) = of(j)}
<1>1. N \in Nat /\ \A i \in 1..N : blk.insts[i].kind = "PHI" => Stream!InstructionSize(blk.insts[i]) = 0
  <2>1. N \in Nat /\ \A i \in 1..N : blk.insts[i] \in Inst(num)
    BY DEF BlockOK
  <2> QED BY <2>1, Sizes
<1>2. (\A i \in 1..N : of(i + 1) = of(i) + Stream!InstructionSize(blk.insts[i]))
      /\ \A i \in 1..(N + 1) : of(i) \in Nat
  BY OffsetSteps
<1>3. /\ j \in 1..(N + 1) /\ k \in 1..(N + 1) /\ j <= k
      /\ \A i \in 1..N : j <= i /\ i < k => blk.insts[i].kind = "PHI"
  OBVIOUS
<1> HIDE DEF N, of
<1>4. M \in Nat
  BY <1>3
<1>5. 0 \in Good
  BY <1>3, <1>4
<1>6. ASSUME NEW d \in 0..M, d < M, d \in Good PROVE d + 1 \in Good
  <2>1. j + d \in 1..N /\ j + d \in 1..(N + 1) /\ j <= j + d /\ j + d < k
        /\ (j + d) + 1 = j + (d + 1) /\ d + 1 \in 0..M
    BY <1>1, <1>3, <1>6
  <2>2. Stream!InstructionSize(blk.insts[j + d]) = 0
    BY <1>1, <1>3, <2>1
  <2>3. of((j + d) + 1) = of(j + d) + Stream!InstructionSize(blk.insts[j + d]) /\ of(j + d) \in Nat
    BY <1>2, <2>1
  <2>4. of(j + (d + 1)) = of(j)
    BY <1>6, <2>1, <2>2, <2>3
  <2> QED BY <2>1, <2>4
<1>7. M \in Good
  <2>1. M \in 0..M
    BY <1>4
  <2> HIDE DEF Good, M
  <2> QED BY <1>4, <1>5, <1>6, <2>1, NatSetUpTo
<1>8. j + M = k
  BY <1>3
<1> QED BY <1>7, <1>8 DEF of

\* A block ends behind its instructions, and behind its start if one of them is written.
LEMMA BlockEnds ==
  ASSUME NEW num, NEW blk, BlockOK(blk, num), NEW start \in Nat
  PROVE  /\ Stream!EndOfBlock(blk, start) \in Nat
         /\ Stream!OffsetOf(blk, start, Len(blk.insts) + 1) <= Stream!EndOfBlock(blk, start)
         /\ \A k \in 1..Len(blk.insts) : blk.insts[k].kind # "PHI" =>
              /\ start <= Stream!OffsetOf(blk, start, k)
              /\ Stream!OffsetOf(blk, start, k) < Stream!OffsetOf(blk, start, Len(blk.insts) + 1)
<1> DEFINE N == Len(blk.insts)
           of(i) == Stream!OffsetOf(blk, start, i)
           sz(i) == Stream!InstructionSize(blk.insts[i])
<1>1. N \in Nat /\ blk.num_phi_assigns \in Nat /\ N >= 1
      /\ \A i \in 1..N : sz(i) \in Nat /\ (blk.insts[i].kind # "PHI" => sz(i) >= 4)
  <2>1. N \in Nat /\ blk.num_phi_assigns \in Nat /\ \A i \in 1..N : blk.insts[i] \in Inst(num)
    BY DEF BlockOK
  <2> QED BY <2>1, Sizes DEF BlockOK
<1>2. \A i \in 1..(N + 1) : of(i) \in Nat /\ of(1) = start
  BY OffsetSteps
<1>3. N + 1 \in 1..(N + 1) /\ of(N + 1) \in Nat
  BY <1>1, <1>2
<1>4. Stream!EndOfBlock(blk, start) \in Nat /\ of(N + 1) <= Stream!EndOfBlock(blk, start)
  <2>1. Stream!EndOfBlock(blk, start) = of(N + 1) + IF Stream!WritesPhiAssigns(blk)
                                                    THEN 4 + blk.num_phi_assigns * 16 ELSE 0
    BY DEF Stream!EndOfBlock, Stream!SizeofPhiHeader, Stream!SizeofPhiAssign
  <2> HIDE DEF of
  <2> QED BY <1>1, <1>3, <2>1
<1>5. ASSUME NEW k \in 1..N, blk.insts[k].kind # "PHI"
      PROVE  start <= of(k) /\ of(k) < of(N + 1)
  <2>1. k \in 1..(N + 1) /\ k < N + 1 /\ 1 \in 1..(N + 1) /\ 1 <= k /\ k <= N + 1
    BY <1>1
  <2>2. of(k) + sz(k) <= of(N + 1) /\ of(1) <= of(k)
    BY <1>3, <2>1, OffsetsUp
  <2> HIDE DEF of, sz, N
  <2> QED BY <1>1, <1>2, <1>3, <1>5, <2>1, <2>2
<1> QED BY <1>4, <1>5

\* What the interpreter reads of an instruction lies before the next one and in its block.
LEMMA Extents ==
  ASSUME MaxU8 \in Nat, MaxU16 \in Nat, NEW num, NEW blk, BlockOK(blk, num), NEW start \in Nat,
         NEW k \in 1..Len(blk.insts), blk.insts[k].kind # "PHI"
  PROVE  /\ Stream!ReadExtent(Stream!Encoded(blk.insts[k], blk)) \in Nat
         /\ Stream!OffsetOf(blk, start, k) + Stream!ReadExtent(Stream!Encoded(blk.insts[k], blk)) <= Stream!EndOfBlock(blk, start)
         /\ \A j \in 1..Len(blk.insts) : k < j =>
              Stream!OffsetOf(blk, start, k) + Stream!ReadExtent(Stream!Encoded(blk.insts[k], blk)) <= Stream!OffsetOf(blk, start, j)
<1> DEFINE N == Len(blk.insts)
           of(i) == Stream!OffsetOf(blk, start, i)
           i == blk.insts[k]
           c == Stream!Encoded(i, blk)
           e == Stream!ReadExtent(c)
           cut == i.count % (MaxU8 + 1)
           phis == blk.num_phi_assigns % (MaxU16 + 1)
<1>1. /\ N \in Nat /\ i \in Inst(num) /\ blk.num_phi_assigns \in Nat
      /\ i.to # <<>> <=> i.kind \in JumpKinds
      /\ i.kind \notin BodyKinds => k = N
  BY DEF BlockOK
<1>2. i.kind \in Kinds /\ i.count \in Nat /\ k \in 1..N
  BY <1>1 DEF Inst
<1>3. cut \in 0..i.count /\ phis \in 0..blk.num_phi_assigns
  BY <1>1, <1>2, CutCount
<1>4. /\ c.kind = i.kind /\ c.count = IF i.kind = "CALL" THEN cut ELSE i.count
      /\ c.phis = IF i.to # <<>> THEN phis ELSE 0
  BY DEF Stream!Encoded
<1>5. /\ of(k) \in Nat /\ of(N + 1) \in Nat /\ of(k) + Stream!InstructionSize(i) <= of(N + 1)
      /\ \A j \in 1..N : of(j) \in Nat /\ (k < j => of(k) + Stream!InstructionSize(i) <= of(j))
  <2>1. k \in 1..(N + 1) /\ N + 1 \in 1..(N + 1) /\ k <= N + 1 /\ k < N + 1
        /\ \A j \in 1..N : j \in 1..(N + 1) /\ (k < j => k <= j)
    BY <1>1, <1>2
  <2> QED BY <2>1, OffsetSteps, OffsetsUp
<1>6. Stream!EndOfBlock(blk, start) \in Nat /\ of(N + 1) <= Stream!EndOfBlock(blk, start)
  BY BlockEnds
<1> HIDE DEF c, cut, phis, i
<1>7. CASE i.kind \notin JumpKinds
  <2>1. c.kind \notin {"TRAP", "SWITCH", "BR", "BR_INT1"}
    BY <1>2, <1>4, <1>7 DEF Kinds, JumpKinds, BodyKinds, LeafKinds
  <2>2. e = IF c.kind = "CALL" THEN 16 + c.count * 4 ELSE Stream!Sizeof[c.kind]
    BY <2>1 DEF Stream!ReadExtent, Stream!SizeofValueId, Stream!Sizeof
  <2>3. Stream!InstructionSize(i) = IF i.kind = "CALL" THEN 16 + i.count * 4 ELSE Stream!Sizeof[i.kind]
    <3>1. CASE i.kind = "CALL"
      BY <1>2, <3>1 DEF Stream!InstructionSize, Stream!SizeofValueId, Stream!Sizeof
    <3>2. CASE i.kind # "CALL"
      <4>1. Stream!Sizeof[i.kind] \in Nat
        BY <1>2 DEF Stream!Sizeof, Kinds, JumpKinds, BodyKinds, LeafKinds
      <4> QED BY <1>4, <2>1, <3>2, <4>1 DEF Stream!InstructionSize
    <3> QED BY <3>1, <3>2
  <2>4. Stream!InstructionSize(i) \in Nat
    BY <1>1, Sizes
  <2> HIDE DEF e, of
  <2>5. e \in Nat /\ e <= Stream!InstructionSize(i)
    <3>1. CASE i.kind = "CALL"
      BY <1>2, <1>3, <1>4, <2>2, <2>3, <3>1
    <3>2. CASE i.kind # "CALL"
      BY <1>4, <2>2, <2>3, <2>4, <3>2
    <3> QED BY <3>1, <3>2
  <2>6. of(k) + e <= of(N + 1) /\ of(k) + e <= Stream!EndOfBlock(blk, start)
    <3> HIDE DEF N
    <3> QED BY <1>5, <1>6, <2>4, <2>5
  <2>7. ASSUME NEW j \in 1..N, k < j PROVE of(k) + e <= of(j)
    <3> HIDE DEF N
    <3> QED BY <1>5, <2>4, <2>5, <2>7
  <2> QED BY <2>5, <2>6, <2>7 DEF e, of, c, i
<1>8. CASE i.kind \in JumpKinds
  <2>1. k = N /\ Stream!WritesPhiAssigns(blk) /\ i.to # <<>>
    <3>1. i.kind \notin BodyKinds
      BY <1>8 DEF JumpKinds, BodyKinds
    <3>2. k \in DOMAIN blk.insts
      BY DEF BlockOK
    <3> QED BY <1>1, <1>8, <3>1, <3>2 DEF Stream!WritesPhiAssigns, JumpKinds, i
  <2>2. Stream!EndOfBlock(blk, start) = of(N + 1) + (4 + blk.num_phi_assigns * 16)
    BY <2>1 DEF Stream!EndOfBlock, Stream!SizeofPhiHeader, Stream!SizeofPhiAssign
  <2>3. e = Stream!InstructionSize(i) + (4 + phis * 16) /\ Stream!InstructionSize(i) \in Nat
    <3>1. c.count = i.count /\ c.phis = phis /\ c.kind \in JumpKinds
      BY <1>4, <1>8, <2>1 DEF JumpKinds
    <3>2. phis \in Nat /\ i.count \in Nat
      BY <1>1, <1>2, <1>3
    <3>3. CASE i.kind = "SWITCH"
      BY <1>4, <3>1, <3>2, <3>3 DEF Stream!ReadExtent, Stream!InstructionSize, Stream!Sizeof,
         Stream!SizeofCase,
           Stream!SizeofPhiHeader, Stream!SizeofPhiAssign
    <3>4. CASE i.kind = "BR"
      BY <1>4, <3>1, <3>2, <3>4 DEF Stream!ReadExtent, Stream!InstructionSize, Stream!Sizeof,
           Stream!SizeofPhiHeader, Stream!SizeofPhiAssign
    <3>5. CASE i.kind = "BR_INT1"
      BY <1>4, <3>1, <3>2, <3>5 DEF Stream!ReadExtent, Stream!InstructionSize, Stream!Sizeof,
           Stream!SizeofPhiHeader, Stream!SizeofPhiAssign
    <3> QED BY <1>8, <3>3, <3>4, <3>5 DEF JumpKinds
  <2> HIDE DEF e, of, N
  <2>4. e \in Nat /\ of(k) + e <= Stream!EndOfBlock(blk, start)
    <3>1. phis \in Nat /\ blk.num_phi_assigns \in Nat /\ phis <= blk.num_phi_assigns
      BY <1>1, <1>3
    <3>2. of(k) \in Nat /\ of(N + 1) \in Nat /\ of(k) + Stream!InstructionSize(i) <= of(N + 1)
      BY <1>5
    <3>3. e \in Nat
      BY <2>3, <3>1
    <3>4. of(k) + e <= of(N + 1) + (4 + blk.num_phi_assigns * 16)
      BY <2>3, <3>1, <3>2
    <3> QED BY <2>2, <3>3, <3>4
  <2>5. \A j \in 1..N : ~(k < j)
    BY <1>1, <2>1
  <2> QED BY <2>4, <2>5 DEF e, of, c, i, N
<1> QED BY <1>7, <1>8

\* The start of a block is the next address that four divides.
LEMMA Aligned ==
  ASSUME NEW x \in Nat
  PROVE  Stream!AlignUp(x, 4) \in Nat /\ x <= Stream!AlignUp(x, 4) /\ Stream!AlignUp(x, 4) % 4 = 0
<1>1. 4 \in Nat /\ 4 # 0
  OBVIOUS
<1> DEFINE up == ((x + 4 - 1) \div 4) * 4
<1>2. up \in Nat /\ x <= up /\ up % 4 = 0
  BY <1>1, RoundUp
<1>3. Stream!AlignUp(x, 4) = up
  BY DEF Stream!AlignUp
<1> QED BY <1>2, <1>3

-----------------------------------------------------------------------------
(* The blocks, one behind the other.                                        *)

\* What the invariant says of one block.
LEMMA OneBlock ==
  ASSUME FunctionOK(bbs), PassesOK, NEW b \in 1..Len(bb_offsets)
  PROVE  /\ b \in 1..Len(bbs) /\ BlockOK(bbs[b], Len(bbs)) /\ bb_offsets[b] \in Nat
         /\ End(b) \in Nat /\ bb_offsets[b] <= End(b)
         /\ b < Len(bbs) => bb_offsets[b] < End(b)
         /\ Len(bbs[b].insts) \in Nat /\ Len(bbs[b].insts) >= 1
         /\ DOMAIN bbs[b].insts = 1..Len(bbs[b].insts)
         /\ \A k \in Written(b) : /\ k \in 1..Len(bbs[b].insts)
                                  /\ Place(b, k) \in Nat /\ bb_offsets[b] <= Place(b, k)
                                  /\ Place(b, k) < End(b)
<1>1. b \in 1..Len(bbs)
  BY DEF PassesOK, FunctionOK
<1>2. BlockOK(bbs[b], Len(bbs)) /\ bb_offsets[b] \in Nat
  BY <1>1 DEF PassesOK, FunctionOK
<1> DEFINE blk == bbs[b]
           start == bb_offsets[b]
           N == Len(blk.insts)
<1>3. blk.insts \in Seq(Inst(Len(bbs))) /\ N \in Nat /\ N >= 1
  BY <1>2 DEF BlockOK
<1>4. DOMAIN blk.insts = 1..N
  BY <1>3
<1>5. /\ End(b) \in Nat /\ Stream!OffsetOf(blk, start, N + 1) <= End(b)
      /\ \A k \in 1..N : blk.insts[k].kind # "PHI" =>
           start <= Stream!OffsetOf(blk, start, k) /\ Stream!OffsetOf(blk, start, k) < Stream!OffsetOf(blk, start, N + 1)
  <2> HIDE DEF blk, start
  <2> QED BY <1>2, BlockEnds DEF End, blk, start
<1>6. Stream!OffsetOf(blk, start, 1) = start /\ \A k \in 1..(N + 1) : Stream!OffsetOf(blk, start, k) \in Nat
  <2> HIDE DEF blk, start
  <2> QED BY <1>2, OffsetSteps DEF blk, start
<1>7. start <= Stream!OffsetOf(blk, start, N + 1)
  <2>1. 1 \in 1..(N + 1) /\ N + 1 \in 1..(N + 1) /\ 1 <= N + 1
    BY <1>3
  <2> HIDE DEF blk, start
  <2> QED BY <1>2, <1>6, <2>1, OffsetsUp DEF blk, start
<1>8. \A k \in Written(b) : k \in 1..N /\ blk.insts[k].kind # "PHI"
                            /\ Place(b, k) = Stream!OffsetOf(blk, start, k)
  BY <1>4 DEF Written, Place
<1>9. b < Len(bbs) => blk.insts[N].kind # "PHI"
  BY <1>1 DEF FunctionOK, BodyKinds
<1> HIDE DEF blk, start, N
<1>10. N \in 1..N /\ N + 1 \in 1..(N + 1) /\ \A k \in 1..N : k \in 1..(N + 1)
  BY <1>3
<1>11. Stream!OffsetOf(blk, start, N + 1) \in Nat /\ start \in Nat
  BY <1>2, <1>6, <1>10 DEF start
<1>12. start <= End(b)
  BY <1>5, <1>7, <1>11
<1>13. b < Len(bbs) => start < End(b)
  <2> SUFFICES ASSUME b < Len(bbs) PROVE start < End(b)
    OBVIOUS
  <2>1. start <= Stream!OffsetOf(blk, start, N) /\ Stream!OffsetOf(blk, start, N) < Stream!OffsetOf(blk, start, N + 1)
        /\ Stream!OffsetOf(blk, start, N) \in Nat
    BY <1>5, <1>6, <1>9, <1>10
  <2> QED BY <1>5, <1>11, <2>1
<1>14. ASSUME NEW k \in Written(b)
       PROVE  k \in 1..N /\ Place(b, k) \in Nat /\ start <= Place(b, k) /\ Place(b, k) < End(b)
  <2>1. k \in 1..N /\ start <= Place(b, k) /\ Place(b, k) < Stream!OffsetOf(blk, start, N + 1)
        /\ Place(b, k) \in Nat
    BY <1>5, <1>6, <1>8, <1>10
  <2> QED BY <1>5, <1>11, <2>1
<1> QED BY <1>1, <1>2, <1>3, <1>4, <1>5, <1>12, <1>13, <1>14 DEF blk, start, N

\* A block ends before the next one starts.
LEMMA BlocksUp ==
  ASSUME FunctionOK(bbs), PassesOK,
         NEW b \in 1..Len(bb_offsets), NEW c \in 1..Len(bb_offsets), b < c
  PROVE  End(b) <= bb_offsets[c]
<1> DEFINE M == Len(bb_offsets)
           L == c - b - 1
           Good == {d \in 0..L : End(b) <= bb_offsets[b + 1 + d]}
<1>1. M \in Nat /\ b \in 1..M /\ c \in 1..M /\ L \in Nat
  BY DEF PassesOK
<1>2. \A x \in 1..M : x # 1 => bb_offsets[x] = Stream!AlignUp(End(x - 1), 4)
  BY DEF PassesOK
<1>3. \A x \in 1..M : End(x) \in Nat /\ bb_offsets[x] \in Nat /\ bb_offsets[x] <= End(x)
  BY OneBlock
<1> HIDE DEF M
<1>4. \A x \in 1..M : x + 1 \in 1..M => End(x) <= bb_offsets[x + 1]
  <2> SUFFICES ASSUME NEW x \in 1..M, x + 1 \in 1..M PROVE End(x) <= bb_offsets[x + 1]
    OBVIOUS
  <2>1. x + 1 # 1 /\ (x + 1) - 1 = x
    BY <1>1
  <2>2. bb_offsets[x + 1] = Stream!AlignUp(End(x), 4)
    BY <1>2, <2>1
  <2> QED BY <1>3, <2>2, Aligned
<1>5. 0 \in Good
  <2>1. b + 1 + 0 = b + 1 /\ b + 1 \in 1..M
    BY <1>1
  <2> QED BY <1>1, <1>4, <2>1
<1>6. ASSUME NEW d \in 0..L, d < L, d \in Good PROVE d + 1 \in Good
  <2> DEFINE x == b + 1 + d
  <2>1. x \in 1..M /\ x + 1 \in 1..M /\ x + 1 = b + 1 + (d + 1) /\ d + 1 \in 0..L
    BY <1>1, <1>6
  <2>2. End(b) <= bb_offsets[x]
    BY <1>6
  <2> HIDE DEF x
  <2>3. bb_offsets[x] <= End(x) /\ End(x) <= bb_offsets[x + 1] /\ End(b) \in Nat
        /\ bb_offsets[x] \in Nat /\ End(x) \in Nat /\ bb_offsets[x + 1] \in Nat
    BY <1>1, <1>3, <1>4, <2>1
  <2>4. End(b) <= bb_offsets[x + 1]
    BY <2>2, <2>3
  <2> QED BY <2>1, <2>4
<1>7. L \in Good
  <2>1. L \in 0..L
    BY <1>1
  <2> HIDE DEF Good, L
  <2> QED BY <1>1, <1>5, <1>6, <2>1, NatSetUpTo
<1>8. b + 1 + L = c
  BY <1>1
<1> QED BY <1>7, <1>8

\* Two instructions of the blocks that have a place are apart, and the last block ends last.
LEMMA PlacesApart ==
  ASSUME MaxU8 \in Nat, MaxU16 \in Nat, FunctionOK(bbs), PassesOK,
         NEW b \in 1..Len(bb_offsets), NEW c \in 1..Len(bb_offsets),
         NEW j \in Written(b), NEW k \in Written(c), Place(b, j) < Place(c, k)
  PROVE  Place(b, j) + Stream!ReadExtent(Stream!Encoded(bbs[b].insts[j], bbs[b])) <= Place(c, k)
<1> DEFINE e == Stream!ReadExtent(Stream!Encoded(bbs[b].insts[j], bbs[b]))
<1>1. /\ BlockOK(bbs[b], Len(bbs)) /\ bb_offsets[b] \in Nat /\ j \in 1..Len(bbs[b].insts)
      /\ BlockOK(bbs[c], Len(bbs)) /\ bb_offsets[c] \in Nat /\ k \in 1..Len(bbs[c].insts)
      /\ bbs[b].insts[j].kind # "PHI"
  BY OneBlock DEF Written
<1>2. /\ Place(b, j) \in Nat /\ Place(c, k) \in Nat /\ bb_offsets[c] <= Place(c, k)
      /\ bb_offsets[b] <= Place(b, j) /\ Place(c, k) < End(c) /\ End(b) \in Nat /\ End(c) \in Nat
  BY OneBlock
<1>3. /\ e \in Nat /\ Place(b, j) + e <= End(b)
      /\ \A i \in 1..Len(bbs[b].insts) : j < i => Place(b, j) + e <= Place(b, i)
  BY <1>1, Extents DEF Place, End
<1> HIDE DEF e
<1>4. b \in Nat /\ c \in Nat
  BY DEF PassesOK
<1>5. CASE b < c
  <2>1. End(b) <= bb_offsets[c]
    BY <1>5, BlocksUp
  <2> QED BY <1>1, <1>2, <1>3, <2>1 DEF e
<1>6. CASE c < b
  <2>1. End(c) <= bb_offsets[b]
    BY <1>6, BlocksUp
  <2>2. FALSE
    BY <1>1, <1>2, <2>1
  <2> QED BY <2>2
<1>7. CASE b = c
  <2>1. j < k
    <3> SUFFICES ASSUME ~(j < k) PROVE FALSE
      OBVIOUS
    <3>1. Len(bbs[b].insts) \in Nat
      BY OneBlock
    <3> DEFINE N == Len(bbs[b].insts)
    <3>2. j \in 1..(N + 1) /\ k \in 1..(N + 1) /\ k <= j
      BY <1>1, <1>7, <3>1
    <3>3. Place(b, k) <= Place(b, j)
      BY <1>1, <3>2, OffsetsUp DEF Place
    <3> QED BY <1>2, <1>7, <3>3
  <2> QED BY <1>1, <1>3, <1>7, <2>1 DEF e
<1> QED BY <1>4, <1>5, <1>6, <1>7

-----------------------------------------------------------------------------
(* The passes.                                                              *)

\* The part of the invariant that does not depend on the run.
LaidOut == FunctionOK(bbs) /\ PassesOK /\ StreamOK

\* The largest counts are numbers.
StreamNumbers == MaxU8 \in Nat /\ MaxU16 \in Nat

\* The first pass finds where the next block starts.
LEMMA SizeBlockKeeps ==
  ASSUME LaidOut, Stream!SizeBlock
  PROVE  LaidOut'
<1> USE DEF LaidOut
<1>1. phase = "size" /\ n \in 1..Len(bbs) /\ Len(bbs) \in Nat
  BY DEF Stream!SizeBlock, PassesOK, FunctionOK
<1>2. bb_offsets \in Seq(Nat) /\ Len(bb_offsets) = n - 1
  BY <1>1 DEF PassesOK
<1>3. offset \in Nat
  <2>1. n # 1 => End(n - 1) \in Nat
    <3>1. n # 1 => n - 1 \in 1..Len(bb_offsets)
      BY <1>1, <1>2
    <3> QED BY <3>1, OneBlock
  <2> QED BY <2>1 DEF PassesOK
<1> DEFINE start == Stream!AlignUp(offset, 4)
<1>4. start \in Nat
  BY <1>3, Aligned
<1>5. /\ bb_offsets' = Append(bb_offsets, start) /\ offset' = Stream!EndOfBlock(bbs[n], start)
      /\ n' = n + 1 /\ bbs' = bbs /\ phase' = phase /\ size' = size /\ stream' = stream
  BY DEF Stream!SizeBlock
<1> HIDE DEF start
<1>6. /\ bb_offsets' \in Seq(Nat) /\ Len(bb_offsets') = n /\ bb_offsets'[n] = start
      /\ \A b \in 1..(n - 1) : bb_offsets'[b] = bb_offsets[b]
  BY <1>1, <1>2, <1>4, <1>5
<1>7. \A b \in 1..(n - 1) : End(b)' = End(b)
  <2> SUFFICES ASSUME NEW b \in 1..(n - 1) PROVE End(b)' = End(b)
    OBVIOUS
  <2> QED BY <1>5, <1>6 DEF End
<1>8. ASSUME NEW b \in 1..Len(bb_offsets')
      PROVE  bb_offsets'[b] = IF b = 1 THEN 0 ELSE Stream!AlignUp(End(b - 1)', 4)
  <2>1. CASE b \in 1..(n - 1)
    <3>1. b \in 1..Len(bb_offsets) /\ (b # 1 => b - 1 \in 1..(n - 1))
      BY <1>1, <1>2, <2>1
    <3>2. bb_offsets[b] = IF b = 1 THEN 0 ELSE Stream!AlignUp(End(b - 1), 4)
      BY <3>1 DEF PassesOK
    <3> QED BY <1>6, <1>7, <2>1, <3>1, <3>2
  <2>2. CASE b = n
    <3>1. n # 1 => n - 1 \in 1..(n - 1)
      BY <1>1
    <3>2. Stream!AlignUp(0, 4) = 0
      BY DEF Stream!AlignUp
    <3>3. start = IF n = 1 THEN 0 ELSE Stream!AlignUp(End(n - 1), 4)
      BY <3>2 DEF PassesOK, start
    <3> QED BY <1>6, <1>7, <2>2, <3>1, <3>3
  <2> QED BY <1>1, <1>6, <2>1, <2>2
<1>9. PassesOK'
  <2>1. phase' \in {"size", "write", "run", "end"} /\ phase' = "size"
    BY <1>1, <1>5
  <2>2. n' \in 1..(Len(bbs') + 1) /\ n' # 1 /\ n' - 1 = n
    BY <1>1, <1>5
  <2>3. Len(bb_offsets') = n' - 1 /\ bb_offsets' \in Seq(Nat)
    BY <1>6, <2>2
  <2>4. offset' = End(n - 1)'
    BY <1>5, <1>6, <2>2 DEF End
  <2>5. size' = 0
    BY <1>1, <1>5 DEF PassesOK
  <2> QED BY <1>8, <2>1, <2>2, <2>3, <2>4, <2>5 DEF PassesOK
<1>10. FunctionOK(bbs)'
  BY <1>5
<1>11. StreamOK'
  <2>1. phase' = "size" /\ DOMAIN stream' = {}
    BY <1>1, <1>5 DEF StreamOK
  <2> QED BY <2>1 DEF StreamOK
<1> QED BY <1>9, <1>10, <1>11

\* What does not change a block leaves its instructions where they are.
LEMMA SamePlaces ==
  ASSUME bbs' = bbs, bb_offsets' = bb_offsets
  PROVE  /\ \A b, k : Place(b, k)' = Place(b, k)
         /\ \A b : Written(b)' = Written(b) /\ End(b)' = End(b)
         /\ \A b, k : Stream!Encoded(bbs[b].insts[k], bbs[b])' = Stream!Encoded(bbs[b].insts[k], bbs[b])
<1>1. ASSUME NEW b, NEW k PROVE Place(b, k)' = Place(b, k)
  BY DEF Place
<1>2. ASSUME NEW b PROVE Written(b)' = Written(b) /\ End(b)' = End(b)
  BY DEF Written, End
<1>3. ASSUME NEW b, NEW k
      PROVE  Stream!Encoded(bbs[b].insts[k], bbs[b])' = Stream!Encoded(bbs[b].insts[k], bbs[b])
  BY Zenon DEF Stream!Encoded
<1> QED BY <1>1, <1>2, <1>3

\* The stream is allocated.
LEMMA AllocateKeeps ==
  ASSUME LaidOut, Stream!Allocate
  PROVE  LaidOut'
<1> USE DEF LaidOut
<1>1. phase = "size" /\ n = Len(bbs) + 1 /\ Len(bbs) \in Nat \ {0}
  BY DEF Stream!Allocate, PassesOK, FunctionOK
<1>2. /\ bb_offsets' = bb_offsets /\ offset' = 0 /\ n' = 1 /\ bbs' = bbs /\ phase' = "write"
      /\ size' = offset + Stream!Sizeof.CALL /\ stream' = stream
  BY DEF Stream!Allocate
<1>3. \A b : End(b)' = End(b)
  BY <1>2, SamePlaces
<1>4. Len(bb_offsets) = Len(bbs) /\ bb_offsets \in Seq(Nat) /\ offset = End(Len(bbs))
  BY <1>1 DEF PassesOK
<1>5. PassesOK'
  <2>1. /\ phase' \in {"size", "write", "run", "end"} /\ phase' \notin {"size", "run", "end"}
        /\ n' \in 1..(Len(bbs') + 1) /\ n' = 1 /\ bb_offsets' \in Seq(Nat)
        /\ Len(bb_offsets') = Len(bbs') /\ offset' = 0
    BY <1>1, <1>2, <1>4
  <2>2. \A b \in 1..Len(bb_offsets') :
          bb_offsets'[b] = IF b = 1 THEN 0 ELSE Stream!AlignUp(End(b - 1)', 4)
    BY <1>2, <1>3 DEF PassesOK
  <2>3. size' = End(Len(bbs))' + Stream!Sizeof.CALL
    BY <1>2, <1>4 DEF End
  <2> QED BY <2>1, <2>2, <2>3 DEF PassesOK
<1>6. FunctionOK(bbs)'
  BY <1>2
<1>7. StreamOK'
  <2>1. phase' = "write" /\ DOMAIN stream' = {} /\ n' = 1
    BY <1>1, <1>2 DEF StreamOK
  <2>2. 1..(n' - 1) = {}
    BY <2>1
  <2> QED BY <2>1, <2>2 DEF StreamOK
<1> QED BY <1>5, <1>6, <1>7

\* The second pass writes a block where the first one found it.
LEMMA WriteBlockKeeps ==
  ASSUME StreamNumbers, LaidOut, Stream!WriteBlock
  PROVE  LaidOut' /\ phase' = phase
<1> USE DEF LaidOut
<1>1. phase = "write" /\ n \in 1..Len(bbs) /\ Len(bbs) \in Nat
  BY DEF Stream!WriteBlock, PassesOK, FunctionOK
<1>2. bb_offsets \in Seq(Nat) /\ Len(bb_offsets) = Len(bbs) /\ n \in 1..Len(bb_offsets)
  BY <1>1 DEF PassesOK
<1> DEFINE start == Stream!AlignUp(offset, 4)
<1>3. start = bb_offsets[n]
  <2>1. Stream!AlignUp(0, 4) = 0
    BY DEF Stream!AlignUp
  <2> QED BY <1>2, <2>1 DEF PassesOK
<1> DEFINE over == {Place(n, k) : k \in Written(n)}
           new(o) == Stream!Encoded(bbs[n].insts[CHOOSE k \in Written(n) : Place(n, k) = o], bbs[n])
<1>4. /\ stream' = [o \in DOMAIN stream \cup over |-> IF o \notin over THEN stream[o] ELSE new(o)]
      /\ offset' = End(n) /\ phase' = phase /\ n' = n + 1
      /\ UNCHANGED <<bbs, bb_offsets, size, inst, at>>
  <2>1. /\ stream' = [o \in DOMAIN stream \cup {Stream!OffsetOf(bbs[n], start, k) : k \in Written(n)} |->
                       IF o \notin {Stream!OffsetOf(bbs[n], start, k) : k \in Written(n)} THEN stream[o]
                       ELSE Stream!Encoded(bbs[n].insts[CHOOSE k \in Written(n) :
                                                          Stream!OffsetOf(bbs[n], start, k) = o], bbs[n])]
        /\ offset' = Stream!EndOfBlock(bbs[n], start)
        /\ phase' = (IF start = bb_offsets[n] THEN phase ELSE "fatal")
        /\ n' = n + 1
        /\ UNCHANGED <<bbs, bb_offsets, size, inst, at>>
    BY DEF Stream!WriteBlock, Written
  <2> HIDE DEF start
  <2> QED BY <1>3, <2>1 DEF Place, End
<1> HIDE DEF start
<1>5. bbs' = bbs /\ bb_offsets' = bb_offsets /\ size' = size
  BY <1>4
<1>6. /\ \A b, k : Place(b, k)' = Place(b, k)
      /\ \A b : Written(b)' = Written(b) /\ End(b)' = End(b)
      /\ \A b, k : Stream!Encoded(bbs[b].insts[k], bbs[b])' = Stream!Encoded(bbs[b].insts[k], bbs[b])
  BY <1>5, SamePlaces
<1>7. PassesOK'
  <2>1. /\ phase' = "write" /\ n' \in 1..(Len(bbs') + 1) /\ n' # 1 /\ n' - 1 = n
        /\ bb_offsets' \in Seq(Nat) /\ Len(bb_offsets') = Len(bbs')
    BY <1>1, <1>2, <1>4, <1>5
  <2>2. \A b \in 1..Len(bb_offsets') :
          bb_offsets'[b] = IF b = 1 THEN 0 ELSE Stream!AlignUp(End(b - 1)', 4)
    BY <1>5, <1>6 DEF PassesOK
  <2>3. size' = End(Len(bbs))' + Stream!Sizeof.CALL
    BY <1>1, <1>5 DEF PassesOK, End
  <2>4. offset' = End(n - 1)'
    BY <1>4, <1>5, <2>1 DEF End
  <2> QED BY <2>1, <2>2, <2>3, <2>4 DEF PassesOK
<1>8. ASSUME NEW k \in Written(n)
      PROVE  /\ Place(n, k) \in DOMAIN stream'
             /\ stream'[Place(n, k)] = Stream!Encoded(bbs[n].insts[k], bbs[n])
  <2> DEFINE o == Place(n, k)
             c == CHOOSE j \in Written(n) : Place(n, j) = o
  <2>1. c \in Written(n) /\ Place(n, c) = o
    OBVIOUS
  <2> HIDE DEF c
  <2>2. c = k
    <3>1. BlockOK(bbs[n], Len(bbs)) /\ bb_offsets[n] \in Nat /\ Len(bbs[n].insts) \in Nat
          /\ c \in 1..Len(bbs[n].insts) /\ k \in 1..Len(bbs[n].insts)
          /\ bbs[n].insts[c].kind # "PHI" /\ bbs[n].insts[k].kind # "PHI"
      BY <1>2, <2>1, OneBlock DEF Written
    <3>2. ASSUME NEW x \in 1..Len(bbs[n].insts), NEW y \in 1..Len(bbs[n].insts), x < y,
                 bbs[n].insts[x].kind # "PHI"
          PROVE  Place(n, x) # Place(n, y)
      <4> DEFINE N == Len(bbs[n].insts)
      <4>1. x \in 1..(N + 1) /\ y \in 1..(N + 1) /\ x <= y
        BY <3>1, <3>2
      <4>2. Place(n, x) + Stream!InstructionSize(bbs[n].insts[x]) <= Place(n, y)
        BY <3>1, <3>2, <4>1, OffsetsUp DEF Place
      <4>3. Stream!InstructionSize(bbs[n].insts[x]) \in Nat /\ Stream!InstructionSize(bbs[n].insts[x]) >= 4
        <5>1. bbs[n].insts[x] \in Inst(Len(bbs))
          BY <3>1 DEF BlockOK
        <5> QED BY <3>2, <5>1, Sizes
      <4>4. Place(n, x) \in Nat /\ Place(n, y) \in Nat
        BY <3>1, <4>1, OffsetSteps DEF Place
      <4> QED BY <4>2, <4>3, <4>4
    <3> QED BY <2>1, <3>1, <3>2
  <2>3. o \in over
    OBVIOUS
  <2>4. stream'[o] = new(o) /\ o \in DOMAIN stream'
    <3> HIDE DEF over, new, o
    <3> QED BY <1>4, <2>3
  <2> QED BY <2>2, <2>4 DEF c
<1>9. ASSUME NEW b \in 1..(n - 1), NEW k \in Written(b)
      PROVE  /\ Place(b, k) \in DOMAIN stream'
             /\ stream'[Place(b, k)] = Stream!Encoded(bbs[b].insts[k], bbs[b])
  <2>1. b \in 1..Len(bb_offsets) /\ b < n
    BY <1>1, <1>2
  <2>2. Place(b, k) \in DOMAIN stream /\ stream[Place(b, k)] = Stream!Encoded(bbs[b].insts[k], bbs[b])
    BY <1>1 DEF StreamOK
  <2>3. Place(b, k) \notin over
    <3> SUFFICES ASSUME NEW j \in Written(n), Place(b, k) = Place(n, j) PROVE FALSE
      OBVIOUS
    <3>1. End(b) <= bb_offsets[n]
      BY <1>2, <2>1, BlocksUp
    <3>2. Place(b, k) \in Nat /\ Place(b, k) < End(b) /\ End(b) \in Nat
      BY <2>1, OneBlock
    <3>3. Place(n, j) \in Nat /\ bb_offsets[n] <= Place(n, j) /\ bb_offsets[n] \in Nat
      BY <1>2, OneBlock
    <3> QED BY <3>1, <3>2, <3>3
  <2> HIDE DEF over, new
  <2> QED BY <1>4, <2>2, <2>3
<1>10. StreamOK'
  <2>1. phase' = "write" /\ n' - 1 = n
    BY <1>1, <1>4
  <2>2. ASSUME NEW b \in 1..n, NEW k \in Written(b)
        PROVE  /\ Place(b, k) \in DOMAIN stream'
               /\ stream'[Place(b, k)] = Stream!Encoded(bbs[b].insts[k], bbs[b])
    <3>1. b \in 1..(n - 1) \/ b = n
      BY <1>1
    <3> QED BY <1>8, <1>9, <3>1
  <2>3. ASSUME NEW o \in DOMAIN stream'
        PROVE  \E b \in 1..n : \E k \in Written(b) : o = Place(b, k)
    <3>1. n \in 1..n /\ \A b \in 1..(n - 1) : b \in 1..n
      BY <1>1
    <3>2. CASE o \in DOMAIN stream
      BY <1>1, <3>1, <3>2 DEF StreamOK
    <3>3. CASE o \in over
      BY <3>1, <3>3
    <3> HIDE DEF over, new
    <3> QED BY <1>4, <3>2, <3>3
  <2>4. \A b \in 1..(n' - 1) : \A k \in Written(b)' :
          /\ Place(b, k)' \in DOMAIN stream'
          /\ stream'[Place(b, k)'] = Stream!Encoded(bbs[b].insts[k], bbs[b])'
    <3> HIDE DEF over, new
    <3> QED BY <1>6, <2>1, <2>2
  <2>5. \A o \in DOMAIN stream' : \E b \in 1..(n' - 1) : \E k \in Written(b)' : o = Place(b, k)'
    BY <1>6, <2>1, <2>3
  <2> QED BY <2>1, <2>4, <2>5 DEF StreamOK
<1>11. FunctionOK(bbs)'
  BY <1>5
<1> QED BY <1>4, <1>7, <1>10, <1>11

\* The trap lies behind the last block.
LEMMA WriteTrapKeeps ==
  ASSUME LaidOut, Stream!WriteTrap
  PROVE  LaidOut'
<1> USE DEF LaidOut
<1>1. phase = "write" /\ n = Len(bbs) + 1 /\ Len(bbs) \in Nat \ {0} /\ n - 1 = Len(bbs)
  BY DEF Stream!WriteTrap, PassesOK, FunctionOK
<1>2. Len(bb_offsets) = Len(bbs) /\ bb_offsets \in Seq(Nat) /\ offset = End(Len(bbs))
  BY <1>1 DEF PassesOK
<1>3. /\ stream' = [o \in DOMAIN stream \cup {offset} |-> IF o = offset THEN Stream!Trap ELSE stream[o]]
      /\ phase' = "run" /\ n' = n /\ offset' = offset /\ size' = size
      /\ bbs' = bbs /\ bb_offsets' = bb_offsets
  BY DEF Stream!WriteTrap
<1>4. /\ \A b, k : Place(b, k)' = Place(b, k)
      /\ \A b : Written(b)' = Written(b) /\ End(b)' = End(b)
      /\ \A b, k : Stream!Encoded(bbs[b].insts[k], bbs[b])' = Stream!Encoded(bbs[b].insts[k], bbs[b])
  BY <1>3, SamePlaces
<1>5. ASSUME NEW b \in 1..(n - 1), NEW k \in Written(b) PROVE Place(b, k) # offset
  <2> DEFINE l == Len(bbs)
  <2>1. b \in 1..Len(bb_offsets) /\ l \in 1..Len(bb_offsets) /\ b \in Nat
    BY <1>1, <1>2
  <2>2. Place(b, k) \in Nat /\ Place(b, k) < End(b) /\ End(b) \in Nat
    BY <2>1, OneBlock
  <2>3. End(l) \in Nat /\ bb_offsets[l] \in Nat /\ bb_offsets[l] <= End(l)
    BY <2>1, OneBlock
  <2>4. b # l => End(b) <= bb_offsets[l]
    <3>1. b \in 1..l /\ l \in Nat
      BY <1>1, <1>2, <2>1
    <3>2. b # l => b < l
      <4> HIDE DEF l
      <4> QED BY <3>1
    <3> QED BY <2>1, <3>2, BlocksUp
  <2> HIDE DEF l
  <2>5. Place(b, k) < End(l)
    BY <2>2, <2>3, <2>4
  <2> QED BY <1>2, <2>2, <2>3, <2>5 DEF l
<1>6. PassesOK'
  <2>1. /\ phase' = "run" /\ n' = Len(bbs') + 1 /\ n' \in 1..(Len(bbs') + 1)
        /\ bb_offsets' \in Seq(Nat) /\ Len(bb_offsets') = Len(bbs')
    BY <1>1, <1>2, <1>3
  <2>2. \A b \in 1..Len(bb_offsets') :
          bb_offsets'[b] = IF b = 1 THEN 0 ELSE Stream!AlignUp(End(b - 1)', 4)
    BY <1>3, <1>4 DEF PassesOK
  <2>3. size' = End(Len(bbs))' + Stream!Sizeof.CALL
    BY <1>1, <1>3 DEF PassesOK, End
  <2>4. offset' = IF n' = 1 THEN 0 ELSE End(n - 1)'
    BY <1>3 DEF PassesOK, End
  <2> QED BY <2>1, <2>2, <2>3, <2>4 DEF PassesOK
<1>7. StreamOK'
  <2>1. offset' \in DOMAIN stream' /\ stream'[offset'] = Stream!Trap
    BY <1>3
  <2>2. ASSUME NEW b \in 1..(n - 1), NEW k \in Written(b)
        PROVE  /\ Place(b, k) \in DOMAIN stream'
               /\ stream'[Place(b, k)] = Stream!Encoded(bbs[b].insts[k], bbs[b])
    <3>1. Place(b, k) \in DOMAIN stream /\ stream[Place(b, k)] = Stream!Encoded(bbs[b].insts[k], bbs[b])
      BY <1>1 DEF StreamOK
    <3> QED BY <1>3, <1>5, <3>1
  <2>3. ASSUME NEW o \in DOMAIN stream'
        PROVE  (\E b \in 1..(n - 1) : \E k \in Written(b) : o = Place(b, k)) \/ o = offset
    BY <1>1, <1>3 DEF StreamOK
  <2>4. \A b \in 1..(n' - 1) : \A k \in Written(b)' :
          /\ Place(b, k)' \in DOMAIN stream'
          /\ stream'[Place(b, k)'] = Stream!Encoded(bbs[b].insts[k], bbs[b])'
    BY <1>3, <1>4, <2>2
  <2>5. \A o \in DOMAIN stream' :
          \/ \E b \in 1..(n' - 1) : \E k \in Written(b)' : o = Place(b, k)'
          \/ phase' \in {"run", "end"} /\ o = offset'
    BY <1>3, <1>4, <2>3
  <2> QED BY <1>3, <2>1, <2>4, <2>5 DEF StreamOK
<1>8. FunctionOK(bbs)'
  BY <1>3
<1> QED BY <1>6, <1>7, <1>8

\* A run changes nothing of what was laid out.
LEMMA RunLeaves ==
  ASSUME LaidOut, phase \in {"run", "end"}, phase' \in {"run", "end"},
         UNCHANGED <<bbs, n, offset, bb_offsets, size, stream>>
  PROVE  LaidOut'
<1> USE DEF LaidOut
<1>1. bbs' = bbs /\ n' = n /\ offset' = offset /\ bb_offsets' = bb_offsets /\ size' = size
      /\ stream' = stream
  OBVIOUS
<1>2. /\ \A b, k : Place(b, k)' = Place(b, k)
      /\ \A b : Written(b)' = Written(b) /\ End(b)' = End(b)
      /\ \A b, k : Stream!Encoded(bbs[b].insts[k], bbs[b])' = Stream!Encoded(bbs[b].insts[k], bbs[b])
  BY <1>1, SamePlaces
<1>3. PassesOK'
  <2>1. \A b \in 1..Len(bb_offsets') :
          bb_offsets'[b] = IF b = 1 THEN 0 ELSE Stream!AlignUp(End(b - 1)', 4)
    BY <1>1, <1>2 DEF PassesOK
  <2>2. size' = End(Len(bbs))' + Stream!Sizeof.CALL
    BY <1>1 DEF PassesOK, End
  <2>3. offset' = IF n' = 1 THEN 0 ELSE End(n - 1)'
    BY <1>1 DEF PassesOK, End
  <2> QED BY <1>1, <2>1, <2>2, <2>3 DEF PassesOK
<1>4. StreamOK'
  <2>1. \A b \in 1..(n' - 1) : \A k \in Written(b)' :
          /\ Place(b, k)' \in DOMAIN stream'
          /\ stream'[Place(b, k)'] = Stream!Encoded(bbs[b].insts[k], bbs[b])'
    BY <1>1, <1>2 DEF StreamOK
  <2>2. \A o \in DOMAIN stream' :
          \/ \E b \in 1..(n' - 1) : \E k \in Written(b)' : o = Place(b, k)'
          \/ phase' \in {"run", "end"} /\ o = offset'
    BY <1>1, <1>2 DEF StreamOK
  <2> QED BY <1>1, <2>1, <2>2 DEF StreamOK
<1>5. FunctionOK(bbs)'
  BY <1>1
<1> QED BY <1>3, <1>4, <1>5

-----------------------------------------------------------------------------
(* The run.                                                                 *)

\* The instruction k of block b is one that is written, or the trap.
Runs(b, k) ==
  \/ k \in Written(b)
  \/ k = Len(bbs[b].insts) + 1 /\ b = Len(bbs) /\ ~Stream!WritesPhiAssigns(bbs[b])

\* The address of the interpreter is that of the instruction the function is at.
Running ==
  /\ at = <<at[1], at[2]>> /\ at[1] \in 1..Len(bbs)
  /\ inst = Place(at[1], at[2])
  /\ Runs(at[1], at[2])

\* CountsFit, of the function that is laid out.
AllFit == \A b \in 1..Len(bbs) : Fits(bbs[b])

\* The invariant of the run, on top of LaidOut.
RunInv ==
  /\ AllFit
  /\ phase \in {"size", "write"} => inst = 0 /\ at = Stream!Skip(1, 1)
  /\ phase \in {"run", "end"} => Running

\* What is skipped takes no place, and what is found behind it can run.
LEMMA Skipped ==
  ASSUME FunctionOK(bbs), PassesOK, Len(bb_offsets) = Len(bbs),
         NEW b \in 1..Len(bbs), NEW k \in 1..(Len(bbs[b].insts) + 1),
         k = Len(bbs[b].insts) + 1 => bbs[b].insts[Len(bbs[b].insts)].kind \in BodyKinds
  PROVE  \E m : Stream!Skip(b, k) = <<b, m>> /\ Place(b, m) = Place(b, k) /\ Runs(b, m)
<1> DEFINE blk == bbs[b]
           N == Len(blk.insts)
           rest == {j \in DOMAIN blk.insts : j >= k /\ blk.insts[j].kind # "PHI"}
<1>1. BlockOK(blk, Len(bbs)) /\ bb_offsets[b] \in Nat /\ N \in Nat /\ N >= 1 /\ DOMAIN blk.insts = 1..N
  BY OneBlock
<1>2. Stream!Skip(b, k) = IF rest = {} THEN <<b, N + 1>> ELSE <<b, Stream!Min(rest)>>
  BY DEF Stream!Skip
<1>3. \A j \in rest : j \in Written(b) /\ j \in 1..N /\ k <= j
  BY <1>1 DEF Written
<1>4. CASE rest = {}
  <2>1. \A i \in 1..N : k <= i => blk.insts[i].kind = "PHI"
    BY <1>1, <1>4
  <2>2. blk.insts[N].kind \in BodyKinds
    <3>1. k <= N => blk.insts[N].kind = "PHI"
      BY <1>1, <2>1
    <3>2. k = N + 1 \/ k <= N
      BY <1>1
    <3> QED BY <3>1, <3>2 DEF BodyKinds
  <2>3. b = Len(bbs)
    <3>1. ~(b < Len(bbs)) /\ Len(bbs) \in Nat
      BY <2>2 DEF FunctionOK
    <3> HIDE DEF blk, rest
    <3> QED BY <3>1
  <2>4. ~Stream!WritesPhiAssigns(blk)
    <3> SUFFICES ASSUME NEW i \in DOMAIN blk.insts,
                        blk.insts[i].kind \in {"BR", "BR_INT1", "SWITCH"}
                 PROVE  FALSE
      BY DEF Stream!WritesPhiAssigns
    <3>1. i \in 1..N /\ blk.insts[i].kind \notin BodyKinds
      BY <1>1 DEF BodyKinds
    <3>2. i = N
      BY <1>1, <3>1 DEF BlockOK
    <3> QED BY <2>2, <3>1, <3>2
  <2>5. Place(b, k) = Place(b, N + 1)
    <3>1. N + 1 \in 1..(N + 1) /\ k <= N + 1 /\ k \in 1..(N + 1)
      BY <1>1
    <3> QED BY <1>1, <2>1, <3>1, OffsetsSame DEF Place
  <2> QED BY <1>2, <1>4, <2>3, <2>4, <2>5 DEF Runs
<1>5. CASE rest # {}
  <2> DEFINE m == Stream!Min(rest)
  <2>1. rest \in SUBSET Nat
    BY <1>1
  <2>2. m \in rest /\ \A j \in rest : m <= j
    <3> HIDE DEF rest
    <3>1. Stream!Min(rest) = Min(rest)
      BY DEF Stream!Min, Min
    <3> QED BY <1>5, <2>1, <3>1, MinIn
  <2> HIDE DEF m
  <2>3. m \in 1..N /\ k <= m /\ m \in Written(b)
    BY <1>3, <2>2
  <2>4. \A i \in 1..N : k <= i /\ i < m => blk.insts[i].kind = "PHI"
    <3> SUFFICES ASSUME NEW i \in 1..N, k <= i, i < m, blk.insts[i].kind # "PHI" PROVE FALSE
      OBVIOUS
    <3>1. i \in rest
      BY <1>1
    <3>2. m <= i
      BY <2>2, <3>1
    <3> QED BY <2>3, <3>2
  <2>5. Place(b, k) = Place(b, m)
    <3>1. m \in 1..(N + 1) /\ k \in 1..(N + 1)
      BY <1>1, <2>3
    <3> QED BY <1>1, <2>3, <2>4, <3>1, OffsetsSame DEF Place
  <2> QED BY <1>2, <1>5, <2>3, <2>5 DEF Runs, m
<1> QED BY <1>4, <1>5

\* The stream holds what should run.
LEMMA FetchesIt ==
  ASSUME LaidOut, Running, phase \in {"run", "end"}
  PROVE  /\ inst \in DOMAIN stream /\ inst \in Nat
         /\ at[2] \in Written(at[1]) => Stream!Fetched = Stream!Encoded(bbs[at[1]].insts[at[2]], bbs[at[1]])
         /\ at[2] \notin Written(at[1]) => Stream!Fetched = Stream!Trap /\ at[2] \notin DOMAIN bbs[at[1]].insts
<1> USE DEF LaidOut
<1> DEFINE b == at[1]
           k == at[2]
<1>1. b \in 1..Len(bbs) /\ inst = Place(b, k) /\ n = Len(bbs) + 1 /\ Len(bb_offsets) = Len(bbs)
      /\ Len(bbs) \in Nat \ {0} /\ n - 1 = Len(bbs) /\ phase # "size"
  BY DEF Running, PassesOK, FunctionOK
<1>2. b \in 1..Len(bb_offsets) /\ b \in 1..(n - 1)
  BY <1>1
<1>3. CASE k \in Written(b)
  <2>1. Place(b, k) \in DOMAIN stream /\ stream[Place(b, k)] = Stream!Encoded(bbs[b].insts[k], bbs[b])
    BY <1>1, <1>2, <1>3 DEF StreamOK
  <2>2. Place(b, k) \in Nat
    BY <1>2, <1>3, OneBlock
  <2> QED BY <1>1, <1>3, <2>1, <2>2 DEF Stream!Fetched
<1>4. CASE k \notin Written(b)
  <2>1. k = Len(bbs[b].insts) + 1 /\ b = Len(bbs) /\ ~Stream!WritesPhiAssigns(bbs[b])
    BY <1>4 DEF Running, Runs
  <2>2. Len(bbs[b].insts) \in Nat /\ DOMAIN bbs[b].insts = 1..Len(bbs[b].insts)
        /\ BlockOK(bbs[b], Len(bbs)) /\ bb_offsets[b] \in Nat /\ End(b) \in Nat
    BY <1>2, OneBlock
  <2>3. Place(b, k) \in Nat
    <3>1. k \in 1..(Len(bbs[b].insts) + 1)
      BY <2>1, <2>2
    <3> QED BY <2>2, <3>1, OffsetSteps DEF Place
  <2>4. End(b) = Place(b, k)
    <3>1. End(b) = Place(b, k) + 0
      BY <2>1 DEF End, Stream!EndOfBlock, Place
    <3> QED BY <2>3, <3>1
  <2>5. offset = End(b)
    BY <1>1, <2>1 DEF PassesOK
  <2>6. offset \in DOMAIN stream /\ stream[offset] = Stream!Trap
    BY DEF StreamOK
  <2>7. k \notin DOMAIN bbs[b].insts
    BY <2>1, <2>2
  <2> QED BY <1>1, <1>4, <2>3, <2>4, <2>5, <2>6, <2>7 DEF Stream!Fetched
<1> QED BY <1>3, <1>4

\* The fields of what was written of an instruction that fits.
LEMMA FieldsKept ==
  ASSUME StreamNumbers, FunctionOK(bbs), AllFit, NEW b \in 1..Len(bbs), NEW k \in Written(b)
  PROVE  LET i == bbs[b].insts[k]
             c == Stream!Encoded(i, bbs[b])
         IN  /\ c.kind = i.kind /\ c.count = i.count
             /\ i.to # <<>> => c.phis = bbs[b].num_phi_assigns
             /\ c.to = [j \in DOMAIN i.to |-> bb_offsets[i.to[j]]]
             /\ i \in Inst(Len(bbs)) /\ k \in 1..Len(bbs[b].insts)
<1> DEFINE i == bbs[b].insts[k]
           c == Stream!Encoded(i, bbs[b])
<1>1. BlockOK(bbs[b], Len(bbs)) /\ Fits(bbs[b])
  BY DEF FunctionOK, AllFit
<1>2. k \in 1..Len(bbs[b].insts)
  BY <1>1 DEF BlockOK, Written
<1>3. i \in Inst(Len(bbs)) /\ bbs[b].num_phi_assigns \in Nat
  BY <1>1, <1>2 DEF BlockOK
<1>4. i.count \in Nat /\ i.count <= MaxU8 /\ bbs[b].num_phi_assigns <= MaxU16
  BY <1>1, <1>2, <1>3 DEF Fits, Inst
<1>5. i.count % (MaxU8 + 1) = i.count
      /\ bbs[b].num_phi_assigns % (MaxU16 + 1) = bbs[b].num_phi_assigns
  BY <1>3, <1>4, CutCount DEF StreamNumbers
<1> HIDE DEF i
<1>6. /\ c.kind = i.kind /\ c.count = (IF i.kind = "CALL" THEN i.count % (MaxU8 + 1) ELSE i.count)
      /\ c.to = [j \in DOMAIN i.to |-> bb_offsets[i.to[j]]]
      /\ c.phis = IF i.to # <<>> THEN bbs[b].num_phi_assigns % (MaxU16 + 1) ELSE 0
  BY DEF Stream!Encoded
<1> HIDE DEF c
<1> QED BY <1>2, <1>3, <1>5, <1>6 DEF i, c

\* When the stream is written, the interpreter starts with the first instruction.
LEMMA StartsRunning ==
  ASSUME LaidOut, RunInv, Stream!WriteTrap
  PROVE  RunInv'
<1> USE DEF LaidOut
<1>1. /\ phase = "write" /\ phase' = "run" /\ inst = 0 /\ at = Stream!Skip(1, 1)
      /\ inst' = inst /\ at' = at /\ bbs' = bbs /\ bb_offsets' = bb_offsets
  BY DEF Stream!WriteTrap, RunInv
<1>2. Len(bb_offsets) = Len(bbs) /\ Len(bbs) \in Nat \ {0} /\ bb_offsets[1] = 0
      /\ 1 \in 1..Len(bbs)
  <2>1. Len(bb_offsets) = Len(bbs) /\ Len(bbs) \in Nat \ {0} /\ 1 \in 1..Len(bbs)
    BY <1>1 DEF PassesOK, FunctionOK
  <2> QED BY <2>1 DEF PassesOK
<1>3. Len(bbs[1].insts) \in Nat /\ Len(bbs[1].insts) >= 1 /\ BlockOK(bbs[1], Len(bbs))
  BY <1>2, OneBlock
<1>4. 1 \in 1..(Len(bbs[1].insts) + 1) /\ 1 # Len(bbs[1].insts) + 1
  BY <1>3
<1>5. PICK m : Stream!Skip(1, 1) = <<1, m>> /\ Place(1, m) = Place(1, 1) /\ Runs(1, m)
  BY <1>2, <1>4, Skipped
<1>6. Place(1, 1) = 0
  BY <1>2, <1>3, OffsetSteps DEF Place
<1>7. at' = <<1, m>> /\ inst' = Place(1, m)
  BY <1>1, <1>5, <1>6
<1>8. Running'
  <2>1. at'[1] = 1 /\ at'[2] = m
    BY <1>7
  <2>2. at' = <<at'[1], at'[2]>> /\ at'[1] \in 1..Len(bbs')
    BY <1>1, <1>2, <1>7, <2>1
  <2>3. inst' = Place(at[1], at[2])'
    BY <1>1, <1>7, <2>1 DEF Place
  <2>4. Runs(at[1], at[2])'
    BY <1>1, <1>5, <2>1 DEF Runs, Written
  <2> QED BY <2>2, <2>3, <2>4 DEF Running
<1>9. AllFit'
  BY <1>1 DEF RunInv, AllFit, Fits
<1> QED BY <1>1, <1>8, <1>9 DEF RunInv

\* A step of the interpreter goes on to the next instruction.
LEMMA AdvanceRuns ==
  ASSUME StreamNumbers, LaidOut, RunInv, Stream!Advance
  PROVE  RunInv'
<1> USE DEF LaidOut
<1> DEFINE b == at[1]
           k == at[2]
           i == bbs[b].insts[k]
<1>1. phase = "run" /\ phase' = phase /\ bbs' = bbs /\ bb_offsets' = bb_offsets /\ Running /\ AllFit
      /\ at' = Stream!Skip(b, k + 1)
  BY DEF Stream!Advance, RunInv
<1>2. b \in 1..Len(bbs) /\ Len(bb_offsets) = Len(bbs) /\ b \in 1..Len(bb_offsets)
  BY <1>1 DEF Running, PassesOK
<1>3. Stream!Fetched.kind \in {"BINOP", "VSELECT", "CALL"}
      /\ inst' = inst + Stream!Sizeof[Stream!Fetched.kind]
                      + IF Stream!Fetched.kind = "CALL" THEN Stream!Fetched.count * Stream!SizeofValueId ELSE 0
  BY DEF Stream!Advance
<1>4. k \in Written(b)
  <2>1. Stream!Fetched # Stream!Trap
    BY <1>3 DEF Stream!Trap
  <2> QED BY <1>1, <2>1, FetchesIt
<1>5. Stream!Fetched = Stream!Encoded(i, bbs[b])
  BY <1>1, <1>4, FetchesIt
<1>6. /\ Stream!Fetched.kind = i.kind /\ Stream!Fetched.count = i.count /\ i \in Inst(Len(bbs))
      /\ k \in 1..Len(bbs[b].insts)
  BY <1>1, <1>2, <1>4, <1>5, FieldsKept
<1>7. inst = Place(b, k) /\ inst \in Nat
  BY <1>1, FetchesIt DEF Running
<1>8. /\ BlockOK(bbs[b], Len(bbs)) /\ bb_offsets[b] \in Nat /\ Len(bbs[b].insts) \in Nat
  BY <1>2, OneBlock
<1>9. inst' = Place(b, k + 1)
  <2>1. Place(b, k + 1) = Place(b, k) + Stream!InstructionSize(i)
    BY <1>6, <1>8, OffsetSteps DEF Place
  <2> HIDE DEF i
  <2>2. i.count \in Nat
    BY <1>6 DEF Inst
  <2>3. inst' = inst + Stream!Sizeof[i.kind] + IF i.kind = "CALL" THEN i.count * 4 ELSE 0
    BY <1>3, <1>6 DEF Stream!SizeofValueId
  <2>4. Stream!InstructionSize(i) = Stream!Sizeof[i.kind] + IF i.kind = "CALL" THEN i.count * 4 ELSE 0
    <3>1. i.kind # "SWITCH"
      BY <1>3, <1>6
    <3> QED BY <3>1 DEF Stream!InstructionSize, Stream!SizeofValueId
  <2>5. Stream!Sizeof[i.kind] \in Nat
    BY <1>3, <1>6 DEF Stream!Sizeof
  <2> DEFINE sz == Stream!Sizeof[i.kind]
             more == IF i.kind = "CALL" THEN i.count * 4 ELSE 0
  <2>6. more \in Nat /\ sz \in Nat /\ inst' = inst + sz + more /\ Stream!InstructionSize(i) = sz + more
    BY <2>2, <2>3, <2>4, <2>5
  <2> HIDE DEF sz, more
  <2> QED BY <1>7, <2>1, <2>6
<1>10. k + 1 \in 1..(Len(bbs[b].insts) + 1)
       /\ (k + 1 = Len(bbs[b].insts) + 1 => bbs[b].insts[Len(bbs[b].insts)].kind \in BodyKinds)
  <2>1. i.kind \in BodyKinds
    BY <1>3, <1>6 DEF BodyKinds
  <2>2. k + 1 = Len(bbs[b].insts) + 1 => k = Len(bbs[b].insts)
    BY <1>6, <1>8
  <2>3. k + 1 \in 1..(Len(bbs[b].insts) + 1)
    BY <1>6, <1>8
  <2> QED BY <2>1, <2>2, <2>3
<1> HIDE DEF i
<1>11. PICK m : Stream!Skip(b, k + 1) = <<b, m>> /\ Place(b, m) = Place(b, k + 1) /\ Runs(b, m)
  BY <1>2, <1>10, Skipped
<1>12. at' = <<b, m>> /\ inst' = Place(b, m)
  BY <1>1, <1>9, <1>11
<1>13. Running'
  <2>1. at'[1] = b /\ at'[2] = m
    BY <1>12
  <2>2. at' = <<at'[1], at'[2]>> /\ at'[1] \in 1..Len(bbs')
    BY <1>1, <1>2, <1>12, <2>1
  <2> HIDE DEF b, k
  <2>3. inst' = Place(at[1], at[2])'
    BY <1>1, <1>12, <2>1 DEF Place
  <2>4. Runs(at[1], at[2])'
    BY <1>1, <1>11, <2>1 DEF Runs, Written
  <2> QED BY <2>2, <2>3, <2>4 DEF Running
<1>14. AllFit'
  BY <1>1 DEF AllFit, Fits
<1> QED BY <1>1, <1>13, <1>14 DEF RunInv

\* A jump goes to the start of the block that the function names.
LEMMA JumpRuns ==
  ASSUME StreamNumbers, LaidOut, RunInv, Stream!Jump
  PROVE  RunInv'
<1> USE DEF LaidOut
<1> DEFINE b == at[1]
           k == at[2]
           i == bbs[b].insts[k]
<1>1. phase = "run" /\ phase' = phase /\ bbs' = bbs /\ bb_offsets' = bb_offsets /\ Running /\ AllFit
  BY DEF Stream!Jump, RunInv
<1>2. b \in 1..Len(bbs) /\ Len(bb_offsets) = Len(bbs) /\ b \in 1..Len(bb_offsets)
  BY <1>1 DEF Running, PassesOK
<1>3. PICK j \in DOMAIN Stream!Fetched.to : inst' = Stream!Fetched.to[j] /\ at' = Stream!Skip(i.to[j], 1)
  BY DEF Stream!Jump
<1>4. k \in Written(b)
  <2>1. Stream!Trap.to = <<>>
    BY DEF Stream!Trap
  <2>2. Stream!Fetched # Stream!Trap
    BY <1>3, <2>1
  <2> QED BY <1>1, <2>2, FetchesIt
<1>5. Stream!Fetched = Stream!Encoded(i, bbs[b])
  BY <1>1, <1>4, FetchesIt
<1>6. Stream!Fetched.to = [l \in DOMAIN i.to |-> bb_offsets[i.to[l]]] /\ i \in Inst(Len(bbs))
  BY <1>1, <1>2, <1>4, <1>5, FieldsKept
<1> HIDE DEF i
<1> DEFINE c == i.to[j]
<1>7. j \in DOMAIN i.to /\ inst' = bb_offsets[c] /\ c \in 1..Len(bbs)
  <2>1. j \in DOMAIN i.to
    BY <1>6
  <2>2. i.to \in Seq(1..Len(bbs))
    BY <1>6 DEF Inst
  <2>3. i.to[j] \in 1..Len(bbs)
    BY <2>1, <2>2
  <2> QED BY <1>3, <1>6, <2>1, <2>3
<1> HIDE DEF c
<1>8. at' = Stream!Skip(c, 1)
  BY <1>3 DEF c
<1>9. BlockOK(bbs[c], Len(bbs)) /\ bb_offsets[c] \in Nat /\ Len(bbs[c].insts) \in Nat
      /\ Len(bbs[c].insts) >= 1
  BY <1>2, <1>7, OneBlock
<1>10. 1 \in 1..(Len(bbs[c].insts) + 1) /\ 1 # Len(bbs[c].insts) + 1
  BY <1>9
<1>11. PICK m : Stream!Skip(c, 1) = <<c, m>> /\ Place(c, m) = Place(c, 1) /\ Runs(c, m)
  BY <1>2, <1>7, <1>10, Skipped
<1>12. Place(c, 1) = bb_offsets[c]
  BY <1>9, OffsetSteps DEF Place
<1>13. at' = <<c, m>> /\ inst' = Place(c, m)
  BY <1>7, <1>8, <1>11, <1>12
<1>14. Running'
  <2>1. at'[1] = c /\ at'[2] = m
    BY <1>13
  <2>2. at' = <<at'[1], at'[2]>> /\ at'[1] \in 1..Len(bbs')
    BY <1>1, <1>7, <1>13, <2>1
  <2>3. inst' = Place(at[1], at[2])'
    BY <1>1, <1>13, <2>1 DEF Place
  <2>4. Runs(at[1], at[2])'
    BY <1>1, <1>11, <2>1 DEF Runs, Written
  <2> QED BY <2>2, <2>3, <2>4 DEF Running
<1>15. AllFit'
  BY <1>1 DEF AllFit, Fits
<1> QED BY <1>1, <1>14, <1>15 DEF RunInv

\* What changes neither the blocks nor the interpreter keeps its place.
LEMMA RunStays ==
  ASSUME RunInv, UNCHANGED <<bbs, inst, at>>,
         \/ phase \in {"size", "write"} /\ phase' \in {"size", "write"}
         \/ phase \in {"run", "end"} /\ phase' \in {"run", "end"} /\ bb_offsets' = bb_offsets
  PROVE  RunInv'
<1>1. bbs' = bbs /\ inst' = inst /\ at' = at
  OBVIOUS
<1>2. AllFit'
  BY <1>1 DEF RunInv, AllFit, Fits
<1>3. CASE phase \in {"size", "write"} /\ phase' \in {"size", "write"}
  <2>1. inst' = 0 /\ at' = Stream!Skip(1, 1)'
    BY <1>1, <1>3 DEF RunInv, Stream!Skip
  <2> QED BY <1>2, <1>3, <2>1 DEF RunInv
<1>4. CASE phase \in {"run", "end"} /\ phase' \in {"run", "end"} /\ bb_offsets' = bb_offsets
  <2>1. Running'
    BY <1>1, <1>4 DEF RunInv, Running, Runs, Written, Place
  <2> QED BY <1>2, <1>4, <2>1 DEF RunInv
<1> QED BY <1>3, <1>4

-----------------------------------------------------------------------------
(* The functions that are translated.                                       *)

\* An instruction from its fields.
LEMMA FieldsOfInst ==
  ASSUME NEW num \in Nat, NEW i, i = [kind |-> i.kind, count |-> i.count, to |-> i.to],
         i.kind \in Kinds, i.count \in Nat, i.to \in Seq(1..num)
  PROVE  i \in Inst(num)
BY Zenon DEF Inst

\* The instructions that functions are made of.
LEMMA Instructions ==
  ASSUME Stream!StreamAssumption, NEW num \in Nat, num # 0
  PROVE  /\ \A i \in Stream!Body : i \in Inst(num) /\ i.kind \in BodyKinds /\ i.to = <<>>
                                   /\ i.count \in Counts \cup {0}
         /\ \A i \in Stream!Leaves : i \in Inst(num) /\ i.kind \in LeafKinds /\ i.to = <<>> /\ i.count = 0
         /\ \A i \in Stream!Jumps(num) : i \in Inst(num) /\ i.kind \in JumpKinds /\ i.to # <<>>
                                         /\ i.count \in Counts \cup {0}
<1>1. Counts \subseteq Nat
  BY DEF Stream!StreamAssumption
<1>3. <<>> \in Seq(1..num) /\ BodyKinds \subseteq Kinds /\ LeafKinds \subseteq Kinds
      /\ JumpKinds \subseteq Kinds
  BY DEF Kinds
<1>4. ASSUME NEW i \in Stream!Body
      PROVE  i \in Inst(num) /\ i.kind \in BodyKinds /\ i.to = <<>> /\ i.count \in Counts \cup {0}
  <2>1. CASE i \in {[kind |-> k, count |-> 0, to |-> <<>>] : k \in {"BINOP", "VSELECT", "PHI"}}
    <3>1. PICK k \in {"BINOP", "VSELECT", "PHI"} : i = [kind |-> k, count |-> 0, to |-> <<>>]
      BY <2>1
    <3>2. k \in BodyKinds
      BY DEF BodyKinds
    <3>3. i.kind = k /\ i.count = 0 /\ i.to = <<>>
          /\ i = [kind |-> i.kind, count |-> i.count, to |-> i.to]
      BY <3>1
    <3>4. i \in Inst(num)
      <4>1. i.kind \in Kinds /\ i.count \in Nat /\ i.to \in Seq(1..num)
        BY <1>3, <3>2, <3>3
      <4>2. i = [kind |-> i.kind, count |-> i.count, to |-> i.to]
        BY <3>3
      <4> QED BY <4>1, <4>2, FieldsOfInst
    <3> QED BY <3>2, <3>3, <3>4
  <2>2. CASE i \in {[kind |-> "CALL", count |-> c, to |-> <<>>] : c \in Counts}
    <3>1. PICK c \in Counts : i = [kind |-> "CALL", count |-> c, to |-> <<>>]
      BY <2>2
    <3>2. "CALL" \in BodyKinds
      BY DEF BodyKinds
    <3>3. i.kind = "CALL" /\ i.count = c /\ i.to = <<>>
          /\ i = [kind |-> i.kind, count |-> i.count, to |-> i.to]
      BY <3>1
    <3>4. i \in Inst(num)
      <4>1. i.kind \in Kinds /\ i.count \in Nat /\ i.to \in Seq(1..num)
        BY <1>1, <1>3, <3>2, <3>3
      <4>2. i = [kind |-> i.kind, count |-> i.count, to |-> i.to]
        BY <3>3
      <4> QED BY <4>1, <4>2, FieldsOfInst
    <3> QED BY <3>2, <3>3, <3>4
  <2> QED BY <2>1, <2>2 DEF Stream!Body
<1>5. ASSUME NEW i \in Stream!Leaves
      PROVE  i \in Inst(num) /\ i.kind \in LeafKinds /\ i.to = <<>> /\ i.count = 0
  <2>1. PICK k \in LeafKinds : i = [kind |-> k, count |-> 0, to |-> <<>>]
    BY DEF Stream!Leaves, LeafKinds
  <2>2. i.kind = k /\ i.count = 0 /\ i.to = <<>>
        /\ i = [kind |-> i.kind, count |-> i.count, to |-> i.to]
    BY <2>1
  <2>3. i \in Inst(num)
    <3>1. i.kind \in Kinds /\ i.count \in Nat /\ i.to \in Seq(1..num)
      BY <1>3, <2>2
    <3>2. i = [kind |-> i.kind, count |-> i.count, to |-> i.to]
      BY <2>2
    <3> QED BY <3>1, <3>2, FieldsOfInst
  <2> QED BY <2>2, <2>3
<1>6. ASSUME NEW i \in Stream!Jumps(num)
      PROVE  i \in Inst(num) /\ i.kind \in JumpKinds /\ i.to # <<>> /\ i.count \in Counts \cup {0}
  <2>1. CASE i \in {[kind |-> "BR", count |-> 0, to |-> <<b>>] : b \in 1..num}
    <3>1. PICK b \in 1..num : i = [kind |-> "BR", count |-> 0, to |-> <<b>>]
      BY <2>1
    <3>2. <<b>> \in Seq(1..num) /\ <<b>> # <<>> /\ "BR" \in JumpKinds
      BY DEF JumpKinds
    <3>3. i.kind = "BR" /\ i.count = 0 /\ i.to = <<b>>
          /\ i = [kind |-> i.kind, count |-> i.count, to |-> i.to]
      BY <3>1
    <3>4. i \in Inst(num)
      <4>1. i.kind \in Kinds /\ i.count \in Nat /\ i.to \in Seq(1..num)
        BY <1>3, <3>2, <3>3
      <4>2. i = [kind |-> i.kind, count |-> i.count, to |-> i.to]
        BY <3>3
      <4> QED BY <4>1, <4>2, FieldsOfInst
    <3> QED BY <3>2, <3>3, <3>4
  <2>2. CASE i \in {[kind |-> "BR_INT1", count |-> 0, to |-> <<num, b>>] : b \in 1..num}
    <3>1. PICK b \in 1..num : i = [kind |-> "BR_INT1", count |-> 0, to |-> <<num, b>>]
      BY <2>2
    <3>2. num \in 1..num
      OBVIOUS
    <3>3. <<num, b>> \in Seq(1..num) /\ <<num, b>> # <<>> /\ "BR_INT1" \in JumpKinds
      BY <3>2 DEF JumpKinds
    <3>4. i.kind = "BR_INT1" /\ i.count = 0 /\ i.to = <<num, b>>
          /\ i = [kind |-> i.kind, count |-> i.count, to |-> i.to]
      BY <3>1
    <3>5. i \in Inst(num)
      <4>1. i.kind \in Kinds /\ i.count \in Nat /\ i.to \in Seq(1..num)
        BY <1>3, <3>3, <3>4
      <4>2. i = [kind |-> i.kind, count |-> i.count, to |-> i.to]
        BY <3>4
      <4> QED BY <4>1, <4>2, FieldsOfInst
    <3> QED BY <3>3, <3>4, <3>5
  <2>3. CASE i \in {[kind |-> "SWITCH", count |-> c, to |-> [k \in 1..(c + 1) |-> 1 + (k % num)]] :
                      c \in Counts}
    <3>1. PICK c \in Counts :
            i = [kind |-> "SWITCH", count |-> c, to |-> [k \in 1..(c + 1) |-> 1 + (k % num)]]
      BY <2>3
    <3> DEFINE to == [k \in 1..(c + 1) |-> 1 + (k % num)]
               M == c + 1
    <3>2. M \in Nat /\ M >= 1
      BY <1>1
    <3>3. \A k \in 1..M : 1 + (k % num) \in 1..num
      <4> SUFFICES ASSUME NEW k \in 1..M PROVE 1 + (k % num) \in 1..num
        OBVIOUS
      <4>1. k \in Nat
        BY <3>2
      <4>2. k % num \in 0..(num - 1)
        BY <4>1, DivMod
      <4> QED BY <4>2
    <3>4. to = [k \in 1..M |-> 1 + (k % num)]
      OBVIOUS
    <3> HIDE DEF M
    <3>5. to \in [1..M -> 1..num]
      BY <3>3, <3>4
    <3> HIDE DEF to
    <3>6. to \in Seq(1..num) /\ Len(to) = M
      BY <3>2, <3>5
    <3>7. to # <<>>
      BY <3>2, <3>6
    <3>8. "SWITCH" \in JumpKinds
      BY DEF JumpKinds
    <3>9. i = [kind |-> "SWITCH", count |-> c, to |-> to]
      BY <3>1 DEF to
    <3>10. i.kind = "SWITCH" /\ i.count = c /\ i.to = to
           /\ i = [kind |-> i.kind, count |-> i.count, to |-> i.to]
      BY <3>9
    <3>11. i \in Inst(num)
      BY <1>1, <1>3, <3>6, <3>8, <3>10 DEF Inst
    <3> QED BY <3>7, <3>8, <3>10, <3>11
  <2> QED BY <2>1, <2>2, <2>3 DEF Stream!Jumps
<1> QED BY <1>4, <1>5, <1>6

\* A body of instructions, with or without one that ends it, is a block.
LEMMA BodyIsBlock ==
  ASSUME Stream!StreamAssumption, NEW num \in Nat, num # 0,
         NEW body \in Stream!SeqOf(Stream!Body, MaxBody),
         NEW blk, blk = [insts |-> blk.insts, num_phi_assigns |-> blk.num_phi_assigns],
         blk.num_phi_assigns \in Nat,
         \/ blk.insts = body /\ body # <<>>
         \/ \E t \in Stream!Jumps(num) \cup Stream!Leaves : blk.insts = Append(body, t)
  PROVE  /\ BlockOK(blk, num)
         /\ \A k \in 1..Len(blk.insts) : blk.insts[k].count \in Counts \cup {0}
         /\ (\E t \in Stream!Jumps(num) \cup Stream!Leaves : blk.insts = Append(body, t)) =>
              blk.insts[Len(blk.insts)].kind \notin BodyKinds
<1> DEFINE L == Len(body)
<1>1. L \in Nat /\ body \in Seq(Stream!Body) /\ DOMAIN body = 1..L /\ \A k \in 1..L : body[k] \in Stream!Body
  <2>1. PICK m \in 0..MaxBody : body \in [1..m -> Stream!Body]
    BY DEF Stream!SeqOf, Stream!StreamAssumption
  <2>2. m \in Nat
    BY DEF Stream!StreamAssumption
  <2>3. body \in Seq(Stream!Body) /\ Len(body) = m
    BY <2>1, <2>2
  <2> QED BY <2>1, <2>2, <2>3
<1>2. \A k \in 1..L : /\ body[k] \in Inst(num) /\ body[k].kind \in BodyKinds /\ body[k].to = <<>>
                      /\ body[k].count \in Counts \cup {0}
  BY <1>1, Instructions
<1>3. body \in Seq(Inst(num))
  <2>1. body \in [1..L -> Inst(num)]
    <3>1. body = [k \in 1..L |-> body[k]]
      BY <1>1
    <3> QED BY <1>2, <3>1
  <2> HIDE DEF L
  <2> QED BY <1>1, <2>1
<1>4. JumpKinds \cap BodyKinds = {} /\ LeafKinds \cap BodyKinds = {} /\ LeafKinds \cap JumpKinds = {}
  BY DEF JumpKinds, BodyKinds, LeafKinds
<1>5. CASE blk.insts = body /\ body # <<>>
  <2>1. blk.insts = body
    BY <1>5
  <2>2. Len(body) >= 1
    <3>1. body \in Seq(Stream!Body) /\ body # <<>>
      BY <1>1, <1>5
    <3> HIDE DEF L
    <3> QED BY <3>1
  <2>3. BlockOK(blk, num)
    <3>1. \A k \in 1..Len(blk.insts) : blk.insts[k].to = <<>> /\ blk.insts[k].kind \notin JumpKinds
                                       /\ blk.insts[k].kind \in BodyKinds
      BY <1>2, <1>4, <2>1
    <3> QED BY <1>3, <2>1, <2>2, <3>1 DEF BlockOK
  <2>4. ASSUME NEW t \in Stream!Jumps(num) \cup Stream!Leaves,
               blk.insts = Append(body, t) PROVE FALSE
    <3>1. body = Append(body, t)
      BY <2>1, <2>4
    <3>2. Len(Append(body, t)) = Len(body) + 1
      <4>1. t \in Inst(num)
        BY Instructions
      <4> QED BY <1>3, <4>1
    <3> QED BY <1>1, <3>1, <3>2
  <2> QED BY <1>2, <2>1, <2>3, <2>4
<1>6. ASSUME NEW t \in Stream!Jumps(num) \cup Stream!Leaves, blk.insts = Append(body, t)
      PROVE  /\ BlockOK(blk, num)
             /\ \A k \in 1..Len(blk.insts) : blk.insts[k].count \in Counts \cup {0}
             /\ blk.insts[Len(blk.insts)].kind \notin BodyKinds
  <2> DEFINE s == Append(body, t)
  <2>1. blk.insts = s
    BY <1>6
  <2>2. t \in Inst(num) /\ t.kind \notin BodyKinds /\ (t.to # <<>> <=> t.kind \in JumpKinds)
        /\ t.count \in Counts \cup {0}
    BY <1>4, Instructions
  <2>3. /\ s \in Seq(Inst(num)) /\ Len(s) = L + 1 /\ s[L + 1] = t
        /\ \A k \in 1..L : s[k] = body[k]
    BY <1>1, <1>3, <2>2
  <2> HIDE DEF s, L
  <2>4. \A k \in 1..Len(s) : k \in 1..L \/ k = L + 1
    BY <1>1, <2>3
  <2>5. \A k \in 1..Len(s) : /\ s[k].to # <<>> <=> s[k].kind \in JumpKinds
                             /\ s[k].count \in Counts \cup {0}
                             /\ s[k].kind \notin BodyKinds => k = L + 1
    BY <1>2, <1>4, <2>2, <2>3, <2>4
  <2>6. Len(s) >= 1
    BY <1>1, <2>3
  <2>7. BlockOK(blk, num)
    BY <2>1, <2>3, <2>5, <2>6 DEF BlockOK
  <2> QED BY <2>1, <2>2, <2>3, <2>5, <2>7
<1> QED BY <1>5, <1>6

\* The blocks of a function are blocks, and their counts fit.
LEMMA BlocksAre ==
  ASSUME Stream!StreamAssumption, NEW num \in Nat, num # 0
  PROVE  /\ \A blk \in Stream!Terminated(num) :
              BlockOK(blk, num) /\ blk.insts[Len(blk.insts)].kind \notin BodyKinds
         /\ \A blk \in Stream!Unfinished : BlockOK(blk, num)
         /\ Stream!CountsFit => \A blk \in Stream!Terminated(num) \cup Stream!Unfinished : Fits(blk)
<1>1. Counts \subseteq Nat /\ PhiCounts \subseteq Nat /\ MaxU8 \in Nat /\ MaxU16 \in Nat
  BY DEF Stream!StreamAssumption
<1>2. ASSUME NEW blk \in Stream!Terminated(num)
      PROVE  \E body \in Stream!SeqOf(Stream!Body, MaxBody) : \E t \in Stream!Jumps(num) \cup Stream!Leaves :
               \E p \in PhiCounts \cup {0} : blk = [insts |-> Append(body, t), num_phi_assigns |-> p]
  <2>1. CASE blk \in {[insts |-> Append(body, t), num_phi_assigns |-> p] :
                        body \in Stream!SeqOf(Stream!Body, MaxBody), t \in Stream!Jumps(num), p \in PhiCounts}
    BY <2>1
  <2>2. CASE blk \in {[insts |-> Append(body, t), num_phi_assigns |-> 0] :
                        body \in Stream!SeqOf(Stream!Body, MaxBody), t \in Stream!Leaves}
    BY <2>2
  <2> QED BY <2>1, <2>2 DEF Stream!Terminated
<1>3. ASSUME NEW blk, BlockOK(blk, num), blk.num_phi_assigns \in PhiCounts \cup {0},
             Stream!CountsFit,
             \A k \in 1..Len(blk.insts) : blk.insts[k].count \in Counts \cup {0}
      PROVE  Fits(blk)
  <2>1. \A c \in Counts \cup {0} : c <= MaxU8
    BY <1>1, <1>3 DEF Stream!CountsFit
  <2>2. \A c \in PhiCounts \cup {0} : c <= MaxU16
    BY <1>1, <1>3 DEF Stream!CountsFit
  <2> QED BY <1>3, <2>1, <2>2 DEF Fits
<1>4. ASSUME NEW blk \in Stream!Terminated(num)
      PROVE  /\ BlockOK(blk, num) /\ blk.insts[Len(blk.insts)].kind \notin BodyKinds
             /\ Stream!CountsFit => Fits(blk)
  <2>1. PICK body \in Stream!SeqOf(Stream!Body, MaxBody),
             t \in Stream!Jumps(num) \cup Stream!Leaves, p \in PhiCounts \cup {0} :
          blk = [insts |-> Append(body, t), num_phi_assigns |-> p]
    BY <1>2
  <2>2. p \in Nat
    BY <1>1
  <2>3. blk.insts = Append(body, t) /\ blk.num_phi_assigns = p
        /\ blk = [insts |-> blk.insts, num_phi_assigns |-> blk.num_phi_assigns]
    BY <2>1
  <2>4. /\ BlockOK(blk, num)
        /\ \A k \in 1..Len(blk.insts) : blk.insts[k].count \in Counts \cup {0}
        /\ blk.insts[Len(blk.insts)].kind \notin BodyKinds
    BY <2>2, <2>3, BodyIsBlock
  <2> QED BY <1>3, <2>3, <2>4
<1>5. ASSUME NEW blk \in Stream!Unfinished PROVE BlockOK(blk, num) /\ (Stream!CountsFit => Fits(blk))
  <2>1. PICK body \in Stream!SeqOf(Stream!Body, MaxBody) \ {<<>>} : blk = [insts |-> body, num_phi_assigns |-> 0]
    BY DEF Stream!Unfinished
  <2>2. blk.insts = body /\ blk.num_phi_assigns = 0
        /\ blk = [insts |-> blk.insts, num_phi_assigns |-> blk.num_phi_assigns]
    BY <2>1
  <2>3. /\ BlockOK(blk, num)
        /\ \A k \in 1..Len(blk.insts) : blk.insts[k].count \in Counts \cup {0}
    BY <2>1, <2>2, BodyIsBlock
  <2> QED BY <1>3, <2>2, <2>3
<1> QED BY <1>4, <1>5

\* The invariant holds before the first pass.
LEMMA StreamInit ==
  ASSUME Stream!StreamAssumption, Stream!Init
  PROVE  LaidOut /\ (Stream!CountsFit => RunInv)
<1>0. PICK num \in 1..StreamBbs :
        \E front \in [1..(num - 1) -> Stream!Terminated(num)], last \in Stream!Terminated(num) \cup Stream!Unfinished :
          bbs = Append(front, last)
  BY DEF Stream!Init
<1>1. PICK front \in [1..(num - 1) -> Stream!Terminated(num)], last \in Stream!Terminated(num) \cup Stream!Unfinished :
        bbs = Append(front, last)
  BY <1>0
<1>2. num \in Nat /\ num # 0 /\ StreamBbs \in Nat
  BY DEF Stream!StreamAssumption
<1> DEFINE T == Stream!Terminated(num) \cup Stream!Unfinished
<1>3. front \in Seq(T) /\ Len(front) = num - 1
  <2>1. num - 1 \in Nat
    BY <1>2
  <2>2. \A b \in 1..(num - 1) : front[b] \in T
    OBVIOUS
  <2>3. front \in [1..(num - 1) -> T]
    BY <2>2
  <2> HIDE DEF T
  <2> QED BY <2>1, <2>3
<1>4. /\ Len(bbs) = num /\ DOMAIN bbs = 1..num /\ bbs[num] = last
      /\ \A b \in 1..(num - 1) : bbs[b] = front[b]
  <2>1. last \in T
    OBVIOUS
  <2> HIDE DEF T
  <2>2. bbs \in Seq(T)
    BY <1>1, <1>3, <2>1
  <2> QED BY <1>1, <1>2, <1>3, <2>1, <2>2
<1>5. ASSUME NEW b \in 1..num
      PROVE  /\ bbs[b] \in T
             /\ b < num => bbs[b] \in Stream!Terminated(num)
  <2>1. b \in 1..(num - 1) \/ b = num
    BY <1>2
  <2>2. b < num => b \in 1..(num - 1)
    BY <1>2
  <2> QED BY <1>4, <2>1, <2>2
<1>6. FunctionOK(bbs)
  <2>1. \A b \in 1..num : BlockOK(bbs[b], num)
    BY <1>2, <1>5, BlocksAre
  <2>2. \A b \in 1..num : b < num => bbs[b].insts[Len(bbs[b].insts)].kind \notin BodyKinds
    BY <1>2, <1>5, BlocksAre
  <2> HIDE DEF T
  <2> QED BY <1>2, <1>4, <2>1, <2>2 DEF FunctionOK
<1>7. PassesOK
  <2>1. /\ phase = "size" /\ n = 1 /\ bb_offsets = <<>> /\ offset = 0 /\ size = 0
    BY DEF Stream!Init
  <2>2. n \in 1..(Len(bbs) + 1) /\ Len(bb_offsets) = n - 1 /\ bb_offsets \in Seq(Nat)
    BY <1>2, <1>4, <2>1
  <2> QED BY <2>1, <2>2 DEF PassesOK
<1>8. StreamOK
  <2>1. phase = "size" /\ DOMAIN stream = {}
    BY DEF Stream!Init
  <2> QED BY <2>1 DEF StreamOK
<1>9. ASSUME Stream!CountsFit PROVE RunInv
  <2>1. AllFit
    BY <1>2, <1>4, <1>5, <1>9, BlocksAre DEF AllFit
  <2> QED BY <2>1 DEF Stream!Init, RunInv
<1> QED BY <1>6, <1>7, <1>8, <1>9 DEF LaidOut

\* The passes and the run keep what is laid out.
LEMMA LayoutKept ==
  ASSUME Stream!StreamAssumption, LaidOut, [Stream!Next]_(Stream!vars)
  PROVE  LaidOut' /\ phase' # "fatal"
<1>1. StreamNumbers
  BY DEF Stream!StreamAssumption, StreamNumbers
<1>2. CASE Stream!SizeBlock
  BY <1>2, SizeBlockKeeps DEF Stream!SizeBlock
<1>3. CASE Stream!Allocate
  BY <1>3, AllocateKeeps DEF Stream!Allocate
<1>4. CASE Stream!WriteBlock
  BY <1>1, <1>4, WriteBlockKeeps DEF Stream!WriteBlock
<1>5. CASE Stream!WriteTrap
  BY <1>5, WriteTrapKeeps DEF Stream!WriteTrap
<1>6. CASE Stream!Advance \/ Stream!Jump \/ Stream!Finish \/ Stream!Done
  <2>1. /\ phase \in {"run", "end"} /\ phase' \in {"run", "end"}
        /\ UNCHANGED <<bbs, n, offset, bb_offsets, size, stream>>
    BY <1>6 DEF Stream!Advance, Stream!Jump, Stream!Finish, Stream!Done, Stream!vars
  <2> QED BY <2>1, RunLeaves
<1>7. CASE UNCHANGED Stream!vars
  <2>1. /\ bbs' = bbs /\ n' = n /\ offset' = offset /\ bb_offsets' = bb_offsets /\ size' = size
        /\ stream' = stream /\ phase' = phase
    BY <1>7 DEF Stream!vars
  <2>2. FunctionOK(bbs)'
    BY <2>1 DEF LaidOut
  <2>3. PassesOK' /\ phase' # "fatal"
    BY <2>1 DEF LaidOut, PassesOK, End
  <2>4. StreamOK'
    BY <2>1 DEF LaidOut, StreamOK, Place, Written, Stream!Encoded
  <2> QED BY <2>2, <2>3, <2>4 DEF LaidOut
<1> QED BY <1>2, <1>3, <1>4, <1>5, <1>6, <1>7 DEF Stream!Next

\* A step of the passes or the interpreter keeps the run.
LEMMA RunKept ==
  ASSUME Stream!StreamAssumption, LaidOut, RunInv, [Stream!Next]_(Stream!vars)
  PROVE  RunInv'
<1>1. StreamNumbers
  BY DEF Stream!StreamAssumption, StreamNumbers
<1>2. CASE Stream!SizeBlock \/ Stream!Allocate \/ Stream!WriteBlock
  <2>1. phase \in {"size", "write"} /\ UNCHANGED <<bbs, inst, at>>
    BY <1>2 DEF Stream!SizeBlock, Stream!Allocate, Stream!WriteBlock
  <2>2. phase' \in {"size", "write"}
    BY <1>1, <1>2, WriteBlockKeeps DEF Stream!SizeBlock, Stream!Allocate, Stream!WriteBlock
  <2> QED BY <2>1, <2>2, RunStays
<1>3. CASE Stream!WriteTrap
  BY <1>3, StartsRunning
<1>4. CASE Stream!Advance
  BY <1>1, <1>4, AdvanceRuns
<1>5. CASE Stream!Jump
  BY <1>1, <1>5, JumpRuns
<1>6. CASE Stream!Finish \/ Stream!Done
  <2>1. /\ phase \in {"run", "end"} /\ phase' \in {"run", "end"}
        /\ UNCHANGED <<bbs, inst, at>> /\ bb_offsets' = bb_offsets
    BY <1>6 DEF Stream!Finish, Stream!Done, Stream!vars
  <2> QED BY <2>1, RunStays
<1>7. CASE UNCHANGED Stream!vars
  <2>1. UNCHANGED <<bbs, inst, at>> /\ bb_offsets' = bb_offsets /\ phase' = phase
    BY <1>7 DEF Stream!vars
  <2>2. phase \in {"size", "write", "run", "end"}
    BY DEF LaidOut, PassesOK
  <2> QED BY <2>1, <2>2, RunStays
<1> QED BY <1>2, <1>3, <1>4, <1>5, <1>6, <1>7 DEF Stream!Next

\* What the layout says of the stream.
LEMMA LayoutSound ==
  ASSUME Stream!StreamAssumption, LaidOut
  PROVE  Stream!PassesAgree /\ Stream!StreamApart /\ Stream!StartsApart
<1> USE DEF LaidOut
<1>1. MaxU8 \in Nat /\ MaxU16 \in Nat
  BY DEF Stream!StreamAssumption
<1>2. Stream!PassesAgree
  BY DEF PassesOK, Stream!PassesAgree
<1>3. /\ bb_offsets \in Seq(Nat) /\ Len(bb_offsets) \in Nat /\ DOMAIN bb_offsets = 1..Len(bb_offsets)
      /\ Len(bbs) \in Nat \ {0} /\ n \in 1..(Len(bbs) + 1)
      /\ phase # "size" => Len(bb_offsets) = Len(bbs)
  BY DEF PassesOK, FunctionOK
<1>4. Stream!StartsApart
  <2>1. ASSUME NEW b \in 1..Len(bb_offsets), NEW c \in 1..Len(bb_offsets), b < c
        PROVE  bb_offsets[b] # bb_offsets[c]
    <3>1. End(b) <= bb_offsets[c]
      BY <2>1, BlocksUp
    <3>2. /\ bb_offsets[b] \in Nat /\ bb_offsets[c] \in Nat /\ End(b) \in Nat /\ c \in 1..Len(bbs)
          /\ b < Len(bbs) => bb_offsets[b] < End(b)
      BY OneBlock
    <3>3. b < Len(bbs)
      BY <1>3, <2>1, <3>2
    <3> QED BY <3>1, <3>2, <3>3
  <2>2. \A b, c \in 1..Len(bb_offsets) : b # c => b < c \/ c < b
    BY <1>3
  <2> QED BY <1>3, <2>1, <2>2 DEF Stream!StartsApart
<1>5. ASSUME NEW o \in DOMAIN stream
      PROVE  /\ o \in Nat /\ Stream!ReadExtent(stream[o]) \in Nat
             /\ o + Stream!ReadExtent(stream[o]) <= size
             /\ \A p \in DOMAIN stream : o < p => o + Stream!ReadExtent(stream[o]) <= p
  <2>1. phase # "size"
    BY DEF StreamOK
  <2>2. Len(bb_offsets) = Len(bbs) /\ size = End(Len(bbs)) + 16
        /\ \A b \in 1..(n - 1) : b \in 1..Len(bb_offsets)
    BY <1>3, <2>1 DEF PassesOK, Stream!Sizeof
  <2> DEFINE l == Len(bbs)
  <2>3. l \in 1..Len(bb_offsets) /\ End(l) \in Nat /\ bb_offsets[l] \in Nat /\ bb_offsets[l] <= End(l)
    <3>1. l \in 1..Len(bb_offsets)
      BY <1>3, <2>2
    <3> QED BY <3>1, OneBlock
  <2>4. ASSUME NEW b \in 1..(n - 1), NEW k \in Written(b)
        PROVE  /\ Place(b, k) \in Nat /\ stream[Place(b, k)] = Stream!Encoded(bbs[b].insts[k], bbs[b])
               /\ Stream!ReadExtent(stream[Place(b, k)]) \in Nat
               /\ Place(b, k) + Stream!ReadExtent(stream[Place(b, k)]) <= End(l)
    <3>1. b \in 1..Len(bb_offsets)
      BY <2>2
    <3>2. /\ Place(b, k) \in Nat /\ End(b) \in Nat /\ BlockOK(bbs[b], Len(bbs))
          /\ bb_offsets[b] \in Nat /\ k \in 1..Len(bbs[b].insts) /\ bbs[b].insts[k].kind # "PHI"
      BY <3>1, OneBlock DEF Written
    <3>3. stream[Place(b, k)] = Stream!Encoded(bbs[b].insts[k], bbs[b])
      BY <2>1 DEF StreamOK
    <3>4. /\ Stream!ReadExtent(stream[Place(b, k)]) \in Nat
          /\ Place(b, k) + Stream!ReadExtent(stream[Place(b, k)]) <= End(b)
      BY <1>1, <3>2, <3>3, Extents DEF Place, End
    <3>5. End(b) <= End(l)
      <4>1. b \in 1..l /\ l \in Nat
        BY <1>3, <2>2, <3>1
      <4>2. b # l => b < l
        BY <4>1
      <4>3. b # l => End(b) <= bb_offsets[l]
        BY <2>3, <3>1, <4>2, BlocksUp
      <4> HIDE DEF l
      <4> QED BY <2>3, <3>2, <4>3
    <3> HIDE DEF l
    <3> QED BY <2>3, <3>2, <3>3, <3>4, <3>5
  <2>5. phase \in {"run", "end"} =>
          offset = End(l) /\ stream[offset] = Stream!Trap /\ Stream!ReadExtent(Stream!Trap) = 16
    <3>1. phase \in {"run", "end"} => n - 1 = l /\ n # 1
      BY <1>3 DEF PassesOK
    <3>2. Stream!ReadExtent(Stream!Trap) = 16
      BY DEF Stream!ReadExtent, Stream!Trap, Stream!Sizeof
    <3> QED BY <3>1, <3>2 DEF PassesOK, StreamOK
  <2> HIDE DEF l
  <2>6. size = End(l) + 16
    BY <2>2 DEF l
  <2>7. CASE \E b \in 1..(n - 1) : \E k \in Written(b) : o = Place(b, k)
    <3>1. PICK b \in 1..(n - 1) : \E k \in Written(b) : o = Place(b, k)
      BY <2>7
    <3>2. PICK k \in Written(b) : o = Place(b, k)
      BY <3>1
    <3>3. o \in Nat /\ Stream!ReadExtent(stream[o]) \in Nat /\ o + Stream!ReadExtent(stream[o]) <= End(l)
      BY <2>4, <3>2
    <3>4. ASSUME NEW p \in DOMAIN stream, o < p PROVE o + Stream!ReadExtent(stream[o]) <= p
      <4>1. CASE \E c \in 1..(n - 1) : \E j \in Written(c) : p = Place(c, j)
        <5>1. PICK c \in 1..(n - 1) : \E j \in Written(c) : p = Place(c, j)
          BY <4>1
        <5>2. PICK j \in Written(c) : p = Place(c, j)
          BY <5>1
        <5>3. b \in 1..Len(bb_offsets) /\ c \in 1..Len(bb_offsets)
          BY <2>2
        <5>4. Place(b, k) + Stream!ReadExtent(Stream!Encoded(bbs[b].insts[k], bbs[b])) <= Place(c, j)
          BY <1>1, <3>2, <3>4, <5>2, <5>3, PlacesApart
        <5> QED BY <2>4, <3>2, <5>2, <5>4
      <4>2. CASE phase \in {"run", "end"} /\ p = offset
        BY <2>5, <3>3, <4>2
      <4> QED BY <4>1, <4>2 DEF StreamOK
    <3> QED BY <2>3, <2>6, <3>3, <3>4
  <2>8. CASE phase \in {"run", "end"} /\ o = offset
    <3>1. o = End(l) /\ Stream!ReadExtent(stream[o]) = 16
      BY <2>5, <2>8
    <3>2. ASSUME NEW p \in DOMAIN stream, o < p PROVE FALSE
      <4>1. CASE \E c \in 1..(n - 1) : \E j \in Written(c) : p = Place(c, j)
        <5>1. PICK c \in 1..(n - 1) : \E j \in Written(c) : p = Place(c, j)
          BY <4>1
        <5>2. PICK j \in Written(c) : p = Place(c, j)
          BY <5>1
        <5>3. p \in Nat /\ Stream!ReadExtent(stream[p]) \in Nat /\ p + Stream!ReadExtent(stream[p]) <= End(l)
          BY <2>4, <5>2
        <5> QED BY <2>3, <3>1, <3>2, <5>3
      <4>2. CASE p = offset
        <5>1. p = o /\ o \in Nat
          BY <2>3, <2>8, <3>1, <4>2
        <5> QED BY <3>2, <5>1
      <4> QED BY <4>1, <4>2 DEF StreamOK
    <3> QED BY <2>3, <2>6, <3>1, <3>2
  <2> QED BY <2>7, <2>8 DEF StreamOK
<1>6. Stream!StreamApart
  BY <1>5 DEF Stream!StreamApart
<1> QED BY <1>2, <1>4, <1>6

\* What the invariant says of the run.
LEMMA RunSound ==
  ASSUME Stream!StreamAssumption, LaidOut, RunInv
  PROVE  Stream!TypeOK /\ Stream!RunsTheFunction
<1> USE DEF LaidOut
<1>1. /\ bb_offsets \in Seq(Nat) /\ DOMAIN bb_offsets = 1..Len(bb_offsets)
      /\ Len(bbs) \in Nat \ {0} /\ n \in 1..(Len(bbs) + 1)
      /\ phase \in {"size", "write", "run", "end"}
  BY DEF PassesOK, FunctionOK
<1>2. \A b \in 1..Len(bb_offsets) : End(b) \in Nat
  BY OneBlock
<1>3. offset \in Nat /\ size \in Nat
  <2>1. n # 1 => n - 1 \in 1..Len(bb_offsets)
    BY <1>1 DEF PassesOK
  <2>2. phase # "size" => Len(bbs) \in 1..Len(bb_offsets)
    BY <1>1 DEF PassesOK
  <2>3. Stream!Sizeof.CALL = 16
    BY DEF Stream!Sizeof
  <2> QED BY <1>2, <2>1, <2>2, <2>3 DEF PassesOK
<1>4. inst \in Nat
  <2>1. CASE phase \in {"size", "write"}
    BY <2>1 DEF RunInv
  <2>2. CASE phase \in {"run", "end"}
    BY <2>2, FetchesIt DEF RunInv
  <2> QED BY <1>1, <2>1, <2>2
<1>5. \A b \in DOMAIN bb_offsets : bb_offsets[b] % 4 = 0
  <2> SUFFICES ASSUME NEW b \in 1..Len(bb_offsets) PROVE bb_offsets[b] % 4 = 0
    BY <1>1
  <2>1. CASE b = 1
    BY <2>1 DEF PassesOK
  <2>2. CASE b # 1
    <3>1. b - 1 \in 1..Len(bb_offsets)
      BY <1>1, <2>2
    <3>2. bb_offsets[b] = Stream!AlignUp(End(b - 1), 4)
      BY <2>2 DEF PassesOK
    <3> QED BY <1>2, <3>1, <3>2, Aligned
  <2> QED BY <2>1, <2>2
<1>6. Stream!TypeOK
  BY <1>1, <1>3, <1>4, <1>5 DEF Stream!TypeOK
<1>7. ASSUME phase \in {"run", "end"}
      PROVE  /\ inst \in DOMAIN stream
             /\ IF at[2] \notin DOMAIN bbs[at[1]].insts
                THEN Stream!Fetched = Stream!Trap
                ELSE /\ Stream!Fetched.kind = bbs[at[1]].insts[at[2]].kind
                     /\ Stream!Fetched.count = bbs[at[1]].insts[at[2]].count
                     /\ Stream!Fetched.to # <<>> => Stream!Fetched.phis = bbs[at[1]].num_phi_assigns
  <2> DEFINE b == at[1]
             k == at[2]
             i == bbs[b].insts[k]
  <2>1. Running /\ AllFit
    BY <1>7 DEF RunInv
  <2>2. /\ inst \in DOMAIN stream
        /\ k \in Written(b) => Stream!Fetched = Stream!Encoded(i, bbs[b])
        /\ k \notin Written(b) => Stream!Fetched = Stream!Trap /\ k \notin DOMAIN bbs[b].insts
    BY <1>7, <2>1, FetchesIt
  <2>3. CASE k \notin Written(b)
    BY <2>2, <2>3
  <2>4. CASE k \in Written(b)
    <3>1. StreamNumbers /\ b \in 1..Len(bbs)
      BY <2>1 DEF Stream!StreamAssumption, StreamNumbers, Running
    <3>2. /\ Stream!Fetched.kind = i.kind /\ Stream!Fetched.count = i.count
          /\ i.to # <<>> => Stream!Fetched.phis = bbs[b].num_phi_assigns
          /\ Stream!Fetched.to = [j \in DOMAIN i.to |-> bb_offsets[i.to[j]]]
      <4>1. Stream!Fetched = Stream!Encoded(i, bbs[b])
        BY <2>2, <2>4
      <4> QED BY <2>1, <2>4, <3>1, <4>1, FieldsKept
    <3>3. k \in DOMAIN bbs[b].insts
      BY <2>4 DEF Written
    <3>4. i.to = <<>> => Stream!Fetched.to = <<>>
      <4> HIDE DEF i
      <4> QED BY <3>2
    <3> QED BY <2>2, <3>2, <3>3, <3>4
  <2> QED BY <2>3, <2>4
<1>8. Stream!RunsTheFunction
  BY <1>7 DEF Stream!RunsTheFunction
<1> QED BY <1>6, <1>8

-----------------------------------------------------------------------------
(* The theorems.                                                            *)

\* Both passes of the translator put every block in the same place, and no instruction
\* is written over another or behind the end.
THEOREM LayoutCorrect == Spec => []StreamSound
<1> DEFINE I == part = "stream" => LaidOut
<1>1. Init => I
  BY PassesAssumption, StreamInit DEF Init
<1>2. I /\ [Next]_vars => I'
  BY PassesAssumption, PartSteps, LayoutKept
<1>3. I => StreamSound
  BY PassesAssumption, LayoutSound DEF StreamSound
<1> QED BY <1>1, <1>2, <1>3, PTL DEF Spec

\* The part that was chosen for the stream keeps its invariant.
LEMMA StreamKept == Spec => [](part = "stream" => LaidOut /\ RunInv)
<1> DEFINE I == part = "stream" => LaidOut /\ RunInv
<1>1. Init => I
  BY PassesAssumption, CountsAssumption, StreamInit DEF Init
<1>2. I /\ [Next]_vars => I'
  BY PassesAssumption, PartSteps, LayoutKept, RunKept
<1> QED BY <1>1, <1>2, PTL DEF Spec

\* As long as the counts of a function fit into the fields of the stream, the
\* interpreter is always at the instruction of the function that comes next.
THEOREM RunCorrect == Spec => []RunsTheFunction
<1>1. (part = "stream" => LaidOut /\ RunInv) => RunsTheFunction
  BY PassesAssumption, RunSound DEF RunsTheFunction
<1> QED BY <1>1, StreamKept, PTL

\* The registers, the assignments and the places in the stream have their types.
THEOREM PassesTypes == Spec => []TypeOK
<1>1. (part = "stream" => LaidOut /\ RunInv) /\ (part = "phis" => PhiInv) => TypeOK
  BY PassesAssumption, RunSound, PhiSound DEF TypeOK
<1> QED BY <1>1, StreamKept, PhisKept, PTL

=============================================================================
