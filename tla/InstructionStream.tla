------------------------- MODULE InstructionStream -------------------------
(***************************************************************************)
(* The instruction stream of a function.  pn_function_calculate_opcodes    *)
(* walks the blocks twice with one routine, first to find where each block *)
(* starts and then to write; pn_thread_execute_instruction walks what was  *)
(* written, knowing nothing but the address it is at.  An instruction here *)
(* is its kind, the number of what trails it (arguments, cases) and the    *)
(* blocks it can go to; operands are left out.                             *)
(***************************************************************************)
EXTENDS Integers, Sequences, FiniteSets, SequencesExt, FiniteSetsExt

CONSTANTS
  NumBbs,         \* the most blocks of a function
  MaxBody,        \* the most instructions before the last one of a block
  Counts,         \* how many arguments or cases an instruction may have
  PhiCounts,      \* how many phi assignments a block may have
  MaxU8, MaxU16   \* the largest uint8_t and uint16_t

StreamAssumption ==
  /\ NumBbs \in Nat \ {0} /\ MaxBody \in Nat /\ MaxU8 \in Nat /\ MaxU16 \in Nat
  /\ Counts \subseteq Nat /\ PhiCounts \subseteq Nat

\* The counts fit into the fields they are written to, as the translator takes for granted.
CountsFit == (\A c \in Counts : c <= MaxU8) /\ (\A p \in PhiCounts : p <= MaxU16)

VARIABLES
  bbs,         \* function->bbs: instructions and number of phi assignments
  phase,       \* "size", "write", "run" or "end"
  n,           \* the block the pass is at
  offset,      \* where the pass is
  bb_offsets,  \* where each block starts
  size,        \* istream_size
  stream,      \* what was written, by offset
  inst,        \* thread->inst, as an offset
  at           \* history: block and index of the instruction that should run

vars == <<bbs, phase, n, offset, bb_offsets, size, stream, inst, at>>

-----------------------------------------------------------------------------
(* The layout.                                                                     *)

\* sizeof of the PNRuntimeInstruction structs; a phi and a forward reference to a type
\* are not written.
Sizeof ==
  [BINOP |-> 16, CAST |-> 12, VSELECT |-> 20, ALLOCA |-> 16, LOAD |-> 16, STORE |-> 16,
   CMP2 |-> 16, CALL |-> 16, RET |-> 4, RET_VALUE |-> 8, BR |-> 16, BR_INT1 |-> 24,
   SWITCH |-> 24, UNREACHABLE |-> 4, PHI |-> 0]

SizeofValueId   == 4
SizeofCase      == 16   \* PNRuntimeSwitchCase, and PNSwitchCase too
SizeofPhiHeader == 4
SizeofPhiAssign == 16

AlignUp(x, align) == ((x + align - 1) \div align) * align

\* The bytes that one instruction takes, with what trails it.
InstructionSize(i) ==
  Sizeof[i.kind] + (CASE i.kind = "CALL"   -> i.count * SizeofValueId
                      [] i.kind = "SWITCH" -> i.count * SizeofCase
                      [] OTHER             -> 0)

WritesPhiAssigns(bb) == \E k \in DOMAIN bb.insts : bb.insts[k].kind \in {"BR", "BR_INT1", "SWITCH"}

\* The offset at which instruction k of a block starts, when the block starts at start.
OffsetOf(bb, start, k) ==
  LET behind[j \in 0..Len(bb.insts)] ==
        IF j = 0 THEN start ELSE behind[j - 1] + InstructionSize(bb.insts[j])
  IN  behind[k - 1]

\* Slip: the first pass does not count the phi assignments.
EndOfBlockNoPhis(bb, start) == OffsetOf(bb, start, Len(bb.insts) + 1)

\* The offset that pn_basic_block_write_instruction_stream returns
EndOfBlock(bb, start) ==
  OffsetOf(bb, start, Len(bb.insts) + 1)
    + IF WritesPhiAssigns(bb) THEN SizeofPhiHeader + bb.num_phi_assigns * SizeofPhiAssign ELSE 0

-----------------------------------------------------------------------------
(* The function as it was read: every block but the last ends in a terminator.     *)

Body       == {[kind |-> k, count |-> 0, to |-> <<>>] : k \in {"BINOP", "VSELECT", "PHI"}}
              \cup {[kind |-> "CALL", count |-> c, to |-> <<>>] : c \in Counts}
Leaves     == {[kind |-> k, count |-> 0, to |-> <<>>] : k \in {"RET", "RET_VALUE", "UNREACHABLE"}}
Jumps(num) == {[kind |-> "BR", count |-> 0, to |-> <<b>>] : b \in 1..num}
              \cup {[kind |-> "BR_INT1", count |-> 0, to |-> <<num, b>>] : b \in 1..num}
              \cup {[kind |-> "SWITCH", count |-> c, to |-> [k \in 1..(c + 1) |-> 1 + (k % num)]] :
                      c \in Counts}

Terminated(num) ==
  {[insts |-> Append(body, t), num_phi_assigns |-> p] :
     body \in SeqOf(Body, MaxBody), t \in Jumps(num), p \in PhiCounts}
  \cup {[insts |-> Append(body, t), num_phi_assigns |-> 0] : body \in SeqOf(Body, MaxBody), t \in Leaves}

Unfinished == {[insts |-> body, num_phi_assigns |-> 0] : body \in SeqOf(Body, MaxBody) \ {<<>>}}

\* The first instruction from index k on that is written, in block b or, behind the
\* last one, the trap.
Skip(b, k) ==
  LET rest == {j \in DOMAIN bbs[b].insts : j >= k /\ bbs[b].insts[j].kind # "PHI"}
  IN  IF rest = {} THEN <<b, Len(bbs[b].insts) + 1>> ELSE <<b, Min(rest)>>

Init ==
  /\ \E num \in 1..NumBbs :
       \E front \in [1..(num - 1) -> Terminated(num)], last \in Terminated(num) \cup Unfinished :
         bbs = Append(front, last)
  /\ phase = "size"
  /\ n = 1
  /\ offset = 0
  /\ bb_offsets = <<>>
  /\ size = 0
  /\ stream = << >>
  /\ inst = 0
  /\ at = Skip(1, 1)

-----------------------------------------------------------------------------
(* pn_function_calculate_opcodes.                                                  *)

\* Slip: the first pass leaves out the phi assignments.
SizeBlockNoPhis ==
  /\ phase = "size" /\ n <= Len(bbs)
  /\ bb_offsets' = Append(bb_offsets, AlignUp(offset, 4))
  /\ offset' = EndOfBlockNoPhis(bbs[n], AlignUp(offset, 4))
  /\ n' = n + 1
  /\ UNCHANGED <<bbs, phase, size, stream, inst, at>>

\* The first pass, of one block
SizeBlock ==
  /\ phase = "size" /\ n <= Len(bbs)
  /\ LET start == AlignUp(offset, 4)
     IN  /\ bb_offsets' = Append(bb_offsets, start)
         /\ offset' = EndOfBlock(bbs[n], start)
  /\ n' = n + 1
  /\ UNCHANGED <<bbs, phase, size, stream, inst, at>>

\* The trap is added and the stream allocated.
Allocate ==
  /\ phase = "size" /\ n > Len(bbs)
  /\ size' = offset + Sizeof.CALL
  /\ phase' = "write"
  /\ n' = 1
  /\ offset' = 0
  /\ UNCHANGED <<bbs, bb_offsets, stream, inst, at>>

\* Slip: one block too far.
EncodedNextBlock(i, bb) ==
  [kind  |-> i.kind,
   count |-> i.count,
   to    |-> [k \in DOMAIN i.to |-> bb_offsets[(i.to[k] % Len(bb_offsets)) + 1]],
   phis  |-> IF i.to # <<>> THEN bb.num_phi_assigns ELSE 0]

\* What the stream holds of an instruction: counts are cut to the width of their field.
Encoded(i, bb) ==
  [kind  |-> i.kind,
   count |-> IF i.kind = "CALL" THEN i.count % (MaxU8 + 1) ELSE i.count,
   to    |-> [k \in DOMAIN i.to |-> bb_offsets[i.to[k]]],
   phis  |-> IF i.to # <<>> THEN bb.num_phi_assigns % (MaxU16 + 1) ELSE 0]

\* The second pass, of one block; PN_CHECK(offset == bb_offsets[n]) ends the program.
WriteBlock ==
  /\ phase = "write" /\ n <= Len(bbs)
  /\ LET start   == AlignUp(offset, 4)
         written == {k \in DOMAIN bbs[n].insts : bbs[n].insts[k].kind # "PHI"}
         over    == {OffsetOf(bbs[n], start, k) : k \in written}
     IN  /\ stream' = [o \in DOMAIN stream \cup over |->
                         IF o \notin over THEN stream[o]
                         ELSE Encoded(bbs[n].insts[CHOOSE k \in written :
                                                    OffsetOf(bbs[n], start, k) = o], bbs[n])]
         /\ offset' = EndOfBlock(bbs[n], start)
         /\ phase' = IF start = bb_offsets[n] THEN phase ELSE "fatal"
  /\ n' = n + 1
  /\ UNCHANGED <<bbs, bb_offsets, size, inst, at>>

Trap == [kind |-> "TRAP", count |-> 0, to |-> <<>>, phis |-> 0]

WriteTrap ==
  /\ phase = "write" /\ n > Len(bbs)
  /\ stream' = [o \in DOMAIN stream \cup {offset} |-> IF o = offset THEN Trap ELSE stream[o]]
  /\ phase' = "run"
  /\ UNCHANGED <<bbs, n, offset, bb_offsets, size, inst, at>>

-----------------------------------------------------------------------------
(* pn_thread_execute_instruction: where it goes next.                              *)

Fetched == stream[inst]

\* thread->inst += sizeof, and the arguments of a call
Advance ==
  /\ phase = "run" /\ inst \in DOMAIN stream
  /\ Fetched.kind \in {"BINOP", "VSELECT", "CALL"}
  /\ inst' = inst + Sizeof[Fetched.kind]
                  + IF Fetched.kind = "CALL" THEN Fetched.count * SizeofValueId ELSE 0
  /\ at' = Skip(at[1], at[2] + 1)
  /\ UNCHANGED <<bbs, phase, n, offset, bb_offsets, size, stream>>

\* PN_OPCODE_BR, PN_OPCODE_BR_INT1, PN_OPCODE_SWITCH: any of the targets
Jump ==
  /\ phase = "run" /\ inst \in DOMAIN stream
  /\ \E k \in DOMAIN Fetched.to :
       /\ inst' = Fetched.to[k]
       /\ at' = Skip(bbs[at[1]].insts[at[2]].to[k], 1)
  /\ UNCHANGED <<bbs, phase, n, offset, bb_offsets, size, stream>>

Finish ==
  /\ phase = "run" /\ inst \in DOMAIN stream
  /\ Fetched.kind \in {"RET", "RET_VALUE", "UNREACHABLE", "TRAP"}
  /\ phase' = "end"
  /\ UNCHANGED <<bbs, n, offset, bb_offsets, size, stream, inst, at>>

Done == phase = "end" /\ UNCHANGED vars

Next == SizeBlock \/ Allocate \/ WriteBlock \/ WriteTrap \/ Advance \/ Jump \/ Finish \/ Done

Spec == Init /\ [][Next]_vars
-----------------------------------------------------------------------------
(* Properties.                                                                      *)

TypeOK ==
  /\ phase \in {"size", "write", "run", "end", "fatal"}
  /\ n \in 1..(Len(bbs) + 1) /\ offset \in Nat /\ size \in Nat /\ inst \in Nat
  /\ \A b \in DOMAIN bb_offsets : bb_offsets[b] % 4 = 0

\* The two passes over the blocks agree on where each one starts.
PassesAgree == phase # "fatal"

\* What the interpreter reads at an instruction: the struct, what trails it, and behind
\* a jump the phi assignments.
ReadExtent(i) ==
  CASE i.kind = "TRAP"   -> Sizeof.CALL
    [] i.kind = "CALL"   -> Sizeof.CALL + i.count * SizeofValueId
    [] i.kind = "SWITCH" -> Sizeof.SWITCH + i.count * SizeofCase
                              + SizeofPhiHeader + i.phis * SizeofPhiAssign
    [] i.kind \in {"BR", "BR_INT1"} -> Sizeof[i.kind] + SizeofPhiHeader + i.phis * SizeofPhiAssign
    [] OTHER             -> Sizeof[i.kind]

\* No two instructions share a byte of the stream, and all of them, the trap included,
\* lie in what was allocated for it.
StreamApart ==
  /\ phase \in {"write", "run", "end"} =>
       \A o \in DOMAIN stream : o + ReadExtent(stream[o]) <= size
  /\ \A o, p \in DOMAIN stream : o < p => o + ReadExtent(stream[o]) <= p

\* Phi assignments are told apart by the address of the block they belong to.
StartsApart ==
  \A b, c \in DOMAIN bb_offsets : b # c => bb_offsets[b] # bb_offsets[c]

\* Whatever jumps are taken, the interpreter is at the instruction that the function has
\* next, with all of its arguments, cases and phi assignments, or at the trap when a
\* block has no end.
RunsTheFunction ==
  phase \in {"run", "end"} =>
    /\ inst \in DOMAIN stream
    /\ LET bb == bbs[at[1]]
       IN  IF at[2] \notin DOMAIN bb.insts
           THEN Fetched = Trap
           ELSE /\ Fetched.kind = bb.insts[at[2]].kind
                /\ Fetched.count = bb.insts[at[2]].count
                /\ Fetched.to # <<>> => Fetched.phis = bb.num_phi_assigns
=============================================================================
