------------------------------- MODULE Values -------------------------------
(***************************************************************************)
(* One instruction of pn_thread_execute_instruction, on the values that a  *)
(* program can hold.  A PNRuntimeValue is a union of which the constructor *)
(* assigns one field: the bits above it are whatever was there.  A 1-bit   *)
(* value lives in the 8-bit field.  Floating-point numbers are taken from  *)
(* a small ordered set and NaN; their arithmetic is the host's and is left *)
(* out.                                                                    *)
(***************************************************************************)
EXTENDS Opcodes, Bits, Sequences, SequencesExt

CONSTANTS
  UsedFcmps,      \* the predicates of floating-point comparisons in the program
  UsedStores,     \* the types of its atomic stores
  UsedRmws,       \* and of its atomic read-modify-writes
  MemorySize      \* bytes of guest memory

VARIABLES
  inst,    \* the instruction that ran last: operation, types and operands
  result,  \* its result, or None
  before,  \* the memory before it
  mem      \* the memory after it, as bytes

vars == <<inst, result, before, mem>>

None  == [num |-> 0, set |-> 0]
NaN   == 4
Reals == 0..3

\* Slip: the value is not cut to the field.
ExecutorValueUncut(width, x) == [num |-> x, set |-> width]

\* PN_DEFINE_EXECUTOR_VALUE_CONSTRUCTOR: assigns the low bits only
ExecutorValue(width, x) == [num |-> x % 2^width, set |-> width]

\* A field of a value
Get(v, field) ==
  LET low == v.num % 2^field.width
  IN  IF field.signed /\ low >= 2^(field.width - 1) THEN low - 2^field.width ELSE low

\* What is below and above a width: every value of a narrow type, the edges of a wide one
Sample(width) ==
  IF width <= 4
  THEN 0..(2^width - 1)
  ELSE {0, 1, 2, 3, width - 1, 2^(width - 1) - 1, 2^(width - 1), 2^(width - 1) + 1,
        2^width - 2, 2^width - 1, 2^(width \div 2) - 1, 2^(width \div 2)}

\* The values of a type that a program can hold: nothing is known of the bits above
Held(type) ==
  {[num |-> n + high, set |-> Field(type, FALSE).width] :
     n \in Sample(Width(type)),
     high \in {0, 2^Bits64 - 2^(Field(type, FALSE).width)}}

\* pn_constants_block_read of PN_CONSTANTS_CODE_INTEGER
Constant(type, data) ==
  ExecutorValue(Field(type, TRUE).width, IF type = "INT1" THEN data % 2 ELSE data)

-----------------------------------------------------------------------------
(* The C operators on two fields.                                                  *)

Quotient(a, b) ==  \* C divides towards zero
  LET q == (IF a < 0 THEN -a ELSE a) \div (IF b < 0 THEN -b ELSE b)
  IN  IF (a < 0) = (b < 0) THEN q ELSE -q

OnBits(op(_, _), a, b) == ToNat(op(ToBits(a, Bits64), ToBits(b, Bits64)))

\* value0.ty op value1.ty; a division by zero and a shift by the width or more are
\* undefined for the guest too.
COperator(op, a, b) ==
  CASE op = "ADD" -> a + b
    [] op = "SUB" -> a - b
    [] op = "MUL" -> a * b
    [] op \in {"UDIV", "SDIV"} -> Quotient(a, b)
    [] op \in {"UREM", "SREM"} -> a - b * Quotient(a, b)
    [] op = "SHL" -> a * 2^b
    [] op \in {"LSHR", "ASHR"} -> a \div 2^b
    [] op = "AND" -> OnBits(LAMBDA x, y : x \cap y, a, b)
    [] op = "OR"  -> OnBits(LAMBDA x, y : x \cup y, a, b)
    [] op = "XOR" -> OnBits(LAMBDA x, y : (x \cup y) \ (x \cap y), a, b)

Defined(op, type, a, b) ==
  LET w == Width(type)
  IN  /\ op \in {"UDIV", "SDIV", "UREM", "SREM"} => b.num % 2^w # 0
      /\ op \in {"SDIV", "SREM"} => ~(a.num % 2^w = 2^(w - 1) /\ b.num % 2^w = 2^w - 1)
      /\ op \in {"SHL", "LSHR", "ASHR"} => b.num % 2^w < w

\* Comparisons of C: a NaN is not equal, less or greater, but "!=" holds.
CCompare(op, a, b, ordered) ==
  CASE op = "==" -> ordered /\ a = b
    [] op = "!=" -> ~(ordered /\ a = b)
    [] op = "<"  -> ordered /\ a < b
    [] op = "<=" -> ordered /\ a <= b
    [] op = ">"  -> ordered /\ a > b
    [] op = ">=" -> ordered /\ a >= b

Bool(b) == ExecutorValue(Bits8, IF b THEN 1 ELSE 0)

-----------------------------------------------------------------------------
(* The instructions.                                                               *)

Init ==
  /\ inst = [op |-> "START"]
  /\ result = None
  /\ mem = [i \in 1..MemorySize |-> i % 2^Bits8]
  /\ before = mem

Returns(i, value) ==
  /\ inst' = i
  /\ result' = value
  /\ UNCHANGED <<mem, before>>

\* Slip: signed operands are read with the unsigned fields.
BinopUnsigned(op, type) ==
  \E a, b \in Held(type) :
    /\ Defined(op, type, a, b)
    /\ LET f == Field(type, FALSE)
       IN  Returns([op |-> op, t0 |-> type, t1 |-> type, a |-> a, b |-> b],
                   ExecutorValue(f.width, COperator(op, Get(a, f), Get(b, f))))

\* PN_OPCODE_BINOP
Binop(op, type) ==
  \E a, b \in Held(type) :
    /\ Defined(op, type, a, b)
    /\ LET f == BinopField(op, type)
       IN  Returns([op |-> op, t0 |-> type, t1 |-> type, a |-> a, b |-> b],
                   ExecutorValue(f.width, COperator(op, Get(a, f), Get(b, f))))

\* PN_OPCODE_CAST and its variants for one bit, between integers
Cast(op, t0, t1) ==
  \E a \in Held(t0) :
    LET from == Get(a, CastFrom(op, t0, t1))
        bit  == Get(a, Field(t0, FALSE)) % 2
        x == CASE t1 = "INT1"                -> bit   \* PN_OPCODE_CAST_TRUNC1
               [] t0 = "INT1" /\ op = "SEXT" -> -bit  \* PN_OPCODE_CAST_SEXT1
               [] t0 = "INT1" /\ op = "ZEXT" -> bit   \* PN_OPCODE_CAST_ZEXT1
               [] OTHER                      -> from
    IN  Returns([op |-> op, t0 |-> t0, t1 |-> t1, a |-> a, b |-> a],
                ExecutorValue(CastTo(op, t0, t1).width, x))

\* A bitcast copies the union.
Bitcast(t0, t1) ==
  \E a \in Held(t0) :
    Returns([op |-> "BITCAST", t0 |-> t0, t1 |-> t1, a |-> a, b |-> a], a)

\* PN_OPCODE_CMP2 on integers
IcmpOperator ==
  [EQ |-> "==", NE |-> "!=", UGT |-> ">", SGT |-> ">", UGE |-> ">=", SGE |-> ">=",
   ULT |-> "<", SLT |-> "<", ULE |-> "<=", SLE |-> "<="]

Icmp(op, type) ==
  \E a, b \in Held(type) :
    LET f == CmpField(op, type)
    IN  Returns([op |-> op, t0 |-> type, t1 |-> "INT1", a |-> a, b |-> b],
                Bool(CCompare(IcmpOperator[op], Get(a, f), Get(b, f), TRUE)))

\* PN_OPCODE_CMP2, PN_OPCODE_CMP2_NOT, PN_OPCODE_CMP2_ORD and PN_OPCODE_CMP2_UNO on
\* floating-point numbers
FcmpResult(op, a, b) ==
  LET C(c) == CCompare(c, a, b, a # NaN /\ b # NaN)
  IN  CASE op = "OEQ" -> C("==")
        [] op = "OGT" -> C(">")
        [] op = "OGE" -> C(">=")
        [] op = "OLT" -> C("<")
        [] op = "OLE" -> C("<=")
        [] op = "ONE" -> C("!=")
        [] op = "ORD" -> C("==") \/ C("!=")
        [] op = "UNO" -> ~(C("==") \/ C("!="))
        [] op = "UEQ" -> ~C("!=")
        [] op = "UGT" -> ~C("<=")
        [] op = "UGE" -> ~C("<")
        [] op = "ULT" -> ~C(">=")
        [] op = "ULE" -> ~C(">")
        [] op = "UNE" -> ~C("==")

Fcmp(op) ==
  \E a, b \in Reals \cup {NaN} :
    Returns([op |-> op, t0 |-> "DOUBLE", t1 |-> "INT1", a |-> a, b |-> b],
            Bool(FcmpResult(op, a, b)))

\* PN_OPCODE_VSELECT and PN_OPCODE_BR_INT1: the one masks the bit, the other does not.
\* The choice of both is the result of the step.
Vselect ==
  \E c \in Held("INT1"), a, b \in Held("INT8") :
    Returns([op |-> "VSELECT", t0 |-> "INT8", t1 |-> "INT8", a |-> a, b |-> b, c |-> c],
            IF Get(c, Field("INT1", FALSE)) % 2 = 1 THEN a ELSE b)

BrInt1 ==
  \E c \in Held("INT1") :
    Returns([op |-> "BR", t0 |-> "INT1", t1 |-> "INT1", a |-> c, b |-> c],
            Bool(Get(c, Field("INT1", FALSE)) # 0))

\* A constant of the function
LoadConstant(type) ==
  \E data \in {-1} \cup Sample(Width(type)) :
    Returns([op |-> "CONSTANT", t0 |-> type, t1 |-> type,
             a |-> [num |-> data % 2^Width(type), set |-> Width(type)], b |-> None],
            Constant(type, data))

\* PN_OPCODE_SWITCH: whether a case is taken.  The case values of the bitcode carry the
\* sign of the type; those of one bit are taken to be 0 and 1.
Switch(type) ==
  \E a \in Held(type), value \in Sample(Width(type)) :
    LET case == IF value >= 2^(Width(type) - 1) /\ type # "INT1"
                THEN value - 2^Width(type) ELSE value
    IN  Returns([op |-> "SWITCH", t0 |-> type, t1 |-> "INT1", a |-> a,
                 b |-> [num |-> value, set |-> Width(type)]],
                Bool(Get(a, Field(type, TRUE)) = case))

\* PN_OPCODE_INTRINSIC_LLVM_CTLZ and CTTZ: the result for zero is 0, whatever the second
\* argument, is_zero_undef, says
Ctlz(type) ==
  \E a \in Held(type), is_zero_undef \in Held("INT1") :
    LET bits == ToBits(Get(a, Field(type, FALSE)), Width(type))
    IN  Returns([op |-> "CTLZ", t0 |-> type, t1 |-> type, a |-> a, b |-> is_zero_undef],
                ExecutorValue(Width(type), IF bits = {} THEN 0 ELSE Width(type) - 1 - Max(bits)))

Cttz(type) ==
  \E a \in Held(type), is_zero_undef \in Held("INT1") :
    LET bits == ToBits(Get(a, Field(type, FALSE)), Width(type))
    IN  Returns([op |-> "CTTZ", t0 |-> type, t1 |-> type, a |-> a, b |-> is_zero_undef],
                ExecutorValue(Width(type), IF bits = {} THEN 0 ELSE Min(bits)))

-----------------------------------------------------------------------------
(* Memory, little endian.                                                          *)

Bytes(type) == Width(type) \div Bits8

\* pn_memory_read_ty and pn_memory_write_ty
Read(type, addr) ==
  FoldLeft(LAMBDA acc, byte : acc * 2^Bits8 + byte, 0,
          Reverse(SubSeq(mem, addr, addr + Bytes(type) - 1)))

Written(type, addr, x) ==
  [i \in DOMAIN mem |->
     IF i \in addr..(addr + Bytes(type) - 1)
     THEN (x \div 2^(Bits8 * (i - addr))) % 2^Bits8
     ELSE mem[i]]

Addresses(type) == 1..(MemorySize - Bytes(type) + 1)

Stores(i, newMem, value) ==
  /\ inst' = i
  /\ result' = value
  /\ before' = mem
  /\ mem' = newMem

Unsigned(type) == Field(type, FALSE)

\* PN_OPCODE_LOAD and PN_OPCODE_INTRINSIC_LOAD
Load(type) ==
  \E addr \in Addresses(type) :
    Stores([op |-> "LOAD", t0 |-> type, t1 |-> type, addr |-> addr], mem,
           ExecutorValue(Width(type), Read(type, addr)))

\* PN_OPCODE_STORE
Store(type) ==
  \E addr \in Addresses(type), a \in Held(type) :
    Stores([op |-> "STORE", t0 |-> type, t1 |-> type, addr |-> addr, a |-> a],
           Written(type, addr, Get(a, Unsigned(type))), None)

\* PN_OPCODE_INTRINSIC_STORE: a uint32_t between the value and pn_memory_write_u32
AtomicStore(type) ==
  \E addr \in Addresses("INT32"), a \in Held(type) :
    /\ addr \in Addresses(type)
    /\ Stores([op |-> "STORE", t0 |-> type, t1 |-> type, addr |-> addr, a |-> a],
              Written("INT32", addr, Get(a, Unsigned(type)) % 2^Bits32), None)

\* PN_OPCODE_INTRINSIC_CMPXCHG
Cmpxchg(type) ==
  \E addr \in Addresses(type), expected, desired \in Held(type) :
    LET old == Read(type, addr)
    IN  Stores([op |-> "CMPXCHG", t0 |-> type, t1 |-> type, addr |-> addr,
                a |-> desired, b |-> expected],
               IF old = Get(expected, Unsigned(type))
               THEN Written(type, addr, Get(desired, Unsigned(type))) ELSE mem,
               ExecutorValue(Width(type), old))

\* PN_OPCODE_INTRINSIC_RMW and PN_OPCODE_INTRINSIC_EXCHANGE: the old value is returned
\* in the 32-bit field whatever the type.
Rmw(op, type) ==
  \E addr \in Addresses(type), a \in Held(type) :
    LET old == Read(type, addr)
        x   == Get(a, Unsigned(type))
        new == IF op = "EXCHANGE" THEN x ELSE COperator(op, old, x)
    IN  Stores([op |-> "RMW", fn |-> op, t0 |-> type, t1 |-> type, addr |-> addr, a |-> a],
               Written(type, addr, new), ExecutorValue(Bits32, old))

Executed == inst.op # "START" /\ UNCHANGED vars

Next ==
  \/ Executed
  \/ /\ inst.op = "START"
     /\ \/ \E op \in DOMAIN BinopTypes : \E type \in BinopTypes[op] \cap Ints : Binop(op, type)
        \/ \E op \in {"TRUNC", "ZEXT", "SEXT"} : \E p \in CastTypes[op] : Cast(op, p[1], p[2])
        \/ \E p \in CastTypes["BITCAST"] : Bitcast(p[1], p[2])
        \/ \E op \in Icmps, type \in Wide : Icmp(op, type)
        \/ \E op \in UsedFcmps : Fcmp(op)
        \/ Vselect \/ BrInt1
        \/ \E type \in Ints : LoadConstant(type)
        \/ \E type \in SwitchTypes : Switch(type)
        \/ \E type \in CountTypes : Ctlz(type) \/ Cttz(type)
        \/ \E type \in MemoryTypes : Load(type) \/ Store(type)
        \/ \E type \in AtomicTypes : Cmpxchg(type)
        \/ \E type \in UsedStores : AtomicStore(type)
        \/ \E type \in UsedRmws : \E op \in Range(RmwOps) : Rmw(op, type)

Spec == Init /\ [][Next]_vars
-----------------------------------------------------------------------------
(* Properties.                                                                      *)

TypeOK ==
  /\ result.num \in 0..(2^Bits64 - 1) /\ result.set \in 0..Bits64
  /\ mem \in [1..MemorySize -> 0..(2^Bits8 - 1)]

HasResult == inst.op \notin {"START", "STORE"}

\* The field that a later instruction reads was assigned by the one that made the value,
\* and a 1-bit value is 0 or 1: branches, switches and the logical operators look at all
\* of its byte.
ResultsWellFormed ==
  HasResult =>
    /\ result.set >= Field(inst.t1, FALSE).width
    /\ inst.t1 = "INT1" => result.num % 2^Bits8 \in {0, 1}

\* The operands as numbers of their type, and the result as a number of its own.
A == inst.a.num % 2^Width(inst.t0)
B == inst.b.num % 2^Width(inst.t0)
Signed(x, w) == IF x >= 2^(w - 1) THEN x - 2^w ELSE x
SA == Signed(A, Width(inst.t0))
SB == Signed(B, Width(inst.t0))
R  == result.num % 2^Width(inst.t1)
SR == Signed(R, Width(inst.t1))
Abs(x) == IF x < 0 THEN -x ELSE x
Modulo(x) == x % 2^Width(inst.t1)
Bit(x, i) == (x \div 2^i) % 2

\* What each operation on integers means, whatever is in the bits above its operands.
\* It is what LLVM defines but for the zeros counted in 0: LLVM says the width when
\* is_zero_undef is false, and the interpreter answers 0 in both cases.
ArithmeticExact ==
  CASE inst.op = "ADD" -> R = Modulo(A + B)
    [] inst.op = "SUB" -> Modulo(R + B) = A
    [] inst.op = "MUL" -> R = Modulo(A * B)
    [] inst.op = "UDIV" -> R * B <= A /\ A < (R + 1) * B
    [] inst.op = "SDIV" -> /\ Abs(SR) * Abs(SB) <= Abs(SA) /\ Abs(SA) < (Abs(SR) + 1) * Abs(SB)
                           /\ SR # 0 => (SR < 0) = ((SA < 0) # (SB < 0))
    [] inst.op = "UREM" -> R < B /\ (A - R) % B = 0
    [] inst.op = "SREM" -> /\ Abs(SR) < Abs(SB) /\ (SA - SR) % Abs(SB) = 0
                           /\ SR # 0 => (SR < 0) = (SA < 0)
    [] inst.op = "SHL" -> \A i \in 0..(Width(inst.t0) - 1) :
                            Bit(R, i) = IF i < B THEN 0 ELSE Bit(A, i - B)
    [] inst.op = "LSHR" -> \A i \in 0..(Width(inst.t0) - 1) :
                             Bit(R, i) = IF i + B < Width(inst.t0) THEN Bit(A, i + B) ELSE 0
    [] inst.op = "ASHR" -> \A i \in 0..(Width(inst.t0) - 1) :
                             Bit(R, i) = Bit(A, Min({i + B, Width(inst.t0) - 1}))
    [] inst.op = "AND" -> \A i \in 0..(Width(inst.t0) - 1) : Bit(R, i) = Bit(A, i) * Bit(B, i)
    [] inst.op = "OR"  -> \A i \in 0..(Width(inst.t0) - 1) : Bit(R, i) = Max({Bit(A, i), Bit(B, i)})
    [] inst.op = "XOR" -> \A i \in 0..(Width(inst.t0) - 1) : Bit(R, i) = (Bit(A, i) + Bit(B, i)) % 2
    [] inst.op = "TRUNC" -> R = Modulo(A)
    [] inst.op \in {"ZEXT", "CONSTANT", "BITCAST"} -> R = A
    [] inst.op = "SEXT" -> SR = SA
    [] inst.op = "EQ" -> R = 1 <=> A = B
    [] inst.op = "NE" -> R = 1 <=> A # B
    [] inst.op = "VSELECT" -> R = IF inst.c.num % 2 = 1 THEN A ELSE B
    [] inst.op = "BR" -> R = A
    [] inst.op = "SWITCH" -> R = 1 <=> A = B
    [] inst.op = "CTLZ" ->
         IF A = 0 THEN R = 0
         ELSE 2^(Width(inst.t0) - 1 - R) <= A /\ A < 2^(Width(inst.t0) - R)
    [] inst.op = "CTTZ" -> IF A = 0 THEN R = 0 ELSE A % 2^R = 0 /\ Bit(A, R) = 1
    [] inst.op \in Icmps /\ inst.t0 \in Wide ->
         LET less == IF inst.op \in {"SGT", "SGE", "SLT", "SLE"} THEN SA < SB ELSE A < B
         IN  R = 1 <=> \/ inst.op \in {"UGT", "SGT"} /\ ~less /\ A # B
                       \/ inst.op \in {"UGE", "SGE"} /\ ~less
                       \/ inst.op \in {"ULT", "SLT"} /\ less
                       \/ inst.op \in {"ULE", "SLE"} /\ (less \/ A = B)
    [] OTHER -> TRUE

\* The table in the comment above the floating-point comparisons: for which of unordered,
\* less, greater and equal each predicate holds.
FcmpTable ==
  [OEQ |-> {"E"}, OGT |-> {"G"}, OGE |-> {"G", "E"}, OLT |-> {"L"}, OLE |-> {"L", "E"},
   ONE |-> {"L", "G"}, ORD |-> {"L", "G", "E"}, UNO |-> {"U"}, UEQ |-> {"U", "E"},
   UGT |-> {"U", "G"}, UGE |-> {"U", "G", "E"}, ULT |-> {"U", "L"},
   ULE |-> {"U", "L", "E"}, UNE |-> {"U", "L", "G"}]

Relation(a, b) ==
  CASE a = NaN \/ b = NaN -> "U" [] a < b -> "L" [] a > b -> "G" [] OTHER -> "E"

\* Every floating-point comparison gives what the comment's table says of it.
FcmpAsTable ==
  inst.op \in Fcmps /\ inst.t0 = "DOUBLE" =>
    (R = 1 <=> Relation(inst.a, inst.b) \in FcmpTable[inst.op])

\* An instruction writes the bytes of its own type and no others: what it stores is read
\* back, and what an atomic operation returns is what was there before it.
MemoryExact ==
  "addr" \in DOMAIN inst =>
    LET own == inst.addr..(inst.addr + Bytes(inst.t0) - 1)
        Value(m) == FoldLeft(LAMBDA acc, byte : acc * 2^Bits8 + byte, 0,
                            Reverse(SubSeq(m, inst.addr, inst.addr + Bytes(inst.t0) - 1)))
        old == Value(before)
        new == Value(mem)
    IN  /\ \A i \in (1..MemorySize) \ own : mem[i] = before[i]
        /\ inst.op # "STORE" => R = old
        /\ CASE inst.op = "LOAD"    -> new = old
             [] inst.op = "STORE"   -> new = A
             [] inst.op = "CMPXCHG" -> new = IF old = B THEN A ELSE old
             [] inst.op = "RMW" ->
                  CASE inst.fn = "ADD" -> new = Modulo(old + A)
                    [] inst.fn = "SUB" -> Modulo(new + A) = old
                    [] inst.fn = "EXCHANGE" -> new = A
                    [] OTHER -> \A i \in 0..(Width(inst.t0) - 1) :
                                  Bit(new, i) = CASE inst.fn = "AND" -> Bit(old, i) * Bit(A, i)
                                                  [] inst.fn = "OR"  -> Max({Bit(old, i), Bit(A, i)})
                                                  [] inst.fn = "XOR" -> (Bit(old, i) + Bit(A, i)) % 2
=============================================================================
