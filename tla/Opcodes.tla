------------------------------ MODULE Opcodes ------------------------------
(***************************************************************************)
(* The opcodes of the interpreter.  pn_calculate_opcodes.h picks one for   *)
(* each instruction from its operation and the basic types of its operands *)
(* (a combination that has none ends the program); pn_executor.h reads and *)
(* writes one field of the PNRuntimeValue union for it.                    *)
(***************************************************************************)
EXTENDS Integers, FiniteSets

CONSTANTS Bits8, Bits16, Bits32, Bits64  \* the widths of the types, scaled down

WidthsAssumption ==
  /\ {Bits8, Bits16, Bits32, Bits64} \subseteq Nat
  /\ 1 < Bits8 /\ Bits8 < Bits16 /\ Bits16 < Bits32 /\ Bits32 < Bits64

Wide   == {"INT8", "INT16", "INT32", "INT64"}
Ints   == Wide \cup {"INT1"}
Floats == {"DOUBLE", "FLOAT"}

Width(type) ==
  CASE type = "INT1"              -> 1
    [] type = "INT8"              -> Bits8
    [] type = "INT16"             -> Bits16
    [] type \in {"INT32", "FLOAT"}  -> Bits32
    [] type \in {"INT64", "DOUBLE"} -> Bits64

-----------------------------------------------------------------------------
(* What the writer has an opcode for.                                              *)

BinopTypes ==
  [ADD  |-> Floats \cup Wide, SUB |-> Floats \cup Wide, MUL |-> Floats \cup Wide,
   UDIV |-> Wide, SDIV |-> Floats \cup {"INT32", "INT64"},
   UREM |-> Wide, SREM |-> {"INT32", "INT64"},
   SHL  |-> Wide, LSHR |-> Wide, ASHR |-> Wide,
   AND  |-> Ints, OR |-> Ints, XOR |-> Ints]

CastTypes ==
  [TRUNC   |-> {p \in Ints \X Ints : Width(p[1]) > Width(p[2])} \ {<<"INT64", "INT1">>},
   ZEXT    |-> {p \in Ints \X Ints : Width(p[1]) < Width(p[2])},
   SEXT    |-> {p \in Ints \X Ints : Width(p[1]) < Width(p[2])},
   FPTOUI  |-> Floats \X Wide, FPTOSI |-> Floats \X Wide,
   UITOFP  |-> Wide \X Floats, SITOFP |-> Wide \X Floats,
   FPTRUNC |-> {<<"DOUBLE", "FLOAT">>},
   FPEXT   |-> {<<"FLOAT", "DOUBLE">>},
   BITCAST |-> {<<"DOUBLE", "INT64">>, <<"FLOAT", "INT32">>,
                <<"INT32", "FLOAT">>, <<"INT64", "DOUBLE">>}]

\* FCMP_FALSE and FCMP_TRUE have no opcode.
Fcmps == {"OEQ", "OGT", "OGE", "OLT", "OLE", "ONE", "ORD",
          "UNO", "UEQ", "UGT", "UGE", "ULT", "ULE", "UNE"}

Icmps == {"EQ", "NE", "UGT", "UGE", "ULT", "ULE", "SGT", "SGE", "SLT", "SLE"}

\* The types of INST_LOAD and INST_STORE, INST_SWITCH, and the calls of intrinsics
MemoryTypes == Floats \cup Wide
SwitchTypes == Ints
AtomicTypes == Wide
CountTypes  == {"INT32", "INT64"}

\* ATOMIC_RMW is specialised by its first argument.
RmwOps == <<"ADD", "SUB", "AND", "OR", "XOR", "EXCHANGE">>

-----------------------------------------------------------------------------
(* The field that the interpreter uses: the width and whether it is signed.        *)

Field(type, signed) ==
  [width |-> IF type = "INT1" THEN Bits8 ELSE Width(type), signed |-> signed]

BinopField(op, type) == Field(type, op \in {"ASHR", "SDIV", "SREM"})

CastFrom(op, t0, t1) == Field(t0, op \in {"SEXT", "SITOFP"} \/ (op = "TRUNC" /\ t1 # "INT1"))

CastTo(op, t0, t1) == Field(t1, op \in {"SEXT", "FPTOSI"} \/ (op = "TRUNC" /\ t1 # "INT1"))

CmpField(op, type) == Field(type, op \in {"SGT", "SGE", "SLT", "SLE"})
=============================================================================
