----------------------------- MODULE ResultTypes -----------------------------
(***************************************************************************)
(* pn_calculate_result_value_types.h: the types of the results of binary   *)
(* operations and selects, which a bitcode file does not record.  A first  *)
(* pass goes over the instructions in order; those with an operand whose   *)
(* type is not known yet, because a later block defines it, are put on a   *)
(* list that is gone over again and again while it gets shorter.           *)
(*                                                                         *)
(* A value is its number.  The other instructions, arguments, constants    *)
(* and globals have a type when the pass starts.                           *)
(***************************************************************************)
EXTENDS Integers, Sequences

CONSTANTS
  NumValues,   \* the values of the function
  Operands     \* the pairs of operands an instruction may have

Values  == 1..NumValues
Types   == {"i32", "function", "float"}
Invalid == "invalid"   \* PN_INVALID_TYPE_ID
Known   == {[type |-> t, operands |-> <<>>] : t \in Types}
Joins   == {[type |-> Invalid, operands |-> o] : o \in Operands}

OperandsAssumption == NumValues \in Nat \ {0} /\ Operands \subseteq Values \X Values

VARIABLES
  insts,         \* how each value is defined
  type_id,       \* value->type_id
  invalid,       \* the instructions to try again
  last_invalid,  \* the length of the list when the last round began
  n,             \* the instruction, or the place in the list, that comes next
  phase          \* "first", "again", "done", "unresolved", "mismatch"

vars == <<insts, type_id, invalid, last_invalid, n, phase>>

Init ==
  /\ insts \in {f \in [Values -> Known \cup Joins] : f[1] \in Known}
  /\ type_id = [v \in Values |-> insts[v].type]
  /\ invalid = <<>>
  /\ last_invalid = 0
  /\ n = 1
  /\ phase = "first"

-----------------------------------------------------------------------------

\* pn_type_get_implicit_cast_type: a function and an i32 go together, as the second.
ImplicitCast(type0, type1) ==
  IF type0 = type1 \/ {type0, type1} = {"function", "i32"} THEN type1 ELSE Invalid

\* pn_instruction_calculate_result_value_type returns true.
Resolves(v) ==
  \A i \in DOMAIN insts[v].operands : type_id[insts[v].operands[i]] # Invalid

\* The type it gives to the result; pn_type_id_check ends the program on an invalid one.
Assign(v, next) ==
  IF insts[v].operands = <<>> THEN UNCHANGED type_id /\ phase' = next
  ELSE LET type == ImplicitCast(type_id[insts[v].operands[1]], type_id[insts[v].operands[2]])
       IN  /\ type_id' = [type_id EXCEPT ![v] = type]
           /\ phase' = IF type = Invalid THEN "mismatch" ELSE next

\* The first pass, of one instruction
FirstTry ==
  /\ phase = "first" /\ n <= NumValues
  /\ IF Resolves(n) THEN Assign(n, phase) /\ UNCHANGED invalid
     ELSE invalid' = Append(invalid, n) /\ UNCHANGED <<type_id, phase>>
  /\ n' = n + 1
  /\ UNCHANGED <<insts, last_invalid>>

\* Slip: what one more round does not resolve is given up.
BeginOneRound ==
  /\ \/ phase = "first" /\ n > NumValues
     \/ phase = "again" /\ n > Len(invalid)
  /\ phase' = IF invalid = <<>> THEN "done"
              ELSE IF phase = "first" THEN "again" ELSE "unresolved"
  /\ last_invalid' = Len(invalid)
  /\ n' = 1
  /\ UNCHANGED <<insts, type_id, invalid>>

\* if (num_invalid > 0), while (last_invalid != num_invalid)
BeginRound ==
  /\ \/ phase = "first" /\ n > NumValues
     \/ phase = "again" /\ n > Len(invalid)
  /\ phase' = IF invalid = <<>> THEN "done"
              ELSE IF last_invalid # Len(invalid) THEN "again" ELSE "unresolved"
  /\ last_invalid' = Len(invalid)
  /\ n' = 1
  /\ UNCHANGED <<insts, type_id, invalid>>

\* A place of the list: what is resolved is replaced by the last one.
TryAgain ==
  /\ phase = "again" /\ n <= Len(invalid)
  /\ IF Resolves(invalid[n])
     THEN /\ Assign(invalid[n], phase)
          /\ invalid' = SubSeq([invalid EXCEPT ![n] = invalid[Len(invalid)]], 1, Len(invalid) - 1)
          /\ UNCHANGED n
     ELSE /\ UNCHANGED <<type_id, phase, invalid>>
          /\ n' = n + 1
  /\ UNCHANGED <<insts, last_invalid>>

Ended == phase \in {"done", "unresolved", "mismatch"} /\ UNCHANGED vars

Next == FirstTry \/ BeginRound \/ TryAgain \/ Ended

Spec == Init /\ [][Next]_vars

-----------------------------------------------------------------------------
(* Properties.                                                              *)

\* A set of values that has every value whose operands it has.
Closed(S) ==
  \A v \in Values : (\A i \in DOMAIN insts[v].operands : insts[v].operands[i] \in S) => v \in S

\* The values whose types follow from the known ones: the least such set.
Determined == {v \in Values : \A S \in SUBSET Values : Closed(S) => v \in S}

\* The pass gives up exactly when an operation depends on itself: however the swaps
\* reorder the list, no round leaves out an instruction that could be resolved.
GivesUpOnlyOnCycles ==
  /\ phase = "unresolved" => Determined # Values
  /\ phase = "done" => Determined = Values

\* Every result ends with a type, and with one the interpreter treats as it treats the
\* types of the operands: a function is an i32 to it.
ResultsFitOperands ==
  LET basic(t) == IF t = "function" THEN "i32" ELSE t IN
  phase = "done" =>
    \A v \in Values :
      /\ type_id[v] # Invalid
      /\ \A i \in DOMAIN insts[v].operands :
           basic(type_id[insts[v].operands[i]]) = basic(type_id[v])
=============================================================================
