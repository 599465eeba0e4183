--------------------------- MODULE FunctionReader ---------------------------
(***************************************************************************)
(* pn_function_block_read, the records of one function body.  Values are   *)
(* numbered across the module and the function: globals, arguments,        *)
(* constants, then the results of instructions as they are read.  In files *)
(* of version 1 an instruction names its operands relative to its own      *)
(* number; blocks are not delimited but end with a terminator.             *)
(*                                                                         *)
(* The file is written as it is read: each step is one entry of the block, *)
(* of any content.  What is told apart of an instruction is how it names   *)
(* values and blocks:                                                      *)
(*   OP      BINOP, CAST, ALLOCA, LOAD, CMP2, VSELECT and calls with a     *)
(*           result: a result, operands relative to it                     *)
(*   STORE   STORE and calls without a result                              *)
(*   PHI, FORWARDTYPEREF, RET, BR, SWITCH, UNREACHABLE                     *)
(***************************************************************************)
EXTENDS Integers, Sequences, FiniteSets, SequencesExt

CONSTANTS
  Word,         \* how many value ids there are: 2^32 in the code
  NumGlobals, NumArgs, NumConstants,
  Ids,          \* the values that instructions use
  MaxBbs,       \* bound on the blocks declared
  MaxInsts,     \* bound on the instructions
  Switches      \* the cases of switches: sequences of [ranges, bb]

Bbs     == 0..(MaxBbs - 1)
Invalid == -1   \* PN_INVALID_VALUE_ID, PN_INVALID_BB_ID

ReaderAssumption ==
  /\ Word \in Nat \ {0} /\ Ids \subseteq 0..(Word - 1)
  /\ {NumGlobals, NumArgs, NumConstants, MaxBbs, MaxInsts} \subseteq Nat
  /\ NumGlobals + NumArgs + NumConstants + MaxInsts < Word
  /\ Switches \subseteq Seq([ranges : Seq(Int \X Int), bb : Bbs])

VARIABLES
  use_relative_ids,   \* context->use_relative_ids
  dedupe,             \* g_pn_dedupe_phi_nodes
  num_bbs,            \* function->num_bbs, as declared
  num_values,         \* pn_function_num_values
  num_instructions,   \* function->num_instructions
  constants,          \* whether the constants block has been read
  bbs,                \* the blocks so far: [first_def, last_def, succs, ended]
  prev_bb_id, cur_bb_id, first_bb_value_id,
  inst,               \* the instruction read last
  meant,              \* history: what the writer meant by it
  status              \* "reading", "done", "fatal"

function == <<num_bbs, num_values, num_instructions, bbs>>
vars == <<use_relative_ids, dedupe, function, constants, prev_bb_id, cur_bb_id,
          first_bb_value_id, inst, meant, status>>

\* What every instruction has; the fields that are not used are empty.
Plain(code, ids) ==
  [code |-> code, ids |-> ids, result |-> Invalid, incoming |-> <<>>, targets |-> <<>>,
   cases |-> <<>>]

Terminators == {"RET", "BR", "SWITCH", "UNREACHABLE"}

\* The arguments come first.
Init ==
  /\ use_relative_ids \in BOOLEAN /\ dedupe \in BOOLEAN
  /\ num_bbs = 0
  /\ num_values = NumGlobals + NumArgs
  /\ num_instructions = 0
  /\ constants = FALSE
  /\ bbs = <<>>
  /\ prev_bb_id = -1 /\ cur_bb_id = 0 /\ first_bb_value_id = Invalid
  /\ inst = Plain("UNREACHABLE", <<>>) /\ meant = inst
  /\ status = "reading"

-----------------------------------------------------------------------------
(* How the writer names values (external), and how the reader finds them.   *)

WriteId(id) == IF use_relative_ids THEN (num_values - id) % Word ELSE id

\* rel_id - x
ReadId(x) == IF use_relative_ids THEN (num_values - x) % Word ELSE x

\* The operands of a phi are signed, with the sign in the lowest bit.
WritePhiId(id) ==
  IF ~use_relative_ids THEN id
  ELSE IF id <= num_values THEN 2 * (num_values - id) ELSE 2 * (id - num_values) + 1

\* pn_decode_sign_rotated_value
DecodeSignRotated(x) ==
  IF x % 2 = 0 THEN x \div 2 ELSE IF x # 1 THEN -(x \div 2) ELSE -(Word \div 2)

\* Slip: forward references are read as if they were backward.
ReadPhiIdUnsigned(x) == IF use_relative_ids THEN (num_values - (x \div 2)) % Word ELSE x

ReadPhiId(x) == IF use_relative_ids THEN (num_values - DecodeSignRotated(x)) % Word ELSE x

-----------------------------------------------------------------------------
(* The entries of the block.                                                *)

DeclareBlocks(k) ==
  /\ status = "reading" /\ num_bbs = 0
  /\ num_bbs' = k
  /\ UNCHANGED <<use_relative_ids, dedupe, num_values, num_instructions, bbs, constants,
                 prev_bb_id, cur_bb_id, first_bb_value_id, inst, meant, status>>

\* PN_BLOCKID_CONSTANTS
ConstantsBlock ==
  /\ status = "reading" /\ num_bbs > 0 /\ ~constants /\ num_instructions = 0
  /\ num_values' = num_values + NumConstants
  /\ constants' = TRUE
  /\ UNCHANGED <<use_relative_ids, dedupe, num_bbs, num_instructions, bbs, prev_bb_id,
                 cur_bb_id, first_bb_value_id, inst, meant, status>>

\* prev_bb_id != cur_bb_id: the instruction is the first of a block.
NewBlock  == prev_bb_id # cur_bb_id
FirstId   == IF NewBlock THEN num_values ELSE first_bb_value_id
Opened    == IF NewBlock
             THEN Append(bbs, [first_def |-> Invalid, last_def |-> Invalid, succs |-> <<>>,
                               ended |-> FALSE])
             ELSE bbs

\* Slip: the range of the values a block defines ends one too far.
EndBlockPastLast(bb, first, last, succs) ==
  [bb EXCEPT !.succs = succs, !.ended = TRUE, !.first_def = first, !.last_def = last]

\* What a terminator does to the block, given the values before and behind it.
EndBlock(bb, first, last, succs) ==
  [bb EXCEPT !.succs = succs, !.ended = TRUE,
             !.first_def = IF last # first THEN first ELSE Invalid,
             !.last_def  = IF last # first THEN last - 1 ELSE Invalid]

\* The instruction i is read, where the writer meant m.
AppendInstruction(i, m) ==
  /\ num_instructions < MaxInsts
  /\ bbs' = [Opened EXCEPT ![cur_bb_id + 1] = IF i.code \in Terminators
                                               THEN EndBlock(@, FirstId, num_values, i.targets) ELSE @]
  /\ cur_bb_id' = IF i.code \in Terminators THEN cur_bb_id + 1 ELSE cur_bb_id
  /\ prev_bb_id' = cur_bb_id
  /\ first_bb_value_id' = FirstId
  /\ num_values' = num_values + IF i.result = Invalid THEN 0 ELSE 1
  /\ num_instructions' = num_instructions + 1
  /\ inst' = i /\ meant' = m
  /\ UNCHANGED <<use_relative_ids, dedupe, num_bbs, constants, status>>

Fatal ==
  /\ status' = "fatal"
  /\ UNCHANGED <<use_relative_ids, dedupe, function, constants, prev_bb_id, cur_bb_id,
                 first_bb_value_id, inst, meant>>

\* Instructions come once the blocks are declared.
Reading == status = "reading" /\ num_bbs > 0

\* PN_CHECK(cur_bb_id < function->num_bbs)
InBlock == Reading /\ (NewBlock => cur_bb_id < num_bbs)

TooManyBlocks == Reading /\ NewBlock /\ cur_bb_id >= num_bbs /\ Fatal

\* An instruction whose operands the writer meant to be ids, and its result, if any
Operation(code, ids, result) ==
  LET read == [i \in DOMAIN ids |-> ReadId(WriteId(ids[i]))]
  IN  AppendInstruction([Plain(code, read) EXCEPT !.result = result],
                        [Plain(code, ids)  EXCEPT !.result = result])

\* INST_CAST, INST_ALLOCA and INST_LOAD
ReadUnary(id) == InBlock /\ Operation("UNARY", <<id>>, num_values)

\* INST_BINOP and INST_CMP2
ReadBinary(id0, id1) == InBlock /\ Operation("BINARY", <<id0, id1>>, num_values)

ReadVselect(true_id, false_id, cond_id) ==
  InBlock /\ Operation("VSELECT", <<true_id, false_id, cond_id>>, num_values)

ReadStore(dest_id, value_id) == InBlock /\ Operation("STORE", <<dest_id, value_id>>, Invalid)

\* FORWARDTYPEREF names its value by its number.
ReadForward(id) ==
  /\ InBlock
  /\ AppendInstruction(Plain("FORWARDTYPEREF", <<id>>), Plain("FORWARDTYPEREF", <<id>>))

\* INST_CALL and INST_CALL_INDIRECT: a direct call names a value of the module.
ReadCall(callee_id, arg_id, indirect, void) ==
  /\ InBlock
  /\ num_instructions < MaxInsts
  /\ IF ~indirect /\ callee_id >= NumGlobals THEN Fatal
     ELSE Operation("CALL", <<callee_id, arg_id>>, IF void THEN Invalid ELSE num_values)

\* An incoming pair is added unless dedupe finds its block in the list.
AddIncoming(list, in) ==
  IF dedupe /\ \E i \in DOMAIN list : list[i].bb = in.bb THEN list ELSE Append(list, in)

\* The incoming pairs, one after the other.
Incoming(pairs) ==
  LET added[i \in 0..Len(pairs)] ==
        IF i = 0 THEN <<>> ELSE AddIncoming(added[i - 1], pairs[i])
  IN  added[Len(pairs)]

\* "phi duplicated with matching bb but different values"
Clashes(pairs) ==
  dedupe /\ \E i, j \in DOMAIN pairs : pairs[i].bb = pairs[j].bb /\ pairs[i].id # pairs[j].id

ReadPhi(pairs) ==
  LET read == [i \in DOMAIN pairs |-> [bb |-> pairs[i].bb, id |-> ReadPhiId(WritePhiId(pairs[i].id))]]
      phi(list) == [Plain("PHI", <<>>) EXCEPT !.result = num_values, !.incoming = list]
  IN  /\ InBlock
      /\ num_instructions < MaxInsts
      /\ IF Clashes(read) THEN Fatal
         ELSE AppendInstruction(phi(Incoming(read)), phi(pairs))

-----------------------------------------------------------------------------
(* The terminators.                                                         *)

ReadRet(ids) == InBlock /\ Operation("RET", ids, Invalid)

ReadUnreachable ==
  InBlock /\ AppendInstruction(Plain("UNREACHABLE", <<>>), Plain("UNREACHABLE", <<>>))

\* A branch, with a condition if it has two targets
ReadBr(targets, id) ==
  LET br(ids) == [Plain("BR", ids) EXCEPT !.targets = targets]
  IN  /\ InBlock
      /\ IF Len(targets) = 1 THEN AppendInstruction(br(<<>>), br(<<>>))
         ELSE AppendInstruction(br(<<ReadId(WriteId(id))>>), br(<<id>>))

\* A range of case values, one by one
Expanded(range, bb) ==
  [k \in 1..(range[2] - range[1] + 1) |-> [value |-> range[1] + k - 1, bb |-> bb]]

ReadSwitch(id, default, groups) ==
  LET group(g)  == FlattenSeq([r \in DOMAIN g.ranges |-> Expanded(g.ranges[r], g.bb)])
      targets   == <<default>> \o [k \in DOMAIN groups |-> groups[k].bb]
      read      == FlattenSeq([k \in DOMAIN groups |-> group(groups[k])])
      switch(ids, cases) == [Plain("SWITCH", ids) EXCEPT !.targets = targets, !.cases = cases]
  IN  /\ InBlock
      /\ num_instructions < MaxInsts
      /\ IF \E k \in DOMAIN groups : \E r \in DOMAIN groups[k].ranges :
              groups[k].ranges[r][1] > groups[k].ranges[r][2]
         THEN Fatal   \* PN_CHECK(low <= high)
         ELSE AppendInstruction(switch(<<ReadId(WriteId(id))>>, read), switch(<<id>>, groups))

\* PN_ENTRY_END_BLOCK: PN_CHECK(num_bbs == function->num_bbs)
EndOfFunction ==
  /\ status = "reading"
  /\ status' = IF Len(bbs) = num_bbs THEN "done" ELSE "fatal"
  /\ UNCHANGED <<use_relative_ids, dedupe, function, constants, prev_bb_id, cur_bb_id,
                 first_bb_value_id, inst, meant>>

Ended == status # "reading" /\ UNCHANGED vars

Pair == [bb : Bbs, id : Ids]

Next ==
  \/ \E k \in 1..MaxBbs : DeclareBlocks(k)
  \/ ConstantsBlock
  \/ TooManyBlocks
  \/ \E id \in Ids : ReadUnary(id) \/ ReadForward(id)
  \/ \E id0, id1 \in Ids : ReadBinary(id0, id1) \/ ReadStore(id0, id1) \/ ReadVselect(id0, id1, id0)
  \/ \E id, arg \in Ids, indirect, void \in BOOLEAN : ReadCall(id, arg, indirect, void)
  \/ \E pairs \in {<<p>> : p \in Pair} \cup (Pair \X Pair) : ReadPhi(pairs)
  \/ \E ids \in {<<>>} \cup {<<id>> : id \in Ids} : ReadRet(ids)
  \/ ReadUnreachable
  \/ \E targets \in {<<b>> : b \in Bbs} \cup (Bbs \X Bbs), id \in Ids : ReadBr(targets, id)
  \/ \E id \in Ids, default \in Bbs, groups \in Switches : ReadSwitch(id, default, groups)
  \/ EndOfFunction
  \/ Ended

Spec == Init /\ [][Next]_vars

-----------------------------------------------------------------------------
(* Properties.                                                              *)

\* Where a switch goes: the first case with the value, as the interpreter searches.
SwitchTo(i, v) ==
  LET found == {k \in DOMAIN i.cases : i.cases[k].value = v}
  IN  IF found = {} THEN i.targets[1]
      ELSE i.cases[CHOOSE k \in found : \A j \in found : k <= j].bb

\* Where the writer meant it to go: the group with a range around the value.
MeantTo(i, v) ==
  LET found == {k \in DOMAIN i.cases : \E r \in DOMAIN i.cases[k].ranges :
                  i.cases[k].ranges[r][1] <= v /\ v <= i.cases[k].ranges[r][2]}
  IN  IF found = {} THEN i.targets[1]
      ELSE i.cases[CHOOSE k \in found : \A j \in found : k <= j].bb

\* The values around the cases.
CaseValues == UNION {UNION {UNION {(g[k].ranges[r][1] - 1)..(g[k].ranges[r][2] + 1) :
                r \in DOMAIN g[k].ranges} : k \in DOMAIN g} : g \in Switches}

\* Relative, signed, absolute and forward references all name the value they were meant
\* to, a phi takes from each block the value it was meant to, a switch goes where its
\* ranges say.
ReadAsMeant ==
  /\ inst.code = meant.code /\ inst.ids = meant.ids /\ inst.targets = meant.targets
  /\ ToSet(inst.incoming) = ToSet(meant.incoming)
  /\ inst.code = "SWITCH" => \A v \in CaseValues : SwitchTo(inst, v) = MeantTo(meant, v)

\* With dedupe on, a phi has one incoming value per block, as the phi assignments of a
\* branch expect.
PhiOncePerBlock ==
  dedupe => \A i, j \in DOMAIN inst.incoming : i # j => inst.incoming[i].bb # inst.incoming[j].bb

\* The ranges of the blocks that have ended lie one behind the other, without a gap,
\* from the first value behind the constants to the first value of the open block.
DefsPartition ==
  LET with  == {k \in DOMAIN bbs : bbs[k].first_def # Invalid}
      start == NumGlobals + NumArgs + IF constants THEN NumConstants ELSE 0
      open  == IF bbs # <<>> /\ ~bbs[Len(bbs)].ended THEN first_bb_value_id ELSE num_values
  IN  /\ \A k \in with : /\ start <= bbs[k].first_def /\ bbs[k].last_def < open
                         /\ bbs[k].first_def <= bbs[k].last_def
      /\ \A j, k \in with : j < k => bbs[j].last_def < bbs[k].first_def
      /\ \A v \in start..(open - 1) :
           \E k \in with : bbs[k].first_def <= v /\ v <= bbs[k].last_def

\* A function that is accepted has the blocks it declares, and only the last of them
\* may have no terminator.
BlocksAsDeclared ==
  /\ Len(bbs) <= num_bbs
  /\ \A k \in 1..(Len(bbs) - 1) : bbs[k].ended
  /\ status = "done" => Len(bbs) = num_bbs
=============================================================================
