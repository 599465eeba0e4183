------------------------------ MODULE MCPasses ------------------------------
(***************************************************************************)
(* The passes over one function, from its blocks in the bitcode to the     *)
(* instruction stream, side by side: the initial state chooses one of      *)
(* them, and the others rest in an initial state of theirs.                *)
(*   "read"     FunctionReader: two blocks, four instructions, ids of four *)
(*              bits, so that the signed relative ids wrap                 *)
(*   "types"    ResultTypes: five values                                   *)
(*   "preds"    Loops: every graph of four blocks, parallel edges included *)
(*   "loops"    Loops: every graph of five blocks                          *)
(*   "phis"     PhiAssigns: three blocks and four values, so that two phis *)
(*              can swap and a third can take part in a cycle              *)
(*   "live"     Liveness: three blocks and three values                    *)
(*   "stream"   InstructionStream: two blocks, 8- and 16-bit counts that   *)
(*              end at 3                                                   *)
(***************************************************************************)
EXTENDS Integers, Sequences

CONSTANTS
  Word, NumGlobals, NumArgs, NumConstants, Ids, MaxBbs, MaxInsts, Switches,
  TypeValues, Operands,
  PredBbs, LoopBbs,
  PhiBbs, PhiValues,
  LiveBbs, NumFixed, NumLocals, MaxUses,
  StreamBbs, MaxBody, Counts, PhiCounts, MaxU8, MaxU16

VARIABLES
  part,
  use_relative_ids, dedupe, num_bbs, num_values, num_instructions, constants, read_bbs,
  prev_bb_id, cur_bb_id, first_bb_value_id, read_inst, meant, status,
  insts, type_id, invalid, last_invalid, type_n, type_phase,
  succ_bb_ids, pred_bb_ids, loops, loop_phase,
  phi_func, phi_assigns, fast, registers, bb, dest,
  live_func, range, seen_values, live_n, live_phase, bb_id, avail_slots, active,
  bbs, phase, n, offset, bb_offsets, size, stream, inst, at

readVars   == <<use_relative_ids, dedupe, num_bbs, num_values, num_instructions, constants,
                read_bbs, prev_bb_id, cur_bb_id, first_bb_value_id, read_inst, meant, status>>
typeVars   == <<insts, type_id, invalid, last_invalid, type_n, type_phase>>
loopVars   == <<succ_bb_ids, pred_bb_ids, loops, loop_phase>>
phiVars    == <<phi_func, phi_assigns, fast, registers, bb, dest>>
liveVars   == <<live_func, range, seen_values, live_n, live_phase, bb_id, avail_slots, active>>
streamVars == <<bbs, phase, n, offset, bb_offsets, size, stream, inst, at>>
vars       == <<part, readVars, typeVars, loopVars, phiVars, liveVars, streamVars>>

Reader == INSTANCE FunctionReader WITH bbs <- read_bbs, inst <- read_inst

Typing == INSTANCE ResultTypes WITH
            NumValues <- TypeValues, n <- type_n, phase <- type_phase

Preds == INSTANCE Loops WITH NumBbs <- PredBbs, Parallel <- TRUE, phase <- loop_phase
Loop  == INSTANCE Loops WITH NumBbs <- LoopBbs, Parallel <- FALSE, phase <- loop_phase

\* At most one successor of a block has phis.
Phis == INSTANCE PhiAssigns WITH
          NumBbs <- PhiBbs, NumValues <- PhiValues, MaxPhiSuccessors <- 1,
          func <- phi_func, values <- registers

Live == INSTANCE Liveness WITH
          NumBbs <- LiveBbs, func <- live_func, n <- live_n, phase <- live_phase

Stream == INSTANCE InstructionStream WITH NumBbs <- StreamBbs

ASSUME PassesAssumption ==
  /\ Reader!ReaderAssumption
  /\ Typing!OperandsAssumption
  /\ Preds!NumBbsAssumption /\ Loop!NumBbsAssumption
  /\ Phis!SizesAssumption
  /\ Live!SizesAssumption
  /\ Stream!StreamAssumption

\* The translator cuts counts to the width of their fields without a check.
ASSUME CountsAssumption == Stream!CountsFit

-----------------------------------------------------------------------------
(* Where a part rests that was not chosen: a function with little in it.    *)

Chain(num) == [b \in 1..num |-> IF b < num THEN {b + 1} ELSE {}]

ReaderRests == use_relative_ids = TRUE /\ dedupe = TRUE

TypesRest == insts = [v \in 1..TypeValues |-> [type |-> "i32", operands |-> <<>>]]

LoopsRest ==
  /\ succ_bb_ids = [b \in 1..LoopBbs |-> IF b = 1 THEN <<2>> ELSE <<>>]
  /\ pred_bb_ids = [b \in 1..LoopBbs |-> <<>>]
  /\ loops = Loop!NoLoops /\ loop_phase = "read"

PhisRest ==
  /\ phi_func = [succs |-> Chain(PhiBbs), phi_bb |-> [v \in 1..PhiValues |-> 0],
                 incoming |-> [p \in 1..PhiBbs |-> <<>>]]
  /\ phi_assigns = [b \in 1..PhiBbs |-> <<>>] /\ fast = [b \in 1..PhiBbs |-> FALSE]
  /\ registers = [v \in 1..PhiValues |-> v] /\ bb = 0 /\ dest = 0

LivenessRests ==
  /\ live_func = [succs |-> Chain(LiveBbs), def_bb |-> [v \in Live!Locals |-> 1], uses |-> {},
                  phi_uses |-> [b \in 1..LiveBbs |-> <<>>]]
  /\ range = [v \in Live!Locals |-> [first |-> 1, last |-> 1, slot |-> -1]]
  /\ seen_values = {} /\ live_n = LiveBbs /\ live_phase = "live" /\ bb_id = 1
  /\ avail_slots = [i \in 1..(NumFixed + NumLocals) |-> i - 1] /\ active = <<>>

StreamRests ==
  /\ bbs = <<[insts |-> <<[kind |-> "UNREACHABLE"]>>, num_phi_assigns |-> 0]>>
  /\ phase = "size" /\ n = 1 /\ offset = 0 /\ bb_offsets = <<>> /\ size = 0
  /\ stream = <<>> /\ inst = 0 /\ at = <<1, 1>>

Init ==
  /\ part \in {"read", "types", "preds", "loops", "phis", "live", "stream"}
  /\ part # "read" => ReaderRests
  /\ Reader!Init
  /\ part # "types" => TypesRest
  /\ Typing!Init
  /\ CASE part = "preds" -> Preds!Init [] part = "loops" -> Loop!Init [] OTHER -> LoopsRest
  /\ IF part = "phis" THEN Phis!Init ELSE PhisRest
  /\ IF part = "live" THEN Live!Init ELSE LivenessRests
  /\ IF part = "stream" THEN Stream!Init ELSE StreamRests

Next ==
  \/ part = "read" /\ Reader!Next
     /\ UNCHANGED <<part, typeVars, loopVars, phiVars, liveVars, streamVars>>
  \/ part = "types" /\ Typing!Next
     /\ UNCHANGED <<part, readVars, loopVars, phiVars, liveVars, streamVars>>
  \/ part = "preds" /\ Preds!Next
     /\ UNCHANGED <<part, readVars, typeVars, phiVars, liveVars, streamVars>>
  \/ part = "loops" /\ Loop!Next
     /\ UNCHANGED <<part, readVars, typeVars, phiVars, liveVars, streamVars>>
  \/ part = "phis" /\ Phis!Next
     /\ UNCHANGED <<part, readVars, typeVars, loopVars, liveVars, streamVars>>
  \/ part = "live" /\ Live!Next
     /\ UNCHANGED <<part, readVars, typeVars, loopVars, phiVars, streamVars>>
  \/ part = "stream" /\ Stream!Next
     /\ UNCHANGED <<part, readVars, typeVars, loopVars, phiVars, liveVars>>

Spec == Init /\ [][Next]_vars

-----------------------------------------------------------------------------
(* The values of the constants.                                             *)

\* Two blocks in three ranges, one of them of a single value; a range that is empty.
SwitchesUsed ==
  {<<>>,
   <<[ranges |-> <<<<-1, 1>>, <<3, 3>>>>, bb |-> 0], [ranges |-> <<<<2, 2>>>>, bb |-> 1]>>,
   <<[ranges |-> <<<<1, 0>>>>, bb |-> 0]>>}

\* Operands behind the result and before it, the result itself included.
OperandsUsed ==
  {p \in (1..TypeValues) \X (1..TypeValues) : p[2] \in {1, p[1]}} \cup {<<1, TypeValues>>}

-----------------------------------------------------------------------------
(* The properties of the parts, as their modules state them.               *)

TypeOK == (part = "phis" => Phis!TypeOK) /\ (part = "stream" => Stream!TypeOK)

\* pn_function_block_read: every reference names the value the writer meant, a switch
\* goes where its ranges say, and with dedupe on a phi has one value per block.
ReadAsMeant == part = "read" => Reader!ReadAsMeant /\ Reader!PhiOncePerBlock

\* A function that is accepted has the blocks it declares, and their ranges of values
\* lie one behind the other, without a gap.
BlocksPartition == part = "read" => Reader!DefsPartition /\ Reader!BlocksAsDeclared

\* pn_calculate_result_value_types gives up exactly when an operation depends on itself,
\* and otherwise every result has a type that fits those of its operands.
TypesResolved == part = "types" => Typing!GivesUpOnlyOnCycles /\ Typing!ResultsFitOperands

\* pn_calculate_pred_bbs finds one predecessor for each edge; pn_calculate_loops finds
\* the natural loops of a reducible graph, marks the other graphs and no others, and its
\* chains of headers end.
LoopsFound ==
  /\ part = "preds" => Preds!PredsMatchSuccs
  /\ part = "loops" => Loop!LoopsAreNatural /\ Loop!IrreducibleIsMarked /\ Loop!HeadersEnd

\* The phi assignments of a branch give every phi its value from before the branch.
PhisAreParallel == part = "phis" => Phis!PhisAreParallel

\* pn_calculate_liveness: a range ends on both sides with a block the value is live in,
\* and is exact for a value with one use; the slot popped is the lowest in the heap.
RangesLive ==
  part = "live" => Live!RangesEndLive /\ Live!OneUseExact /\ Live!LowestSlotFirst

\* pn_calculate_opcodes: the two passes agree on where each block starts, no instruction
\* is written over another one, and the address of a block tells it apart.
StreamSound ==
  part = "stream" => Stream!PassesAgree /\ Stream!StreamApart /\ Stream!StartsApart

\* The interpreter runs the instructions of the function, in its order.
RunsTheFunction == part = "stream" => Stream!RunsTheFunction
=============================================================================
