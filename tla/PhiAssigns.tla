----------------------------- MODULE PhiAssigns -----------------------------
(***************************************************************************)
(* Phi instructions.  LLVM evaluates all the phis at the head of a block   *)
(* at once, on entry from a predecessor.  pnacl.c turns them into a list   *)
(* of assignments per predecessor (pn_calculate_uses.h collects the uses,  *)
(* pn_calculate_phi_assigns.h distributes them) which the branch at its    *)
(* end executes (pn_thread_do_phi_assigns): one after the other when the   *)
(* list is marked fast, through a temporary copy when it is not.           *)
(*                                                                         *)
(* A function is any control-flow graph with any phis; what matters of a   *)
(* value is which one it is, so a register initially holds its own name.   *)
(***************************************************************************)
EXTENDS Integers, Sequences, FiniteSets, FiniteSetsExt, SequencesExt

CONSTANTS
  NumBbs,           \* function->num_bbs
  NumValues,        \* the values of the function
  MaxPhiSuccessors  \* how many successors of a block may have phis

Bbs    == 1..NumBbs
Values == 1..NumValues
None   == 0  \* no block: PN_INVALID_BB_ID

SizesAssumption ==
  NumBbs \in Nat \ {0} /\ NumValues \in Nat \ {0} /\ MaxPhiSuccessors \in Nat

VARIABLES
  func,         \* the function: successors, blocks of the phis, incoming values
  phi_assigns,  \* bb->phi_assigns
  fast,         \* bb->fast_phi_assign
  values,       \* the registers of the frame
  bb,           \* the block that is executing
  dest          \* the block it branched to, None before

vars == <<func, phi_assigns, fast, values, bb, dest>>

-----------------------------------------------------------------------------
(* The function: what the bitcode reader accepts from a well-formed module.  Block *)
(* 1 is the entry, which nothing branches to.  Values are numbered in the order in *)
(* which they are defined, arguments first, so phis in the order of their blocks.  *)

Entry == 1

\* The blocks that can be reached from the entry without passing through block d.
ReachedAvoiding(succs, d) ==
  {b \in Bbs : \A S \in SUBSET Bbs :
     (Entry # d => Entry \in S) /\ (\A p \in S : succs[p] \ {d} \subseteq S) => b \in S}

\* The values that are defined wherever control is at the end of block p.
Available(succs, phi_bb, p) ==
  {v \in Values : phi_bb[v] \in {None, p} \/ p \notin ReachedAvoiding(succs, phi_bb[v])}

\* The phis that take a value from p.
PhisFrom(succs, phi_bb, p) == {v \in Values : phi_bb[v] \in succs[p]}

\* The blocks with phis that p may branch to.
PhiSuccs(succs, phi_bb, p) == {d \in succs[p] : \E v \in Values : phi_bb[v] = d}

\* Graphs in which every block can be reached from the entry.
Graphs == {succs \in [Bbs -> SUBSET (Bbs \ {Entry})] :
             ReachedAvoiding(succs, None) = Bbs}

\* Where the phis are: value 1 is an argument.
PhiBlocks == {phi_bb \in [Values -> {None} \cup (Bbs \ {Entry})] :
                /\ phi_bb[1] = None
                /\ \A v, u \in Values : v < u => phi_bb[v] <= phi_bb[u]}

\* The functions with the graph succs and the phis phi_bb: from each block p, every
\* phi of its successors takes a value that is available there.
Functions(succs, phi_bb) ==
  LET From(p) == [PhisFrom(succs, phi_bb, p) -> Available(succs, phi_bb, p)]
      upTo[p \in 0..NumBbs] ==
        IF p = 0 THEN {<<>>} ELSE {Append(x[1], x[2]) : x \in upTo[p - 1] \X From(p)}
  IN  {[succs |-> succs, phi_bb |-> phi_bb, incoming |-> inc] : inc \in upTo[NumBbs]}

\* pn_basic_block_calculate_uses: the phi uses of block d, phi by phi.
phi_uses(d) ==
  FlattenSeq([v \in Values |->
    IF func.phi_bb[v] # d THEN <<>>
    ELSE FlattenSeq([p \in Bbs |->
           IF d \notin func.succs[p] THEN <<>>
           ELSE <<[dest |-> v, bb |-> p, source |-> func.incoming[p][v]]>>])])

-----------------------------------------------------------------------------
(* pn_function_calculate_phi_assigns                                        *)

\* Slip: assign->bb_id is never set.
AssignsOfNowhere(b) ==
  FlattenSeq([d \in Bbs |->
    LET uses == phi_uses(d)
    IN  FlattenSeq([n \in 1..Len(uses) |->
          IF uses[n].bb # b THEN <<>>
          ELSE <<[bb |-> None, dest |-> uses[n].dest, source |-> uses[n].source]>>])])

\* The second pass: block b gets the uses it is the incoming block of, in the
\* order of the blocks they are in.
AssignsOf(b) ==
  FlattenSeq([d \in Bbs |->
    LET uses == phi_uses(d)
    IN  FlattenSeq([n \in 1..Len(uses) |->
          IF uses[n].bb # b THEN <<>>
          ELSE <<[bb |-> d, dest |-> uses[n].dest, source |-> uses[n].source]>>])])

\* Slip: only the assignment just before is looked at.
IsFastNeighbours(assigns) ==
  \A m \in DOMAIN assigns :
    m > 1 => assigns[m].source # assigns[m - 1].dest

\* The third pass: bb_id is set by the first assignment of the list and kept; an
\* assignment to that block whose source is the destination of an earlier one in
\* the list rules out the fast way.
IsFast(assigns) ==
  \A m \in DOMAIN assigns :
    assigns[m].bb = assigns[1].bb =>
      \A k \in 1..(m - 1) : assigns[m].source # assigns[k].dest

Calculate ==
  /\ bb = None
  /\ phi_assigns' = [b \in Bbs |-> AssignsOf(b)]
  /\ fast' = [b \in Bbs |-> IsFast(AssignsOf(b))]
  /\ bb' \in Bbs
  /\ UNCHANGED <<func, values, dest>>

-----------------------------------------------------------------------------
(* pn_thread_do_phi_assigns                                                 *)

\* The fast way: the assignments for the destination, one after the other.
CopyInOrder(assigns, d) ==
  LET copied[i \in 0..Len(assigns)] ==
        IF i = 0 THEN values
        ELSE IF assigns[i].bb = d
             THEN [copied[i - 1] EXCEPT ![assigns[i].dest] =
                                        copied[i - 1][assigns[i].source]]
             ELSE copied[i - 1]
  IN  copied[Len(assigns)]

\* The slow way: read every source first, then write.
CopyThroughTemp(assigns, d) ==
  LET temp == [i \in 1..Len(assigns) |-> values[assigns[i].source]]
      written[i \in 0..Len(assigns)] ==
        IF i = 0 THEN values
        ELSE IF assigns[i].bb = d
             THEN [written[i - 1] EXCEPT ![assigns[i].dest] = temp[i]]
             ELSE written[i - 1]
  IN  written[Len(assigns)]

\* PN_OPCODE_BR, PN_OPCODE_BR_INT1 and PN_OPCODE_SWITCH to block d
Branch(d) ==
  /\ bb # None /\ dest = None
  /\ d \in func.succs[bb]
  /\ values' = IF fast[bb] THEN CopyInOrder(phi_assigns[bb], d)
               ELSE CopyThroughTemp(phi_assigns[bb], d)
  /\ dest' = d
  /\ UNCHANGED <<func, phi_assigns, fast, bb>>

Init ==
  /\ \E succs \in Graphs, phi_bb \in PhiBlocks :
       /\ \A p \in Bbs : Cardinality(PhiSuccs(succs, phi_bb, p)) <= MaxPhiSuccessors
       /\ func \in Functions(succs, phi_bb)
  /\ phi_assigns = [b \in Bbs |-> <<>>]
  /\ fast = [b \in Bbs |-> FALSE]
  /\ values = [v \in Values |-> v]
  /\ bb = None
  /\ dest = None

\* Nothing is left to branch to, or the branch has been taken.
Done ==
  /\ bb # None
  /\ dest # None \/ func.succs[bb] = {}
  /\ UNCHANGED vars

Next == Calculate \/ (\E d \in Bbs : Branch(d)) \/ Done

Spec == Init /\ [][Next]_vars

-----------------------------------------------------------------------------
(* Properties.                                                              *)

TypeOK ==
  /\ func.succs \in [Bbs -> SUBSET Bbs] /\ func.phi_bb \in [Values -> Bbs \cup {None}]
  /\ \A p \in Bbs :
       func.incoming[p] \in [PhisFrom(func.succs, func.phi_bb, p) -> Values]
  /\ phi_assigns \in [Bbs -> Seq([bb : Bbs, dest : Values, source : Values])]
  /\ fast \in [Bbs -> BOOLEAN]
  /\ values \in [Values -> Values]
  /\ bb \in Bbs \cup {None} /\ dest \in Bbs \cup {None}

\* Entering a block evaluates its phis at once: every phi of the destination gets the
\* value its incoming register held before the branch, no other register changes.
PhisAreParallel ==
  dest # None =>
    \A v \in Values :
      values[v] = IF func.phi_bb[v] = dest THEN func.incoming[bb][v] ELSE v

\* "Look backward to see if this assignment's source is a prior destination. If so, we
\* won't be able to do this phi assign the fast way": a list marked fast has no such
\* pair among the assignments for one destination block, whichever block it is.
FastHasNoConflict ==
  bb # None =>
    \A b \in Bbs : fast[b] =>
      \A m \in DOMAIN phi_assigns[b] : \A k \in 1..(m - 1) :
        phi_assigns[b][m].bb = phi_assigns[b][k].bb
          => phi_assigns[b][m].source # phi_assigns[b][k].dest
=============================================================================
