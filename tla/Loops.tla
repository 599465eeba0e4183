------------------------------- MODULE Loops -------------------------------
(***************************************************************************)
(* pn_calculate_pred_bbs.h and pn_calculate_loops.h: the predecessors of   *)
(* the basic blocks, and the loops they are in, found in one depth-first   *)
(* walk that weaves the headers of the loops it meets into one list per    *)
(* block.  The reference is the textbook definition: a loop header         *)
(* dominates the source of an edge to it, its loop is what reaches that    *)
(* edge without passing the header.                                        *)
(***************************************************************************)
EXTENDS Integers, Sequences, FiniteSets, SequencesExt

CONSTANTS
  NumBbs,   \* function->num_bbs
  Parallel  \* whether a block may name a successor twice

NumBbsAssumption == NumBbs \in Nat \ {0} /\ Parallel \in BOOLEAN

Bbs     == 1..NumBbs
Entry   == 1
Invalid == 0    \* PN_INVALID_BB_ID

VARIABLES
  succ_bb_ids,  \* the successors of each block, in order
  pred_bb_ids,  \* the predecessors, as calculated
  loops,        \* the fields of the blocks that pn_calculate_loops sets
  phase         \* "read", "preds", "loops"

vars == <<succ_bb_ids, pred_bb_ids, loops, phase>>

NoLoops ==
  [seen           |-> {},
   dfsp_pos       |-> [b \in Bbs |-> 0],
   loop_header_id |-> [b \in Bbs |-> Invalid],
   is_loop_header |-> {}, is_reentry |-> {}, is_irreducible |-> {}]

Fields ==
  [seen           : SUBSET Bbs,
   dfsp_pos       : [Bbs -> Nat],
   loop_header_id : [Bbs -> Nat],
   is_loop_header : SUBSET Bbs, is_reentry : SUBSET Bbs, is_irreducible : SUBSET Bbs]

\* Which blocks a block can have as successors.  The entry block is branched to by
\* none; the other blocks are named in the order in which it names them.  It has one
\* successor or two: without any there is nothing to walk.
Successors(b) ==
  IF b = Entry THEN {[i \in 1..k |-> i + 1] : k \in 1..2}
  ELSE {<<>>} \cup {<<s>> : s \in Bbs \ {Entry}}
       \cup {<<e[1], e[2]>> : e \in {f \in (Bbs \ {Entry}) \X (Bbs \ {Entry}) :
                                     Parallel \/ f[1] # f[2]}}

Init ==
  /\ succ_bb_ids \in {f \in [Bbs -> UNION {Successors(b) : b \in Bbs}] :
                        \A b \in Bbs : f[b] \in Successors(b)}
  /\ pred_bb_ids = [b \in Bbs |-> <<>>]
  /\ loops = NoLoops
  /\ phase = "read"

-----------------------------------------------------------------------------
(* pn_function_calculate_pred_bbs                                                   *)

\* Every edge, by source and then by place in its list: the order of both passes.
EdgeList == FlattenSeq([b \in Bbs |-> [i \in DOMAIN succ_bb_ids[b] |-> <<b, succ_bb_ids[b][i]>>]])

CalculatePredBbs ==
  /\ phase = "read"
  /\ pred_bb_ids' = [b \in Bbs |->
       LET into == SelectSeq(EdgeList, LAMBDA e : e[2] = b)
       IN  [i \in DOMAIN into |-> into[i][1]]]
  /\ phase' = "preds"
  /\ UNCHANGED <<succ_bb_ids, loops>>

-----------------------------------------------------------------------------
(* pn_function_calculate_loops                                                      *)

\* The loop of pn_basic_block_tag_loop_header: the header cur2 and those behind it are
\* woven into the list of headers of cur1, innermost first.
Weave(st, b, h) ==
  LET weave[w \in [headers : [Bbs -> Nat], cur1 : Bbs, cur2 : Bbs]] ==
        LET parent == w.headers[w.cur1]
            tagged == [w.headers EXCEPT ![w.cur1] = w.cur2]
        IN  IF parent = Invalid THEN tagged
            ELSE IF parent = w.cur2 THEN w.headers
            ELSE IF st.dfsp_pos[parent] < st.dfsp_pos[w.cur2]
            THEN weave[[headers |-> tagged, cur1 |-> w.cur2, cur2 |-> parent]]
            ELSE weave[[w EXCEPT !.cur1 = parent]]
  IN  [st EXCEPT !.loop_header_id = weave[[headers |-> @, cur1 |-> b, cur2 |-> h]]]

\* Slip: the header replaces the one that was there.
TagReplaces(st, b, h) ==
  IF h = Invalid \/ h = b THEN st ELSE [st EXCEPT !.loop_header_id[b] = h]

TagLoopHeader(st, b, h) == IF h = Invalid \/ h = b THEN st ELSE Weave(st, b, h)

\* An edge into a loop whose header is not on the path: the header is irreducible, and
\* so are those around it up to the first that is on the path.
EnterFinishedLoop(st, b, h) ==
  LET on_path(g) == g = Invalid \/ st.dfsp_pos[g] > 0
      outside[g \in Bbs] ==  \* the headers that are left, and the one on the path
        LET outer == st.loop_header_id[g]
        IN  IF on_path(outer) THEN [left |-> {g}, outer |-> outer]
            ELSE [outside[outer] EXCEPT !.left = @ \cup {g}]
  IN  TagLoopHeader([st EXCEPT !.is_irreducible = @ \cup outside[h].left], b, outside[h].outer)

\* An edge from b to a block that was seen before.
SeenSuccessor(st, b, s) ==
  LET h == st.loop_header_id[s]
  IN  IF st.dfsp_pos[s] > 0
      THEN TagLoopHeader([st EXCEPT !.is_loop_header = @ \cup {s}], b, s)
      ELSE IF h = Invalid THEN st
      ELSE IF st.dfsp_pos[h] > 0 THEN TagLoopHeader(st, b, h)
      ELSE EnterFinishedLoop([st EXCEPT !.is_reentry = @ \cup {s}], b, h)

\* pn_basic_block_calculate_loops from the entry on, from successor number n on
Walk ==
  LET walk[w \in [st : Fields, b : Bbs, pos : Nat, n : Nat]] ==
        IF w.n > Len(succ_bb_ids[w.b]) THEN [w.st EXCEPT !.dfsp_pos[w.b] = 0]
        ELSE LET s == succ_bb_ids[w.b][w.n]
                 entered == [w.st EXCEPT !.seen = @ \cup {s}, !.dfsp_pos[s] = w.pos + 1]
                 walked  == walk[[st |-> entered, b |-> s, pos |-> w.pos + 1, n |-> 1]]
             IN  walk[[w EXCEPT !.n = @ + 1,
                                !.st = IF s \notin @.seen
                                       THEN TagLoopHeader(walked, w.b, walked.loop_header_id[s])
                                       ELSE SeenSuccessor(@, w.b, s)]]
  IN  walk[[st |-> [NoLoops EXCEPT !.seen = {Entry}, !.dfsp_pos[Entry] = 1],
            b |-> Entry, pos |-> 1, n |-> 1]]

CalculateLoops ==
  /\ phase = "preds"
  /\ loops' = Walk
  /\ phase' = "loops"
  /\ UNCHANGED <<succ_bb_ids, pred_bb_ids>>

Done == phase = "loops" /\ UNCHANGED vars

Next == CalculatePredBbs \/ CalculateLoops \/ Done

Spec == Init /\ [][Next]_vars

-----------------------------------------------------------------------------
(* The reference.                                                                   *)

Succs == [b \in Bbs |-> ToSet(succ_bb_ids[b])]

\* The blocks that can be reached from the set S without entering block h.
ReachedFrom(succs, S, h) ==
  LET reached[T \in SUBSET Bbs] ==
        LET U == T \cup (UNION {succs[p] : p \in T} \ {h})
        IN  IF U = T THEN T ELSE reached[U]
  IN  reached[S]

\* The blocks that h dominates: it is on every path from the entry to them.
Dominated ==
  LET succs == Succs
      reached == ReachedFrom(succs, {Entry}, Invalid)
  IN  [h \in Bbs |-> IF h = Entry THEN reached
                     ELSE reached \ ReachedFrom(succs, {Entry}, h)]

\* The blocks with an edge that closes a loop of header h, and the loop: the blocks
\* that reach such an edge without passing h.
ClosingTo(succs, dom) == [h \in Bbs |-> {p \in dom[h] : h \in succs[p]}]
LoopOf(succs, closing, h) ==
  {h} \cup {b \in Bbs \ {h} : ReachedFrom(succs, {b}, h) \cap closing[h] # {}}

\* Every cycle has a block that dominates the others: without the closing edges no
\* cycle is left.
Reducible ==
  LET succs == Succs
      dom   == Dominated
      reached == dom[Entry]
      forward == [p \in Bbs |-> {s \in succs[p] : p \notin dom[s]}]
  IN  \A b \in reached : b \notin ReachedFrom(forward, forward[b], Invalid)

-----------------------------------------------------------------------------
(* Properties.                                                                      *)

\* A predecessor list has one entry for each edge into the block, a switch with two
\* cases to one block included: num_pred_bbs of the first pass is what the last fills.
PredsMatchSuccs ==
  phase # "read" =>
    \A b, p \in Bbs :
      Cardinality({i \in DOMAIN pred_bb_ids[b] : pred_bb_ids[b][i] = p})
        = Cardinality({i \in DOMAIN succ_bb_ids[p] : succ_bb_ids[p][i] = b})

\* On a graph that can be reduced the walk finds the loops of the definition: their
\* headers, and for every block the innermost loop around it, a header's own excluded.
LoopsAreNatural ==
  phase = "loops" /\ Reducible =>
    LET succs   == Succs
        dom     == Dominated
        closing == ClosingTo(succs, dom)
        headers == {h \in Bbs : closing[h] # {}}
        loop    == [h \in headers |-> LoopOf(succs, closing, h)]
    IN  /\ loops.is_loop_header = headers
        /\ \A b \in dom[Entry] :
             LET around == {h \in headers \ {b} : b \in loop[h]}
                 found  == loops.loop_header_id[b]
             IN  IF around = {} THEN found = Invalid
                 ELSE found \in around /\ \A h \in around : found \in dom[h]

\* A graph has a cycle without a dominating header exactly when the walk marks one: the
\* block where it entered the finished loop, and the header it found for that loop.
IrreducibleIsMarked ==
  phase = "loops" =>
    /\ IF Reducible THEN loops.is_irreducible = {} /\ loops.is_reentry = {}
       ELSE loops.is_irreducible # {} /\ loops.is_reentry # {}
    /\ loops.is_irreducible \subseteq loops.is_loop_header

\* The headers of a block, innermost first, end with a block of no loop: the lists that
\* printing and the walk itself follow have no cycle, and nothing stays on the path.
HeadersEnd ==
  phase = "loops" =>
    /\ loops.dfsp_pos = [b \in Bbs |-> 0]
    /\ LET up(b) == loops.loop_header_id[b]
           chain[k \in 0..NumBbs] ==
             [b \in Bbs |-> IF k = 0 \/ b = Invalid THEN b
                            ELSE LET c == chain[k - 1][b]
                                 IN  IF c = Invalid THEN c ELSE up(c)]
       IN  \A b \in Bbs : chain[NumBbs][b] = Invalid
=============================================================================
