------------------------------ MODULE Liveness ------------------------------
(***************************************************************************)
(* pn_calculate_uses.h and pn_calculate_liveness.h, in the build that has  *)
(* them: which values a block uses, from which block to which block each   *)
(* value is live, and a slot for each value that is to be its own as long  *)
(* as it is live.  Blocks are visited from the last to the first; a value  *)
(* is followed back from the first use that is met and from no other.      *)
(*                                                                         *)
(* A value is its number in the function: arguments and constants first,   *)
(* then what the instructions define, in the order of the blocks.          *)
(***************************************************************************)
EXTENDS Integers, Sequences, FiniteSets, FiniteSetsExt, SequencesExt

CONSTANTS
  NumBbs,     \* function->num_bbs
  NumFixed,   \* function->num_args + function->num_constants
  NumLocals,  \* the values that instructions define
  MaxUses     \* bound on the uses outside of phis

SizesAssumption ==
  NumBbs \in Nat \ {0} /\ NumFixed \in Nat /\ NumLocals \in Nat \ {0} /\ MaxUses \in Nat

Bbs        == 1..NumBbs
Entry      == 1
num_values == NumFixed + NumLocals
Fixed      == 0..(NumFixed - 1)
Locals     == NumFixed..(num_values - 1)

VARIABLES
  func,         \* the function: successors, blocks of definitions, uses, phi uses
  range,        \* function->value_liveness_range: [first, last, slot]
  seen_values,  \* state.seen_values
  n,            \* the block, then the value, that comes next
  phase,        \* "live", "slots", "done"
  bb_id,        \* how far pn_function_make_slot_map has come
  avail_slots,  \* its heap of slots
  active        \* its active ranges

vars == <<func, range, seen_values, n, phase, bb_id, avail_slots, active>>

-----------------------------------------------------------------------------
(* The function as it was read.                                             *)

Preds(succs, b) == {p \in Bbs : b \in succs[p]}

\* The blocks that can be reached from the entry without entering block d.
ReachedAvoiding(succs, d) ==
  LET Step(S, k) == S \cup (UNION {succs[p] : p \in S} \ {d})
  IN  FoldLeft(Step, {Entry} \ {d}, [k \in Bbs |-> k])

\* The values that a block, or the end of it, can use.
Available(succs, def_bb, b) ==
  {v \in Locals : def_bb[v] = b \/ b \notin ReachedAvoiding(succs, def_bb[v])}

\* Graphs in which every block can be reached, and where the values are defined.
Graphs      == {s \in [Bbs -> SUBSET (Bbs \ {Entry})] : ReachedAvoiding(s, 0) = Bbs}
Definitions == {d \in [Locals -> Bbs] : \A v, u \in Locals : v < u => d[v] <= d[u]}

\* A phi with a value from each of the predecessors.
PhiLists(preds, available) ==
  {[i \in DOMAIN preds |-> [bb |-> preds[i], value |-> f[i]]] :
     f \in {g \in [DOMAIN preds -> 0..(num_values - 1)] :
              \A i \in DOMAIN preds : g[i] \in Fixed \cup available[preds[i]]}}

\* func has the graph and the definitions, a few uses, and a phi in block d, if that
\* defines a value, or no phi.
IsFunction(succs, def_bb) ==
  LET available == [b \in Bbs |-> Available(succs, def_bb, b)]
      usable    == {u \in Bbs \X Locals : u[2] \in available[u[1]]}
      lists(d)  == IF \A v \in Locals : def_bb[v] # d THEN {}
                   ELSE PhiLists(SetToSortSeq(Preds(succs, d), <), available)
  IN  \E k \in 0..MaxUses : \E uses \in kSubset(k, usable) :
        \E d \in Bbs \ {Entry} : \E list \in {<<>>} \cup lists(d) :
          func = [succs |-> succs, def_bb |-> def_bb, uses |-> uses,
                  phi_uses |-> [b \in Bbs |-> IF b = d THEN list ELSE <<>>]]

\* bb->uses: the values in the order of the bits of the set
UsesOf(b) == SetToSortSeq({v \in Locals : <<b, v>> \in func.uses}, <)

\* A value is live in the block that defines it.
Init ==
  /\ \E succs \in Graphs, def_bb \in Definitions : IsFunction(succs, def_bb)
  /\ range = [v \in Locals |-> [first |-> func.def_bb[v], last |-> func.def_bb[v], slot |-> -1]]
  /\ seen_values = {}
  /\ n = NumBbs
  /\ phase = "live"
  /\ bb_id = 1
  /\ avail_slots = [i \in 1..num_values |-> i - 1]
  /\ active = <<>>

-----------------------------------------------------------------------------
(* pn_basic_block_calculate_liveness                                        *)

\* Slip: the walk goes on behind the definition.
LiveInUnkilled(b, v) ==
  LET Step(S, k) == S \cup UNION {Preds(func.succs, p) : p \in S}
  IN  FoldLeft(Step, {b}, [k \in Bbs |-> k])

\* The loop of pn_basic_block_calculate_liveness_per_value: from block b back to the
\* definition of v, which ends it.
LiveIn(b, v) ==
  LET Step(S, k) == S \cup UNION {Preds(func.succs, p) : p \in S \ {func.def_bb[v]}}
  IN  FoldLeft(Step, {b}, [k \in Bbs |-> k]) \ {func.def_bb[v]}

\* What the walk makes of the range.
Extend(r, S) ==
  [r EXCEPT !.first = Min(S \cup {r.first}), !.last = Max(S \cup {r.last})]

\* pn_basic_block_calculate_liveness_per_value
PerValue(live, use) ==
  IF use.value \in live.seen THEN live
  ELSE [seen  |-> live.seen \cup {use.value},
        range |-> [live.range EXCEPT ![use.value] = Extend(@, LiveIn(use.bb, use.value))]]

\* The uses a block is walked from: its phis, up to the first operand that is an
\* argument or a constant, and then what its instructions use.
WalkedUses(b) ==
  LET phis  == func.phi_uses[b]
      fixed == {i \in DOMAIN phis : phis[i].value \in Fixed}
      taken == IF fixed = {} THEN phis ELSE SubSeq(phis, 1, Min(fixed) - 1)
      uses  == UsesOf(b)
  IN  taken \o [i \in DOMAIN uses |-> [bb |-> b, value |-> uses[i]]]

CalculateBlock ==
  /\ phase = "live" /\ n > 0
  /\ LET live == FoldLeft(PerValue, [seen |-> seen_values, range |-> range], WalkedUses(n))
     IN  seen_values' = live.seen /\ range' = live.range
  /\ n' = n - 1
  /\ UNCHANGED <<func, phase, bb_id, avail_slots, active>>

BeginSlots ==
  /\ phase = "live" /\ n = 0
  /\ phase' = "slots"
  /\ n' = NumFixed
  /\ UNCHANGED <<func, range, seen_values, bb_id, avail_slots, active>>

-----------------------------------------------------------------------------
(* pn_function_make_slot_map                                                *)

\* "Reheap avail": the slot goes up from the end of the heap.
Insert(heap, slot) ==
  LET Up(h, k) == IF h.at > 1 /\ h.heap[h.at \div 2] > slot
                  THEN [at |-> h.at \div 2, heap |-> [h.heap EXCEPT ![h.at] = h.heap[h.at \div 2]]]
                  ELSE h
      up == FoldLeft(Up, [at |-> Len(heap) + 1, heap |-> Append(heap, slot)],
                     [k \in DOMAIN heap |-> k])
  IN  [up.heap EXCEPT ![up.at] = slot]

\* "Pop minimum slot id from heap": the hole goes down along the smaller children while
\* there are two, takes an only child, and then the heap is one shorter.
Popped(heap) ==
  LET Child(h) == IF h.heap[2 * h.at] < h.heap[2 * h.at + 1] THEN 2 * h.at ELSE 2 * h.at + 1
      Down(h, k) == IF 2 * h.at + 1 > Len(heap) THEN h
                    ELSE [at |-> Child(h), heap |-> [h.heap EXCEPT ![h.at] = h.heap[Child(h)]]]
      down == FoldLeft(Down, [at |-> 1, heap |-> heap], [k \in DOMAIN heap |-> k])
      last == IF 2 * down.at <= Len(heap) THEN [down.heap EXCEPT ![down.at] = heap[2 * down.at]]
              ELSE down.heap
  IN  SubSeq(last, 1, Len(heap) - 1)

\* "Evict active intervals that are now finished", at place m of the list: the last one
\* takes the place, and is looked at next.
EvictAt(s, b) ==
  IF s.m > Len(s.active) THEN s
  ELSE IF range[s.active[s.m]].last < b
  THEN [m |-> s.m, avail |-> Insert(s.avail, range[s.active[s.m]].slot),
        active |-> SubSeq([s.active EXCEPT ![s.m] = s.active[Len(s.active)]], 1, Len(s.active) - 1)]
  ELSE [s EXCEPT !.m = @ + 1]

\* The slots and the active values when value v comes.
Evicted(v) ==
  LET start == [m |-> 1, avail |-> avail_slots, active |-> active]
      Step(s, k) == EvictAt(s, range[v].first)
  IN  IF range[v].first > bb_id
      THEN FoldLeft(Step, start, [k \in DOMAIN active |-> k])
      ELSE start

AssignSlot ==
  LET left == Evicted(n) IN
  /\ phase = "slots" /\ n < num_values
  /\ bb_id' = Max({bb_id, range[n].first})
  /\ range' = [range EXCEPT ![n].slot = left.avail[1]]
  /\ avail_slots' = Popped(left.avail)
  /\ active' = Append(left.active, n)
  /\ n' = n + 1
  /\ UNCHANGED <<func, seen_values, phase>>

Finish ==
  /\ phase = "slots" /\ n = num_values
  /\ phase' = "done"
  /\ UNCHANGED <<func, range, seen_values, n, bb_id, avail_slots, active>>

Done == phase = "done" /\ UNCHANGED vars

Next == CalculateBlock \/ BeginSlots \/ AssignSlot \/ Finish \/ Done

Spec == Init /\ [][Next]_vars

-----------------------------------------------------------------------------
(* Properties.                                                              *)

\* Every use of a value: where control may be when it is needed.
AllUses(v) ==
  {u[1] : u \in {x \in func.uses : x[2] = v}}
    \cup {u.bb : u \in {x \in UNION {ToSet(func.phi_uses[b]) : b \in Bbs} : x.value = v}}

\* The blocks from which block b can be reached without passing the definition of v.
LiveFrom(b, v) ==
  {p \in Bbs : \A S \in SUBSET Bbs :
     b \in S /\ (\A q \in S \ {func.def_bb[v]} : Preds(func.succs, q) \subseteq S) => p \in S}

\* The blocks that a value is live in.
LiveAt(v) == {func.def_bb[v]} \cup UNION {LiveFrom(b, v) : b \in AllUses(v)}

\* A range ends on both sides with a block the value is live in.
RangesEndLive ==
  phase # "live" => \A v \in Locals : {range[v].first, range[v].last} \subseteq LiveAt(v)

\* The range of a value with one use, which no constant operand hides, is exact.
OneUseExact ==
  phase # "live" =>
    \A v \in Locals :
      Cardinality(AllUses(v)) = 1 /\ v \in seen_values =>
        range[v].first = Min(LiveAt(v)) /\ range[v].last = Max(LiveAt(v))

\* The slot that is popped is the lowest of those there are, and as many are left as
\* values are not active: the asserts of pn_function_make_slot_map hold.
LowestSlotFirst ==
  /\ \A i \in DOMAIN avail_slots : avail_slots[1] <= avail_slots[i]
  /\ Len(avail_slots) + Len(active) = num_values

\* "Pop minimum slot id from heap" takes a slot out of it: values that are live at the
\* same time have slots of their own.
SlotsApart ==
  phase = "done" =>
    \A v, u \in Locals :
      v < u /\ range[v].first <= range[u].last /\ range[u].first <= range[v].last
        => range[v].slot # range[u].slot
=============================================================================
