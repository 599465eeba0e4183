------------------------------ MODULE Abbrevs ------------------------------
(***************************************************************************)
(* pn_abbrev.h and the blockinfo block: the lists of abbreviations.  The   *)
(* allocator grows only its last allocation, so a list keeps its headers   *)
(* and the operands of all of them in one allocation, and adding a header  *)
(* moves every operand and mends every pointer.  Two allocators hold       *)
(* lists: the module's, one list per block id, and the temporary one, the  *)
(* lists of the blocks that are being read.  The instructions of a         *)
(* function block and the relocations of a globalvar block that wait for   *)
(* their value come from the temporary one too, between the definitions.   *)
(*                                                                         *)
(* The memory of an allocator is a function of addresses in units of one   *)
(* operand: a header is two of them, the number of operands and the        *)
(* pointer to the first.                                                   *)
(***************************************************************************)
EXTENDS Integers, Sequences, SequencesExt, Functions

CONSTANTS
  BlockIds,   \* the block ids below PN_MAX_BLOCK_IDS that have abbreviations
  MaxOps,     \* operands of an abbreviation
  MaxAbbrevs, \* abbreviations defined in all
  MaxRecords  \* records read in all that allocate

NULL == -1
PN_BLOCKID_BLOCKINFO    == 0
PN_BLOCKID_CONSTANTS    == 11
PN_BLOCKID_FUNCTION     == 12
PN_BLOCKID_VALUE_SYMTAB == 14
PN_BLOCKID_GLOBALVAR    == 19
Temp == "temp"      \* module->temp_allocator
Perm == "module"    \* module->allocator

AbbrevsAssumption == BlockIds \subseteq Nat /\ MaxOps \in Nat

VARIABLES
  mem,         \* the words of each allocator
  alloc,       \* of each allocator: current, last_alloc, and the top of its last chunk
  map,         \* context->block_abbrev_map: abbrevs (NULL or address), num_abbrevs
  locals,      \* the open blocks, innermost last: id, the list, reloc_infos (NULL or
               \* address), and the mark taken before the block; latest, a history: what
               \* the block allocated last, "none", "abbrevs" or "record"
  block_id,    \* of the blockinfo block, NULL before a SETBID
  reading,     \* "blockinfo", then "blocks"; "fatal..." when the allocator refused
  content,     \* history: what was added to each list of map and of locals
  appended,    \* history: the block ids that got abbreviations, in order
  defined,     \* history: how many abbreviations were defined
  records      \* history: how many records have allocated

vars == <<mem, alloc, map, locals, block_id, reading, content, appended, defined, records>>

NoList == [abbrevs |-> NULL, num_abbrevs |-> 0]
Unused == [current |-> 0, last_alloc |-> NULL]

Open(id, list, mark) ==
  [id |-> id, list |-> list, reloc_infos |-> NULL, mark |-> mark,
   latest |-> IF list = NoList THEN "none" ELSE "abbrevs"]

Init ==
  /\ mem = [a \in {Temp, Perm} |-> <<>>]
  /\ alloc = [a \in {Temp, Perm} |-> Unused]
  /\ map = [b \in BlockIds |-> NoList]
  /\ locals = <<Open(PN_BLOCKID_BLOCKINFO, NoList, Unused)>>
  /\ block_id = NULL
  /\ reading = "blockinfo"
  /\ content = [map |-> [b \in BlockIds |-> <<>>], locals |-> <<<<>>>>]
  /\ appended = <<>>
  /\ defined = 0
  /\ records = 0

-----------------------------------------------------------------------------
(* Adding an abbreviation to a list, as a function of the memory, the allocator and *)
(* the list.                                                                        *)

Write(m, addr, cells) ==
  LET written == addr..(addr + Len(cells) - 1)
  IN  [i \in DOMAIN m \cup written |-> IF i \in written THEN cells[i - addr + 1] ELSE m[i]]

Cells(m, addr, size) == [i \in 1..size |-> m[addr + i - 1]]

\* The check of pn_allocator_realloc_add.
Growable(a, p) == p \in {NULL, a.last_alloc}

\* pn_allocator_realloc_add: grows in place, or moves to a new chunk that starts at
\* the next multiple of 100.
Realloc(m, a, p, add, moves) ==
  LET size  == IF p = NULL THEN 0 ELSE a.current - p
      base  == IF moves THEN 100 * (a.current \div 100 + 1)
               ELSE IF p = NULL THEN a.current ELSE p
      old   == {i \in DOMAIN m : p # NULL /\ i >= p /\ i < p + size}
  IN  [mem |-> IF p # NULL /\ base # p
               THEN Write(Restrict(m, DOMAIN m \ old), base, Cells(m, p, size))
               ELSE m,
       alloc |-> [current |-> base + size + add, last_alloc |-> base],
       p |-> base]

\* Slip: the pointers are not pushed up by the new header.
AllocateUnpushed(m, a, list, num_ops, moves) ==
  LET num  == list.num_abbrevs
      size == IF list.abbrevs = NULL THEN 0 ELSE a.current - list.abbrevs
      r    == Realloc(m, a, list.abbrevs, 2 + num_ops, moves)
      prev_ops == r.p + 2 * num
      moved == Write(r.mem, prev_ops + 2, Cells(r.mem, prev_ops, size - 2 * num))
  IN  [mem |-> Write(moved, prev_ops, <<num_ops, prev_ops + 2 + size - 2 * num>>),
       alloc |-> r.alloc, ops |-> prev_ops + 2 + size - 2 * num,
       list |-> [abbrevs |-> r.p, num_abbrevs |-> num + 1]]

\* Where the operands of each header at p are, and at num where those of the next one
\* are: one behind the other.
OpsFrom(m, p, num, start) ==
  LET ops[i \in 0..num] == IF i = 0 THEN start ELSE ops[i - 1] + m[p + 2 * (i - 1)]
  IN  ops

\* The pointers of the headers at p.
Mended(m, p, num, ops) ==
  [i \in DOMAIN m |-> IF i \in {p + 2 * k + 1 : k \in 0..(num - 1)}
                      THEN ops[(i - p) \div 2] ELSE m[i]]

\* pn_abbrevs_allocate: the operands move up by a header, every header points to where
\* its operands are now, the new header is the last.
Allocate(m, a, list, num_ops, moves) ==
  LET num  == list.num_abbrevs
      size == IF list.abbrevs = NULL THEN 0 ELSE a.current - list.abbrevs
      r    == Realloc(m, a, list.abbrevs, 2 + num_ops, moves)
      prev_ops == r.p + 2 * num
      moved == Write(r.mem, prev_ops + 2, Cells(r.mem, prev_ops, size - 2 * num))
      ops == OpsFrom(moved, r.p, num, prev_ops + 2)
  IN  [mem |-> Write(Mended(moved, r.p, num, ops), prev_ops, <<num_ops, ops[num]>>),
       alloc |-> r.alloc, ops |-> ops[num],
       list |-> [abbrevs |-> r.p, num_abbrevs |-> num + 1]]

\* The operands of the i-th abbreviation of a list, through its header.
Read(m, list, i) ==
  LET header == list.abbrevs + 2 * (i - 1)
  IN  Cells(m, m[header + 1], m[header])

\* pn_abbrev_copy and the operands pn_abbrev_read stores: a new abbreviation ops
AddAbbrev(m, a, list, ops, moves) ==
  LET new == Allocate(m, a, list, Len(ops), moves)
  IN  [new EXCEPT !.mem = Write(@, new.ops, ops)]

\* pn_block_info_context_copy_abbrevs_for_block_id, into an empty local list that moves
\* when the abbreviations in moves are added
CopyAbbrevs(b, moves) ==
  LET after[i \in 0..map[b].num_abbrevs] ==
        IF i = 0 THEN [mem |-> mem[Temp], alloc |-> alloc[Temp], list |-> NoList]
        ELSE LET was == after[i - 1]
             IN  AddAbbrev(was.mem, was.alloc, was.list, Read(mem[Perm], map[b], i), i \in moves)
  IN  after[map[b].num_abbrevs]

-----------------------------------------------------------------------------
(* The blockinfo block.                                                             *)

\* pn_abbrev_read: the next abbreviation of the stream.  No two operands are the same,
\* and none is a number or an address.
NextAbbrev(num_ops) == [i \in 1..num_ops |-> -(MaxOps * (defined + 1) + i)]

\* PN_FATAL in pn_allocator_realloc_add, PN_CHECK of the block id
Fatal ==
  /\ reading' = IF reading = "blockinfo" THEN "fatal" ELSE "fatal in a block"
  /\ UNCHANGED <<mem, alloc, map, locals, block_id, content, appended, defined, records>>

\* What an allocator holds below a mark: the rest is free.
Kept(m, mark) == Restrict(m, {i \in DOMAIN m : i < mark.current})

\* PN_BLOCKINFO_CODE_SETBID
SetBid(b) ==
  /\ reading = "blockinfo" /\ block_id # b
  /\ block_id' = b
  /\ UNCHANGED <<mem, alloc, map, locals, reading, content, appended, defined, records>>

\* PN_ENTRY_DEFINE_ABBREV: read into the local list, and copied from there to the list
\* of the block id.
DefineAbbrev(num_ops, moves) ==
  LET ops   == NextAbbrev(num_ops)
      top   == locals[Len(locals)]
      local == AddAbbrev(mem[Temp], alloc[Temp], top.list, ops, moves)
      copy  == AddAbbrev(mem[Perm], alloc[Perm], map[block_id],
                         Read(local.mem, local.list, local.list.num_abbrevs), moves)
  IN  /\ reading = "blockinfo" /\ defined < MaxAbbrevs
      /\ IF \/ block_id = NULL
            \/ ~Growable(alloc[Temp], top.list.abbrevs)
            \/ ~Growable(alloc[Perm], map[block_id].abbrevs)
         THEN Fatal
         ELSE /\ mem' = [mem EXCEPT ![Temp] = local.mem, ![Perm] = copy.mem]
              /\ alloc' = [alloc EXCEPT ![Temp] = local.alloc, ![Perm] = copy.alloc]
              /\ map' = [map EXCEPT ![block_id] = copy.list]
              /\ locals' = [locals EXCEPT ![Len(locals)].list = local.list,
                                          ![Len(locals)].latest = "abbrevs"]
              /\ content' = [content EXCEPT !.map[block_id] = Append(@, ops),
                                            !.locals[Len(locals)] = Append(@, ops)]
              /\ appended' = Append(appended, block_id)
              /\ defined' = defined + 1
              /\ UNCHANGED <<block_id, reading, records>>

\* PN_ENTRY_END_BLOCK: the module block goes back to the mark it took before.
EndBlockInfo ==
  /\ reading = "blockinfo"
  /\ reading' = "blocks"
  /\ alloc' = [alloc EXCEPT ![Temp] = locals[1].mark]
  /\ locals' = <<>>
  /\ content' = [content EXCEPT !.locals = <<>>]
  /\ mem' = [mem EXCEPT ![Temp] = Kept(@, locals[1].mark)]
  /\ UNCHANGED <<map, block_id, appended, defined, records>>

-----------------------------------------------------------------------------
(* The other blocks: each copies the abbreviations of its id into a local list and  *)
(* may define more; blocks nest, the mark of the outer one restores the allocator.  *)

\* PN_ENTRY_SUBBLOCK of the module block, and of a function block
Nests(b) ==
  IF locals = <<>> THEN b # PN_BLOCKID_CONSTANTS
  ELSE /\ locals[Len(locals)].id = PN_BLOCKID_FUNCTION
       /\ b \in {PN_BLOCKID_CONSTANTS, PN_BLOCKID_VALUE_SYMTAB}

EnterBlock(b, moves) ==
  /\ reading = "blocks" /\ Nests(b)
  /\ LET copy == CopyAbbrevs(b, moves)
     IN  /\ mem' = [mem EXCEPT ![Temp] = copy.mem]
         /\ alloc' = [alloc EXCEPT ![Temp] = copy.alloc]
         /\ locals' = Append(locals, Open(b, copy.list, alloc[Temp]))
  /\ content' = [content EXCEPT !.locals = Append(@, content.map[b])]
  /\ UNCHANGED <<map, block_id, reading, appended, defined, records>>

DefineLocalAbbrev(num_ops, moves) ==
  LET ops   == NextAbbrev(num_ops)
      top   == locals[Len(locals)]
      local == AddAbbrev(mem[Temp], alloc[Temp], top.list, ops, moves)
  IN  /\ reading = "blocks" /\ locals # <<>> /\ defined < MaxAbbrevs
      /\ IF ~Growable(alloc[Temp], top.list.abbrevs) THEN Fatal
         ELSE /\ mem' = [mem EXCEPT ![Temp] = local.mem]
              /\ alloc' = [alloc EXCEPT ![Temp] = local.alloc]
              /\ locals' = [locals EXCEPT ![Len(locals)].list = local.list,
                                          ![Len(locals)].latest = "abbrevs"]
              /\ content' = [content EXCEPT !.locals[Len(locals)] = Append(@, ops)]
              /\ defined' = defined + 1
              /\ UNCHANGED <<map, block_id, reading, appended, records>>

\* A record of the innermost block gets one more cell, at p or, where p is NULL, anew.
AllocateRecord(p, moves) ==
  LET r == Realloc(mem[Temp], alloc[Temp], p, 1, moves)
  IN  /\ mem' = [mem EXCEPT ![Temp] = Write(r.mem, r.alloc.current - 1, <<0>>)]
      /\ alloc' = [alloc EXCEPT ![Temp] = r.alloc]
      /\ locals' = [locals EXCEPT ![Len(locals)].latest = "record",
                                  ![Len(locals)].reloc_infos =
                                    IF locals[Len(locals)].id = PN_BLOCKID_GLOBALVAR
                                    THEN r.p ELSE NULL]
      /\ records' = records + 1
      /\ UNCHANGED <<map, block_id, reading, content, appended, defined>>

\* pn_basic_block_append_instruction.  The cases, the incoming values and the arguments
\* of the instruction are allocated behind it and grow while its record is read.
AppendInstruction(moves) ==
  /\ reading = "blocks" /\ locals # <<>> /\ records < MaxRecords
  /\ locals[Len(locals)].id = PN_BLOCKID_FUNCTION
  /\ AllocateRecord(NULL, moves)

\* PN_GLOBALVAR_CODE_RELOC of a value that is not known yet
Relocation(moves) ==
  LET p == locals[Len(locals)].reloc_infos
  IN  /\ reading = "blocks" /\ locals # <<>> /\ records < MaxRecords
      /\ locals[Len(locals)].id = PN_BLOCKID_GLOBALVAR
      /\ IF Growable(alloc[Temp], p) THEN AllocateRecord(p, moves) ELSE Fatal

LeaveBlock ==
  /\ reading = "blocks" /\ locals # <<>>
  /\ alloc' = [alloc EXCEPT ![Temp] = locals[Len(locals)].mark]
  /\ locals' = Front(locals)
  /\ content' = [content EXCEPT !.locals = Front(@)]
  /\ mem' = [mem EXCEPT ![Temp] = Kept(@, locals[Len(locals)].mark)]
  /\ UNCHANGED <<map, block_id, reading, appended, defined, records>>

Next ==
  \/ \E b \in BlockIds : SetBid(b)
  \/ \E num_ops \in 1..MaxOps, moves \in BOOLEAN :
       DefineAbbrev(num_ops, moves) \/ DefineLocalAbbrev(num_ops, moves)
  \/ EndBlockInfo
  \/ \E moves \in BOOLEAN : AppendInstruction(moves) \/ Relocation(moves)
  \/ \E b \in BlockIds : \E moves \in SUBSET (1..map[b].num_abbrevs) : EnterBlock(b, moves)
  \/ LeaveBlock
  \/ reading \in {"fatal", "fatal in a block"} /\ UNCHANGED vars

Spec == Init /\ [][Next]_vars

-----------------------------------------------------------------------------
(* Properties.                                                                      *)

Reads(a, list) == [i \in 1..list.num_abbrevs |-> Read(mem[a], list, i)]

\* Whatever was added to any list since, in place or with a move to a new chunk, every
\* abbreviation of every list reads back as it was defined.
OpsIntact ==
  /\ \A b \in BlockIds : Reads(Perm, map[b]) = content.map[b]
  /\ \A d \in 1..Len(locals) : Reads(Temp, locals[d].list) = content.locals[d]

\* The allocator is asked to grow another allocation than its last only when the
\* blockinfo block comes back to a block id, or defines before the first SETBID, and when
\* a block defines an abbreviation after a record of its own that allocated, or the other
\* way round.  What a nested block allocates, and a move to a new chunk, are in nobody's
\* way.
RefusedOnlyWhenOvertaken ==
  /\ reading = "fatal" =>
       \/ block_id = NULL
       \/ /\ content.map[block_id] # <<>>
          /\ appended[Len(appended)] # block_id
  /\ reading = "fatal in a block" =>
       LET top == locals[Len(locals)]
       IN  \/ top.list # NoList /\ top.latest = "record"
           \/ top.reloc_infos # NULL /\ top.latest = "abbrevs"
=============================================================================
