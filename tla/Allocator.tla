----------------------------- MODULE Allocator -----------------------------
(***************************************************************************)
(* The arena allocator of pn_allocator.h.  An allocator is a list of       *)
(* chunks; memory is taken from the chunk at the head by moving current    *)
(* up, and given back only by resetting the whole allocator to a mark.     *)
(* Module data, the call frames of a thread, setjmp buffers and the        *)
(* temporaries of the analyses all live in such arenas.                    *)
(*                                                                         *)
(* Addresses are natural numbers, 0 is NULL.  pn_malloc is external: it    *)
(* returns any aligned block that overlaps no chunk still in use.          *)
(*                                                                         *)
(* The clients are modelled by what they may do: objects are the blocks    *)
(* they hold, held the marks they have taken and not yet dropped (the      *)
(* frames of a call stack, the temporaries of a nested analysis).  A block *)
(* may be empty (the values of a function that has none); when it is at    *)
(* the very end of its chunk, the reset to a mark taken then does not find *)
(* the chunk and frees it with what the clients hold there.  The model     *)
(* stops after that.                                                       *)
(***************************************************************************)
EXTENDS Integers, Sequences, FiniteSets, FiniteSetsExt

CONSTANTS
  HeaderSize,    \* sizeof(PNAllocatorChunk)
  MinChunkSize,  \* allocator->min_chunk_size
  Sizes,         \* sizes passed to pn_allocator_alloc
  AddSizes,      \* sizes passed to pn_allocator_realloc_add
  Aligns,        \* alignments
  Bases,         \* where pn_malloc may place a chunk
  MemoryEnd,     \* the end of the memory pn_malloc hands out
  MaxMarks,      \* bound on the marks held at a time
  MaxObjects     \* bound on the objects held at a time

SizesAssumption ==
  /\ HeaderSize \in Nat \ {0} /\ MinChunkSize \in Nat /\ MinChunkSize > HeaderSize
  /\ Sizes \subseteq Nat /\ AddSizes \subseteq Nat \ {0} /\ Aligns \subseteq Nat \ {0}
  /\ Bases \subseteq Nat \ {0} /\ MemoryEnd \in Nat
BoundsAssumption == MaxMarks \in Nat /\ MaxObjects \in Nat

VARIABLES
  chunks,                 \* the chunk list, chunk_head last
  last_alloc,
  total_used,
  internal_fragmentation,
  objects,                \* blocks the clients hold: [ptr, size, depth]
  held,                   \* marks they hold, each with the chunks at that moment
  astray                  \* history: a reset has missed the chunk of its mark

accounts == <<total_used, internal_fragmentation>>
vars     == <<chunks, last_alloc, accounts, objects, held, astray>>

NULL == 0

\* pn_allocator_init
Init ==
  /\ chunks = <<>>
  /\ last_alloc = NULL
  /\ total_used = 0
  /\ internal_fragmentation = 0
  /\ objects = {}
  /\ held = <<>>
  /\ astray = FALSE

-----------------------------------------------------------------------------

\* pn_align_up_pointer
AlignUp(p, align) == ((p + align - 1) \div align) * align

\* pn_next_power_of_two
NextPowerOfTwo(value) == Min({ret \in {2^k : k \in 0..value} : ret >= value})

head_chunk == chunks[Len(chunks)]

\* pn_malloc: the places where a block of chunk_size bytes fits.
Malloc(chunk_size) ==
  {b \in Bases : /\ b + chunk_size <= MemoryEnd
                 /\ \A i \in DOMAIN chunks :
                      b + chunk_size <= chunks[i].base \/ chunks[i].end <= b}

\* pn_allocator_new_chunk: the size of the chunk for a first allocation.
ChunkSize(size, align) ==
  NextPowerOfTwo(Max({size + HeaderSize + align - 1, MinChunkSize}))

\* pn_allocator_new_chunk: what is left of the head chunk is given up.
Fragmentation ==
  internal_fragmentation +
    IF chunks = <<>> THEN 0 ELSE head_chunk.end - head_chunk.current

\* pn_allocator_new_chunk: the chunk, placed at base.
NewChunk(base, size, align) ==
  [base |-> base, current |-> AlignUp(base + HeaderSize, align),
   end |-> base + ChunkSize(size, align)]

\* Slip: the room is measured before the pointer is aligned.
FitsUnaligned(size, align) ==
  chunks # <<>> /\ head_chunk.current + size <= head_chunk.end

\* The allocation fits in the chunk at the head.
Fits(size, align) ==
  chunks # <<>> /\ AlignUp(head_chunk.current, align) + size <= head_chunk.end

\* A client holds a new block.
Hold(ptr, size) ==
  objects' = objects \cup {[ptr |-> ptr, size |-> size, depth |-> Len(held)]}

\* pn_allocator_alloc in the chunk at the head
AllocInHead(size, align) ==
  LET ret == AlignUp(head_chunk.current, align) IN
  /\ Fits(size, align)
  /\ Cardinality(objects) < MaxObjects
  /\ chunks' = [chunks EXCEPT ![Len(chunks)].current = ret + size]
  /\ last_alloc' = ret
  /\ total_used' = total_used + size
  /\ Hold(ret, size)
  /\ UNCHANGED <<internal_fragmentation, held, astray>>

\* pn_allocator_alloc in a new chunk
AllocInNewChunk(size, align) ==
  /\ ~Fits(size, align)
  /\ Cardinality(objects) < MaxObjects
  /\ \E base \in Malloc(ChunkSize(size, align)) :
       LET chunk == NewChunk(base, size, align)
           ret   == AlignUp(chunk.current, align)
       IN  /\ chunks' = Append(chunks, [chunk EXCEPT !.current = ret + size])
           /\ last_alloc' = ret
           /\ Hold(ret, size)
  /\ total_used' = total_used + size
  /\ internal_fragmentation' = Fragmentation
  /\ UNCHANGED <<held, astray>>

\* The object a client may grow with pn_allocator_realloc_add: anything but the
\* last allocation is a fatal error, and the clients grow an object only while no
\* mark taken after it is held.  It is not empty: a list without elements is NULL.
Growable == {o \in objects : o.ptr = last_alloc /\ o.size # 0 /\ o.depth = Len(held)}

\* The object and the counters after o has grown by add_size and is at ptr.
Grow(o, ptr, add_size) ==
  /\ objects' = (objects \ {o}) \cup {[o EXCEPT !.ptr = ptr, !.size = @ + add_size]}
  /\ last_alloc' = ptr
  /\ total_used' = total_used + add_size
  /\ UNCHANGED <<held, astray>>

\* pn_allocator_realloc_add: grow the last allocation in place
ReallocInPlace(o, add_size) ==
  /\ o \in Growable
  /\ head_chunk.current + add_size <= head_chunk.end
  /\ chunks' = [chunks EXCEPT ![Len(chunks)].current = @ + add_size]
  /\ Grow(o, o.ptr, add_size)
  /\ UNCHANGED internal_fragmentation

\* pn_allocator_realloc_add: copy it to a new chunk
ReallocMove(o, add_size, align) ==
  LET new_size == (head_chunk.current - o.ptr) + add_size IN
  /\ o \in Growable
  /\ head_chunk.current + add_size > head_chunk.end
  /\ \E base \in Malloc(ChunkSize(new_size, align)) :
       LET chunk == NewChunk(base, new_size, align) IN
       /\ chunks' = Append(chunks, [chunk EXCEPT !.current = @ + new_size])
       /\ Grow(o, chunk.current, add_size)
  /\ internal_fragmentation' = Fragmentation

\* pn_allocator_mark
TakeMark ==
  /\ Len(held) < MaxMarks
  /\ held' = Append(held,
       [current                |-> IF chunks = <<>> THEN NULL ELSE head_chunk.current,
        last_alloc             |-> last_alloc,
        total_used             |-> total_used,
        internal_fragmentation |-> internal_fragmentation,
        chunks                 |-> chunks])
  /\ UNCHANGED <<chunks, last_alloc, accounts, objects, astray>>

\* Slip: current is left where it is.
ChunksAtMarkAsTheyAre(mark) ==
  LET found == {i \in DOMAIN chunks : /\ chunks[i].base <= mark.last_alloc
                                      /\ mark.last_alloc < chunks[i].end}
  IN  IF found = {} THEN <<>> ELSE SubSeq(chunks, 1, Max(found))

\* pn_allocator_reset_to_mark: the loop that frees chunks from the head until one
\* holds the last allocation of the mark; its current is then that of the mark.
ChunksAtMark(mark) ==
  LET found == {i \in DOMAIN chunks : /\ chunks[i].base <= mark.last_alloc
                                      /\ mark.last_alloc < chunks[i].end}
  IN  IF found = {} THEN <<>>
      ELSE [SubSeq(chunks, 1, Max(found)) EXCEPT ![Max(found)].current = mark.current]

\* The last allocation of a mark is before the end of the chunk it was taken in, as any
\* block is that is not empty.
Findable(mark) ==
  mark.chunks # <<>> => mark.last_alloc < mark.chunks[Len(mark.chunks)].end

\* pn_allocator_reset_to_mark with the i-th mark that is held.  Everything allocated
\* since then is given up with the later marks; the mark itself is kept, as a call
\* frame keeps its mark for the next call, or dropped (keep = i - 1).
ResetToMark(i, keep) ==
  /\ chunks' = ChunksAtMark(held[i])
  /\ last_alloc' = held[i].last_alloc
  /\ total_used' = held[i].total_used
  /\ internal_fragmentation' = held[i].internal_fragmentation
  /\ objects' = {o \in objects : o.depth < i}
  /\ held' = SubSeq(held, 1, keep)
  /\ astray' = ~Findable(held[i])

\* pn_allocator_reset: reset to the mark pn_allocator_init took.
Reset ==
  /\ chunks' = <<>>
  /\ last_alloc' = NULL
  /\ total_used' = 0
  /\ internal_fragmentation' = 0
  /\ objects' = {}
  /\ held' = <<>>
  /\ UNCHANGED astray

Operate ==
  \/ \E size \in Sizes, align \in Aligns : AllocInHead(size, align)
  \/ \E size \in Sizes, align \in Aligns : AllocInNewChunk(size, align)
  \/ \E o \in objects, add_size \in AddSizes : ReallocInPlace(o, add_size)
  \/ \E o \in objects, add_size \in AddSizes, align \in Aligns :
       ReallocMove(o, add_size, align)
  \/ TakeMark
  \/ \E i \in DOMAIN held : ResetToMark(i, i) \/ ResetToMark(i, i - 1)
  \/ Reset

Ended == astray /\ UNCHANGED vars

Next == (~astray /\ Operate) \/ Ended

Spec == Init /\ [][Next]_vars

-----------------------------------------------------------------------------
(* Properties.                                                              *)

Chunk == [base : Nat, current : Nat, end : Nat]
Mark  == [current : Nat, last_alloc : Nat, total_used : Nat,
          internal_fragmentation : Nat, chunks : Seq(Chunk)]

TypeOK ==
  /\ chunks \in Seq(Chunk)
  /\ last_alloc \in Nat
  /\ total_used \in Nat
  /\ internal_fragmentation \in Nat
  /\ objects \subseteq [ptr : Nat, size : Nat, depth : Nat]
  /\ held \in Seq(Mark)
  /\ astray \in BOOLEAN

\* The bytes of an object lie in the part of a chunk that has been handed out.
InChunk(o, c) == c.base + HeaderSize <= o.ptr /\ o.ptr + o.size <= c.current

\* Every block a client still holds is inside a chunk that has not been freed, and no
\* two of them overlap, whatever is allocated, grown, moved and reset in between, until
\* a reset has missed the chunk of its mark.
ObjectsSafe ==
  ~astray =>
    /\ \A o \in objects : \E i \in DOMAIN chunks : InChunk(o, chunks[i])
    /\ \A o, p \in objects :
         o # p => o.ptr + o.size <= p.ptr \/ p.ptr + p.size <= o.ptr

\* The chunks are inside their blocks: new_chunk makes room for the header, the
\* alignment and the allocation (the asserts of alloc and realloc_add).
ChunksInBounds ==
  ~astray => \A i \in DOMAIN chunks : chunks[i].base + HeaderSize <= chunks[i].current
                                      /\ chunks[i].current <= chunks[i].end

\* "Free chunks until last_alloc is found": resetting to any mark that is held, now,
\* gives back exactly the chunks there were when it was taken, unless the last block then
\* was an empty one at the end of its chunk.
MarksRestore ==
  ~astray =>
    \A i \in DOMAIN held : Findable(held[i]) => ChunksAtMark(held[i]) = held[i].chunks

\* "Free chunks until last_alloc is found", of every mark that is held.
EveryMarkRestores == \A i \in DOMAIN held : ChunksAtMark(held[i]) = held[i].chunks

\* last_alloc is the object at the top of the head chunk, so that growing it in place
\* overwrites nothing and pn_allocator_last_alloc_size is its size.
LastAllocOnTop ==
  ~astray /\ chunks # <<>> =>
    \E o \in objects : /\ o.ptr = last_alloc
                       /\ head_chunk.current - last_alloc = o.size

\* total_used is what the clients hold, across moves and resets (a set has an empty block
\* that is allocated twice at the same place once).
UsedIsHeld == total_used = FoldSet(LAMBDA o, sum : sum + o.size, 0, objects)
=============================================================================
