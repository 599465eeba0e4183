----------------------------- MODULE HeapStack -----------------------------
(***************************************************************************)
(* The heap and the main thread's stack in guest memory (pn_builtins.h,    *)
(* pn_executor.h).  The heap grows up, page by page, from heap_start to    *)
(* executor->heap_end; a bitset says which of its pages are mapped, and    *)
(* mmap takes the first run of free pages that is long enough before it    *)
(* moves heap_end.  The stack grows down from stack_end: alloca lowers     *)
(* memory_stack_top of the current frame, a called function starts at its  *)
(* caller's.  Each checks that it does not run into the other.             *)
(*                                                                         *)
(* A stack top is a uint32_t: alloca of more than lies below it wraps, and *)
(* the top is then high up again, where the comparison with heap_end finds *)
(* nothing wrong.  The lengths of mmap and munmap are so small that no sum *)
(* with an address in memory wraps.  Other threads' stacks are in memory   *)
(* the guest has mapped, and are not checked by the code.                  *)
(***************************************************************************)
EXTENDS Integers, Sequences, FiniteSets, FiniteSetsExt

CONSTANTS
  Word,         \* 2^32
  PageSize,     \* PN_PAGESIZE
  HeapStart,    \* memory->heap_start
  MemorySize,   \* memory->size, also memory->stack_end
  MapSizes,     \* the len operands of mmap and munmap
  AllocaSizes,  \* the size operands of alloca
  Alignments,   \* its alignments
  MaxFrames,    \* bound on the depth of the main thread's stack
  MaxSaved      \* bound on the saved values of a frame

LayoutAssumption ==
  /\ PageSize \in Nat \ {0} /\ HeapStart \in Nat /\ MemorySize \in Nat
  /\ HeapStart % PageSize = 0 /\ MemorySize % PageSize = 0 /\ HeapStart <= MemorySize
  /\ Word \in Nat /\ MemorySize < Word
\* A len is not 0, and its pages can be added to any address in memory; a size is any.
OperandsAssumption ==
  /\ MapSizes \subseteq 1..(Word - MemorySize - PageSize) /\ AllocaSizes \subseteq 0..(Word - 1)
  /\ Alignments \subseteq 1..PageSize /\ MaxFrames \in Nat \ {0} /\ MaxSaved \in Nat

VARIABLES
  mapped_pages,  \* executor->mapped_pages: the pages whose bit is set
  heap_end,      \* executor->heap_end
  frames,        \* the main thread's frames: memory_stack_top and saved values
  owners,        \* how many mappings the guest holds of each page
  wrapped,       \* history: whether an alloca was of more than lies below the stack top
  fatal          \* PN_FATAL has ended the process

vars == <<mapped_pages, heap_end, frames, owners, wrapped, fatal>>

AlignDown(n, align) == (n \div align) * align
AlignUp(n, align)   == AlignDown(n + align - 1, align)

Pages      == 0..((MemorySize \div PageSize) - 1)
first_page == HeapStart \div PageSize
last_page  == heap_end \div PageSize

\* The pages of a mapping: n pages from page s.
PagesFrom(s, n) == s..(s + n - 1)

current_frame == frames[Len(frames)]

\* pn_executor_init: the pages below the heap are mapped; the stack is empty.
Init ==
  /\ mapped_pages = 0..(first_page - 1)
  /\ heap_end = HeapStart
  /\ frames = <<[memory_stack_top |-> MemorySize, saved |-> {}]>>
  /\ owners = [p \in Pages |-> 0]
  /\ wrapped = FALSE
  /\ fatal = FALSE

-----------------------------------------------------------------------------
(* mmap and munmap.                                                         *)

\* Where the search loop of mmap can find so many consecutive unmapped pages.
FreeRuns(pages) ==
  {s \in first_page..(last_page - pages) :
     PagesFrom(s, pages) \cap mapped_pages = {}}

\* found: the bits are set and the guest has the pages.
Found(s, pages) ==
  /\ mapped_pages' = mapped_pages \cup PagesFrom(s, pages)
  /\ owners' = [p \in Pages |-> owners[p] + IF p \in PagesFrom(s, pages) THEN 1 ELSE 0]

\* pn_builtin_NACL_IRT_MEMORY_MMAP: the first run that is long enough
MmapInHole(len) ==
  LET pages == AlignUp(len, PageSize) \div PageSize IN
  /\ ~fatal
  /\ FreeRuns(pages) # {}
  /\ Found(Min(FreeRuns(pages)), pages)
  /\ UNCHANGED <<heap_end, frames, wrapped, fatal>>

\* pn_memory_check of the pages behind heap_end, and the comparison with the stack of
\* the main thread's current frame
OutOfHeap(len) ==
  \/ heap_end + AlignUp(len, PageSize) > MemorySize
  \/ heap_end + AlignUp(len, PageSize) > current_frame.memory_stack_top

\* pn_builtin_NACL_IRT_MEMORY_MMAP: move heap_end back
MmapAtEnd(len) ==
  LET pages == AlignUp(len, PageSize) \div PageSize IN
  /\ ~fatal
  /\ FreeRuns(pages) = {}
  /\ ~OutOfHeap(len)
  /\ heap_end' = heap_end + AlignUp(len, PageSize)
  /\ Found(last_page, pages)
  /\ UNCHANGED <<frames, wrapped, fatal>>

\* PN_FATAL of pn_memory_check, or "Out of heap"
MmapFatal(len) ==
  LET pages == AlignUp(len, PageSize) \div PageSize IN
  /\ ~fatal
  /\ FreeRuns(pages) = {}
  /\ OutOfHeap(len)
  /\ fatal' = TRUE
  /\ UNCHANGED <<mapped_pages, heap_end, frames, owners, wrapped>>

\* Slip: the length is rounded, not the end of the range.
UnmappedByLength(addr_p, len) ==
  LET begin == addr_p \div PageSize
      end   == begin + (AlignUp(len, PageSize) \div PageSize)
  IN  Max({begin, first_page})..(Min({end, last_page}) - 1)

\* The pages munmap clears: every page that the range touches, inside the heap.
Unmapped(addr_p, len) ==
  LET begin == addr_p \div PageSize
      end   == AlignUp(addr_p + len, PageSize) \div PageSize
  IN  Max({begin, first_page})..(Min({end, last_page}) - 1)

\* The pages of the heap that a byte of the range is on.
Touched(addr_p, len) ==
  {p \in Pages : /\ first_page <= p /\ p < last_page
                 /\ \E b \in addr_p..(addr_p + len - 1) : b \div PageSize = p}

\* pn_builtin_NACL_IRT_MEMORY_MUNMAP: the guest gives up every page it names.
Munmap(addr_p, len) ==
  /\ ~fatal
  /\ mapped_pages' = mapped_pages \ Unmapped(addr_p, len)
  /\ owners' = [p \in Pages |-> IF p \in Touched(addr_p, len) THEN 0 ELSE owners[p]]
  /\ UNCHANGED <<heap_end, frames, wrapped, fatal>>

-----------------------------------------------------------------------------
(* The main thread's stack.                                                 *)

\* memory_stack_top - size as a uint32_t, aligned
Lowered(size, alignment) ==
  LET below == current_frame.memory_stack_top - size
  IN  AlignDown(IF below < 0 THEN below + Word ELSE below, alignment)

\* The current frame's memory_stack_top becomes that.
Lower(size, alignment) ==
  /\ frames' = [frames EXCEPT ![Len(frames)].memory_stack_top = Lowered(size, alignment)]
  /\ wrapped' = (wrapped \/ size > current_frame.memory_stack_top)

\* PN_OPCODE_ALLOCA_INT32
Alloca(size, alignment) ==
  /\ ~fatal
  /\ Lowered(size, alignment) >= heap_end
  /\ Lower(size, alignment)
  /\ UNCHANGED <<mapped_pages, heap_end, owners, fatal>>

\* PN_FATAL("Out of stack")
AllocaFatal(size, alignment) ==
  /\ ~fatal
  /\ Lowered(size, alignment) < heap_end
  /\ fatal' = TRUE
  /\ Lower(size, alignment)
  /\ UNCHANGED <<mapped_pages, heap_end, owners>>

\* PN_OPCODE_INTRINSIC_LLVM_STACKSAVE
Stacksave ==
  /\ ~fatal
  /\ Cardinality(current_frame.saved) < MaxSaved
  /\ frames' = [frames EXCEPT ![Len(frames)].saved = @ \cup {current_frame.memory_stack_top}]
  /\ UNCHANGED <<mapped_pages, heap_end, owners, wrapped, fatal>>

\* PN_OPCODE_INTRINSIC_LLVM_STACKRESTORE: compiled code passes a value that the same
\* function has saved, in a scope that is still open.
Stackrestore(value) ==
  /\ ~fatal
  /\ value \in current_frame.saved
  /\ frames' = [frames EXCEPT ![Len(frames)] =
       [memory_stack_top |-> value, saved |-> {v \in current_frame.saved : v > value}]]
  /\ UNCHANGED <<mapped_pages, heap_end, owners, wrapped, fatal>>

\* pn_thread_push_function
PushFunction ==
  /\ ~fatal
  /\ Len(frames) < MaxFrames
  /\ frames' = Append(frames, [current_frame EXCEPT !.saved = {}])
  /\ UNCHANGED <<mapped_pages, heap_end, owners, wrapped, fatal>>

\* PN_OPCODE_RET, PN_OPCODE_RET_VALUE to a caller
Return ==
  /\ ~fatal
  /\ Len(frames) > 1
  /\ frames' = SubSeq(frames, 1, Len(frames) - 1)
  /\ UNCHANGED <<mapped_pages, heap_end, owners, wrapped, fatal>>

Ended == fatal /\ UNCHANGED vars

Next ==
  \/ \E len \in MapSizes : MmapInHole(len) \/ MmapAtEnd(len) \/ MmapFatal(len)
  \/ \E addr_p \in 0..(MemorySize - 1), len \in MapSizes : Munmap(addr_p, len)
  \/ \E size \in AllocaSizes, alignment \in Alignments :
       Alloca(size, alignment) \/ AllocaFatal(size, alignment)
  \/ Stacksave
  \/ \E value \in current_frame.saved : Stackrestore(value)
  \/ PushFunction \/ Return
  \/ Ended

Spec == Init /\ [][Next]_vars

-----------------------------------------------------------------------------
(* Properties.                                                              *)

Tops == 0..(Word - 1)

TypeOK ==
  /\ mapped_pages \subseteq Pages
  /\ heap_end \in HeapStart..MemorySize /\ heap_end % PageSize = 0
  /\ frames \in Seq([memory_stack_top : Tops, saved : SUBSET Tops]) /\ frames # <<>>
  /\ owners \in [Pages -> Nat]
  /\ wrapped \in BOOLEAN /\ fatal \in BOOLEAN

\* mmap never hands out a page of a mapping that the guest still holds: the bits and
\* what the guest holds agree, through holes, partial unmaps and reuse.
PagesHeldOnce ==
  \A p \in Pages : owners[p] = IF p >= first_page /\ p \in mapped_pages THEN 1 ELSE 0

\* Every page that is mapped is below heap_end, where the next search will find it
\* when it is unmapped.
MappedBelowEnd == \A p \in mapped_pages : p < last_page

\* The heap and the stack never overlap: no frame of the main thread has its stack
\* top below heap_end, so no return can bring back a top that mmap has passed.  (It could
\* once an alloca has wrapped, which lifts the top that mmap compares with.)
HeapBelowStack ==
  ~fatal /\ ~wrapped => \A i \in DOMAIN frames : heap_end <= frames[i].memory_stack_top

\* A function never writes over the stack data of its callers: its stack top is at or
\* below theirs, and restoring a saved top stays below the top it was entered with, unless
\* an alloca has wrapped.
FramesNested ==
  ~wrapped =>
    \A i, j \in DOMAIN frames : i < j =>
      \A top \in frames[j].saved \cup {frames[j].memory_stack_top} :
        top <= frames[i].memory_stack_top

\* "Out of stack": an alloca of more than lies below the stack top ends the process.
OutOfStackIsFatal == wrapped => fatal
=============================================================================
