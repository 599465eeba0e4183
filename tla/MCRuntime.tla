----------------------------- MODULE MCRuntime -----------------------------
(***************************************************************************)
(* The parts of the running interpreter side by side: the initial state    *)
(* chooses one of them, and the others rest in an initial state of theirs. *)
(*   "arena"   Allocator: the chunks, marks and objects of one arena       *)
(*   "calls"   CallStack: the frames and setjmp buffers of a thread        *)
(*   "guest"   HeapStack: the mappings, the break and the stack of a guest *)
(*   "files"   FileSystem: the descriptors of the guest and of the host    *)
(*   "values"  Values: every instruction on every operand                  *)
(*   "events"  EventLoop                                                   *)
(* The first is an instance of the module of its proofs, which extends it, *)
(* so that RuntimeProofs can use the theorems.                             *)
(***************************************************************************)
EXTENDS Values

CONSTANTS
  HeaderSize, MinChunkSize, Sizes, AddSizes, Aligns, Bases, MemoryEnd,  \* Allocator
  MaxMarks, MaxObjects,
  MaxBlocks, MaxJmpBufs,                                                \* CallStack
  Word, PageSize, HeapStart, GuestSize, MapSizes, AllocaSizes,          \* HeapStack
  Alignments, MaxFrames, MaxSaved,
  Files, MaxOffset, AccessSettings, MaxFds, MaxHostFds, MaxUnsure,      \* FileSystem
  MaxEvents                                                             \* EventLoop

VARIABLES
  part,
  chunks, last_alloc, total_used, internal_fragmentation, objects, held, astray,
  arena, chunk_starts, current_frame, next_jmpbuf_id, pending, spoiled, status,
  mapped_pages, heap_end, frames, owners, wrapped, fatal,
  access, fd_map, host, answer, looked_up, leaked, unsure, misused, alive,
  next, prev, thread, state, running, top, ppapi, interfaces, asked, created

arenaVars == <<chunks, last_alloc, total_used, internal_fragmentation, objects, held,
               astray>>
callVars  == <<arena, chunk_starts, current_frame, next_jmpbuf_id, pending, spoiled, status>>
guestVars == <<mapped_pages, heap_end, frames, owners, wrapped, fatal>>
fileVars  == <<access, fd_map, host, answer, looked_up, leaked, unsure, misused, alive>>
valueVars == vars
eventVars == <<next, prev, thread, state, running, top, ppapi, interfaces, asked, created>>
allVars   == <<part, arenaVars, callVars, guestVars, fileVars, valueVars, eventVars>>

Arena == INSTANCE AllocatorProofs

Calls == INSTANCE CallStack

Guest == INSTANCE HeapStack WITH MemorySize <- GuestSize

Disk == INSTANCE FileSystem WITH asked <- looked_up, running <- alive

Loop == INSTANCE EventLoop WITH StackEnd <- 2, StartTop <- 1

ASSUME RuntimeAssumption ==
  /\ Arena!SizesAssumption /\ Arena!BoundsAssumption
  /\ Calls!BoundsAssumption
  /\ Guest!LayoutAssumption /\ Guest!OperandsAssumption
  /\ Disk!FdsAssumption
  /\ WidthsAssumption
  /\ Loop!LoopAssumption

EventsRest ==
  /\ next = [t \in Loop!Threads |-> IF t = "start" THEN "start" ELSE "none"] /\ prev = next
  /\ Loop!Init

\* Which part moves; the parts with several initial states take them when they do.
RuntimeInit ==
  /\ part \in {"arena", "calls", "guest", "files", "values", "events"}
  /\ Arena!Init /\ Calls!Init /\ Guest!Init /\ Init
  /\ part # "files" => access = TRUE
  /\ Disk!Init
  /\ IF part = "events" THEN Loop!Init ELSE EventsRest

RuntimeNext ==
  \/ part = "arena" /\ Arena!Next
     /\ UNCHANGED <<part, callVars, guestVars, fileVars, valueVars, eventVars>>
  \/ part = "calls" /\ Calls!Next
     /\ UNCHANGED <<part, arenaVars, guestVars, fileVars, valueVars, eventVars>>
  \/ part = "guest" /\ Guest!Next
     /\ UNCHANGED <<part, arenaVars, callVars, fileVars, valueVars, eventVars>>
  \/ part = "files" /\ Disk!Next
     /\ UNCHANGED <<part, arenaVars, callVars, guestVars, valueVars, eventVars>>
  \/ part = "values" /\ Next
     /\ UNCHANGED <<part, arenaVars, callVars, guestVars, fileVars, eventVars>>
  \/ part = "events" /\ Loop!Next
     /\ UNCHANGED <<part, arenaVars, callVars, guestVars, fileVars, valueVars>>

RuntimeSpec == RuntimeInit /\ [][RuntimeNext]_allVars

-----------------------------------------------------------------------------
(* The properties of the parts, as their modules state them.               *)

RuntimeTypeOK == Arena!TypeOK /\ Calls!TypeOK /\ Guest!TypeOK /\ Disk!TypeOK /\ TypeOK

\* pn_allocator.h: the objects clients hold stay apart and in their chunks, of which
\* none uses more than it has; only the block that is last grows in place, and total_used
\* is what the clients hold, after any marks and resets that find the chunk of the mark.
ArenaSafe ==
  Arena!ObjectsSafe /\ Arena!ChunksInBounds /\ Arena!LastAllocOnTop /\ Arena!UsedIsHeld

\* pn_allocator_reset_to_mark brings back the arena as it was at the mark, unless an empty
\* block at the end of a chunk was the last one then.
MarksRestore == Arena!MarksRestore

\* Every frame of the call stack is in memory that is still allocated, and a longjmp
\* that finds its buffer lands in the frame that called setjmp.
CallsSafe == Calls!FramesAllocated /\ Calls!LongjmpLandsRight

\* mmap never hands out a page that the guest still holds and looks wherever one is
\* mapped; until an alloca is of more than lies below the stack top, heap and stack never
\* overlap, nor do the stacks of a function and its callers.
GuestMemorySafe ==
  Guest!PagesHeldOnce /\ Guest!MappedBelowEnd /\ Guest!HeapBelowStack /\ Guest!FramesNested

\* The guest's descriptors map to host descriptors of their own, and open leaks one of
\* the host's only when the guest's table is full, as long as the guest leaves alone a
\* descriptor whose close has failed.
FilesSafe == Disk!MapsApart /\ Disk!LostOnlyWhenFull

\* Without access to the file system only the standard descriptors change.
StandardOnly == Disk!StandardOnly

\* pn_filesystem.h implements a table of descriptors as a guest expects it.
ImplementsFdTable == Disk!ImplementsFdTable

\* Every instruction leaves no bit that nothing wrote and touches exactly the bytes of its
\* type, and computes what LLVM, or the table of floating-point predicates, defines of it;
\* the zeros counted in 0 are 0.  UsedFcmps, UsedStores and UsedRmws say of which
\* instructions.
InstructionsExact == ResultsWellFormed /\ ArithmeticExact /\ FcmpAsTable /\ MemoryExact

\* Every event is queued, free or being handled, and the event thread has taken the
\* place of the start thread in the ring.
EventsSound == Loop!EventsApart /\ Loop!RingWithoutStart

\* DidCreate is called once, and the event thread rests only after that.
CreatedOnce == Loop!CreatedOnce
=============================================================================
