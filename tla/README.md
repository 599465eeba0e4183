# pnacl.c in TLA+

A verification project for the `pnacl.c` interpreter: TLA+ modules translated
from the C source, TLC configurations that check them on small instances, and
TLAPS proofs of what matters most for every instance.  Paths below are relative
to the repository root.

## The system

`pnacl.c` reads a PNaCl executable (LLVM bitcode), turns every function into a
stream of runtime instructions and interprets it.  One host thread does
everything; what is concurrent is the guest program, whose threads the
interpreter schedules.

| Component | Source | State | Operations | Correct when |
|---|---|---|---|---|
| threads and scheduler | `pn_executor.h`, `pn_builtins.h` | ring of `PNThread`, dead list, `exiting` | `pn_executor_run_step`, `thread_create`, `thread_exit`, `exit`, return of a first frame | the ring is one cycle of the executing threads, the dead list the rest; nobody starves; exit is final |
| futexes | `pn_builtins.h` | `futex_state`, `wait_addr`, timeout | `futex_wait_abs`, `futex_wake`, the scheduler's timeouts | they do what the quoted text of `irt.h` says |
| arena allocator | `pn_allocator.h` | chunk list, `last_alloc`, counters | alloc, realloc_add, mark, reset_to_mark, reset | live blocks are disjoint and stay in chunks; a reset restores the state of the mark |
| call frames, setjmp | `pn_executor.h` | frames and jump buffers in the thread's arena | call, return, setjmp, longjmp | frames are never freed while on the stack; longjmp lands in the frame of its setjmp |
| guest heap and stack | `pn_builtins.h`, `pn_executor.h` | `mapped_pages`, `heap_end`, stack tops | mmap, munmap, alloca, stacksave, stackrestore | no page is handed out twice; heap and stack do not meet |
| phi assignments | `pn_calculate_uses.h`, `pn_calculate_phi_assigns.h`, `pn_executor.h` | lists per block, `fast_phi_assign` | calculation, branches | the phis of a block are evaluated at once |
| values and instructions | `pn_executor.h` | registers, memory | arithmetic, casts, comparisons, atomics, loads, stores | results as LLVM defines them |
| bitstream, abbreviations, records | `pn_bitstream.h`, `pn_abbrev.h`, `pn_record.h` | bit cursor, abbreviation scopes | read, seek, align, next operand | every bit is read once, in order |
| module reader | `pn_read.h`, `pn_module.h`, `pn_function.h` | the module being built | block by block, record by record | definitions and forward references are consistent |
| liveness, slots, loops, predecessors | `pn_calculate_*.h` | per-function tables | one pass per function | they agree with their graph definitions |
| opcodes, result types | `pn_calculate_opcodes.h`, `pn_calculate_result_value_types.h` | instruction stream | one pass per function | the stream decodes to the instruction |
| memory, start info | `pn_memory.h` | guest memory layout | loads, stores, layout of argv/envp/auxv | regions do not overlap |
| file system | `pn_filesystem.h` | `fd_map` | open, close, read, write, seek, stat | guest descriptors map to open host descriptors |
| PPAPI | `pn_ppapi.h` | event queue, IDLE/EVENT_LOOP threads | events, interface queries | events run one at a time, in order |
| tracing, command line, timers | `pn_trace.h`, `pnacl.c`, `pn_timespec.h` | none that the program reads back | output | not modelled |

How they interact: `pn_executor_run_step` executes instructions of the current
thread; a call of a builtin runs a function of `pn_builtins.h`, which changes the
ring, a futex or the heap directly and may block the thread; calls, returns,
setjmp and branches with phis allocate in the thread's arena; the analyses and
the reader allocate in the module's arenas.  There are no locks: a builtin runs
to its end, and threads interleave at instruction boundaries only, when a quantum
is used up or the thread stops running.

What is hard in this code is in `PROJECT.json` under `hazards`: the linked lists
under creation, death and reuse; futex_wait executed a second time to return; a
timeout racing a wake; exit in the middle of a quantum; starvation; arenas whose
memory is given up by resets; jump buffers in such an arena; parallel assignment
done in sequence; a bit cursor that reads past its buffer; abbreviations that
move in memory; forward references; a second load into used structures; two
descriptor tables that have to stay in step; unions of which one field is written;
a stream laid out by three routines that must agree on every size.

## Modules

Definitions keep the names of the C source.  `PROJECT.json` maps each to its
lines.  A definition whose comment starts with "Slip" is a plausible mistake, kept
beside the definition it is a wrong version of: each shows that a property can
fail.

### Reading a file

**`Bits`**: words as the sets of their one bits.

**`Bitstream`**: `pn_bitstream.h`.  A stream is the buffer, the word in hand, how
many of its bits are left and where the next word comes from; the actions are the
reads of fixed and variable-width fields, align, seek and skip.  The last word of
a buffer is loaded whole, with the bytes behind the buffer: those are arbitrary
here, so using one would show.  Reading past the end is fatal.

**`BitCursor`**: the abstract specification of it, a position in a sequence of
bits.  `Bitstream` is proved to implement it, for bytes, words and buffers of any
size (`BitstreamProofs`).

**`Records`**: `pn_record.h`.  A record is any list of numbers written with or
without an abbreviation of literals, scalars, an array, char6 or a blob; the
actions are the calls readers make (`read_uint16` to `read_int64`, decoded signs,
`num_values_left`, `finish`).  The stream is a sequence of
fields, which is what `Bitstream` is proved to deliver.  The length of a blob is a
field of pieces of `LengthBits` bits of which the code reads the first (`FirstPiece`);
the others are skipped by the alignment when they are in the same word, and are a
field of their own (`Rest`) when they are not.

**`Abbrevs`**: `pn_abbrev.h` and the blockinfo block.  Memory is explicit: a list
of abbreviations keeps headers and operands in one allocation, an added header
moves the operands, a grown allocation may move as a whole, and pointers are
mended.  The map of the blockinfo block is in the module's allocator; the other blocks, a
function block with constants and symbols nested in it, keep their lists in a temporary one,
whose marks give them back.  Instructions and relocations come from that allocator too
(`AppendInstruction`, `Relocation`), and one that has been allocated since is in the way of
a list that wants to grow.  The cases, incoming values and arguments of an instruction grow
behind it while its record is read, and are one allocation with it.  The module block's own
list, in whose block nothing else allocates from there, is left out.

**`MCDecoder`** runs the three layers.  It extends `Bitstream`, so that its run checks
the properties the proofs state, and has a second instance of it with 1-bit bytes, whose
fields may be longer than a double word.  The second is an instance of `Bitstream` and not
of `BitstreamProofs`: TLC evaluates `WordBits` once for a module that is both extended and
instantiated through the proofs, and would use the wrong width in one of them.

**`Loader`**: `pn_module_read` from record to record (types, functions, global
variables, relocations, symbol names, bodies), `--repeat-load`, and the layout of
the guest's memory: global data, `argv`, `envp`, the auxiliary vector, PPAPI's
tables, and the function to start.  A byte of memory is a token for what was
written there last, so that a byte written twice or not at all shows.

**`MCReader`** extends `MCDecoder` by the loader, as one more layer.

**`FunctionReader`**: `pn_function_block_read`.  The body is written as it is
read: each step is one record of any content, with absolute or relative ids,
including signed phi operands modulo the word, forward type references, switches
with ranges, and the end of the block.  `meant` is what the writer meant.

### The passes over a function

**`ResultTypes`**: the rounds of `pn_calculate_result_value_types.h`.

**`Loops`**: `pn_calculate_pred_bbs.h` and the loop-finding walk of
`pn_calculate_loops.h`, on every small graph, against dominators and natural loops
as textbooks define them.  The walk, recursive in the code, is a recursive function of
what is known so far, the block, its place on the path and the successor it is at.

**`PhiAssigns`**: every well-formed function of the given size; the calculation of
the lists, then one branch.  A register initially holds its own name, so that a
wrong copy shows.

**`Liveness`**: `pn_calculate_uses.h` and `pn_calculate_liveness.h`: uses per
block, ranges of blocks, and the heap of free slots, changed in place.

**`Opcodes`**: the tables from operations and types to opcodes, and the field of
the union each of them reads and writes.  **`InstructionStream`**: the two passes
of `pn_calculate_opcodes.h` over one layout, and the interpreter's walk, which adds
up the sizes a third time.

**`MCPasses`** runs `FunctionReader`, `ResultTypes`, `Loops`, `PhiAssigns`,
`Liveness` and `InstructionStream`.

### Running

**`Scheduler`** (with `MCScheduler`): the ring (`next`, `prev`), the dead list,
thread and futex states, the current thread and where `pn_executor_run_step`
stands (`pc`: in the quantum, in the scheduling loop, stopped).  A guest thread is
an arbitrary program: at its turn it executes any instruction.  One action is one
instruction or one turn of the scheduling loop, so a wake, a timeout or a new
thread can fall between any two of them.  `call` is the guest's side of the one
constraint there is on its program counter: a `futex_wait` that has blocked is
executed again, because `PN_OPCODE_CALL` did not advance `thread->inst`.  Guest
memory is the few words used as futexes, counters and flags.  `clock` is
`gettimeofday`, external.  The build without PPAPI is modelled.

**`IrtFutex`**: the abstract specification of the futexes, from the text of `irt.h`
quoted in `pn_builtins.h`: threads, waits, wakes and a clock, with no ring and no
schedule.  `Scheduler` maps its state to it (a thread is in a wait from the step that
blocks it to the step in which the re-executed call returns): every step of the
interpreter is a step of it.  `MCScheduler` adds the symmetry of threads and words.

**`EventLoop`**: the build with PPAPI: the event queue and its free list, the event
thread that replaces the start thread in the ring, interface queries, and DidCreate
put back behind them.

**`Allocator`**: chunks as a sequence, `current` and `end` as addresses.
`pn_malloc` places a chunk anywhere it fits, so later chunks may be below earlier
ones.  `objects` and `held` are the clients: the blocks they hold and the marks
they have taken, nested as call frames and analyses nest them.  Blocks may be empty.
`astray` records that a reset has missed the chunk of its mark (see the deviations); the model
ends there, since what the clients hold has been freed.

**`CallStack`**: frames and `PNJmpBuf`s as the blocks of one thread's arena, in chunks
(`chunk_starts`: any allocation may begin one), and `longjmp`'s two nested loops as walks
over it.  Taking for a `PNJmpBuf` a block that has been given up, or reading one whose
chunk was freed, is undefined behaviour: the status `"undefined"` is one of its outcomes.
A longjmp resets the arena before it reads the copy of the frame; the copy is intact as
long as its chunk is, and when the chunk was freed both outcomes are possible
(`LongjmpFound`, `LongjmpFreed`).  The guest uses longjmp as C allows: while the function
that called setjmp has not returned.

**`HeapStack`**: `mapped_pages`, `heap_end` and the stack tops of the main
thread's frames, in bytes; `owners` counts how many mappings of a page the guest
holds.  `stackrestore` gets a value that the same function saved.  Stack tops are
unsigned words: an alloca of more than lies below the top wraps (`wrapped`).

**`Values`**: one instruction at a time, on every combination of operands: integer
arithmetic, casts, comparisons, select, bit counts, loads, stores and
atomics, on a union of which a constructor writes one field (`set` says how many
bits were written).  Floats are a few ordered numbers and NaN.

**`FileSystem`**: `pn_filesystem.h` between the guest's descriptor table and that
of a host (external) which gives out its lowest free descriptor and may fail any
call.  A close that fails has closed the descriptor or not, as the host likes (Linux has,
for some errors); the code keeps the mapping.  `unsure` are the guest's descriptors in
that state, and `misused` records that the guest has used one.
**`FdTable`** is the abstract specification: one table of open files with
positions, in which a descriptor is unspecified after a close of it that failed, and a
guest that still uses it gives up what it expects.  `FileSystem` is proved to implement it.

**`MCRuntime`** runs `Allocator`, `CallStack`, `HeapStack`, `FileSystem`, `Values`
and `EventLoop`; the first by the name of its proof module, which extends it, so that
`RuntimeProofs` can use the theorems.  `MCDecoder`, `MCReader`, `MCPasses`
and `MCRuntime` put parts that share no state side by side: the initial state chooses
one part, and the others rest.  Only the interleavings of a part with itself are of
interest; the parts meet through the values they hand on, which are the initial
states of the next part.

### Proofs

`SchedulerProofs`, `AllocatorProofs` and `BitstreamProofs` are about one component each.
`RuntimeProofs` (call frames, guest memory, files, events, and the composition `MCRuntime`),
`PassesProofs` and `StreamProofs` (`MCPasses`) and `DecoderProofs` (abbreviations, and the
composition `MCDecoder`) extend the module of a run, or one that it extends, so that their theorems are about the
very definitions the run checks.  `CommonLemmas` has what several of them need.

## Runs

| Run | Instance | What it shows |
|---|---|---|
| `reader` | bytes of 1 and 2 bits, words of 2 bytes, buffers up to 4 and 8 bytes; records with one scalar, two array elements, blobs of up to 4 bytes with lengths in pieces of 2 bits; 3 abbreviations of up to 2 operands and a record that allocates, in a function, a globalvar and a symtab block; modules of one or two functions, up to two variables with one or two initializers, two loads, memory of 8 and 40 bytes | any sequence of reads and seeks is a cursor over the bits; records read back as written, and the reader loses its place only past a blob, behind a blob's length that is cut or goes on in another word, and past an empty array; abbreviations read back as defined, and are refused only when overtaken; globals with relocations in every direction are as the file says, bodies go to their functions, a second load gives the same, the guest finds its start info |
| `passes` | see the header of `MCPasses` | references are read as meant; blocks partition the values; types, predecessors, loops, phis, ranges fit their definitions; the interpreter runs the function that was read |
| `runtime` | see `MCRuntime.cfg` | arenas, frames, heap and stack, descriptors, instructions and events are sound |
| `scheduler` | 3 threads, 2 words, quantum 2, nwake 1 and 2, one deadline and none | ring, dead list, deaths, wakeups and exit hold; `Scheduler` implements `IrtFutex` |
| `scheduler_live` | 3 threads, 1 word, quantum 2, fair | no starvation, timed waits end, woken waits return |
| `phi_two` | two successors with phis | finding 1 |
| `setjmp_freed` | 5 blocks, 3 setjmps | finding 2 |
| `values_fcmp` | all fourteen predicates that have opcodes | finding 3 |
| `reload_start` | the modules of `reader` | finding 4 |
| `liveness_slots` | 2 blocks, 3 values | finding 5 |
| `event_stack` | a stack of two levels | finding 6 |
| `setjmp_twice` | 5 blocks, 3 setjmps | finding 7 |

The bounds.  Three threads are the fewest with a waker and two waiters, so that
`nwake` and the order of the walk matter, and with a thread that is neither of two
ring neighbours; with two words a wait on another futex is possible.  A quantum of
2 has an instruction before and after a switch.  Arenas: memory of four chunk
places holds three chunks and a freed hole between them; blocks of 0 and 6 bytes end
with their chunk or leave it.  Five blocks of a call
stack's arena hold two nested frames with setjmps in each, in any chunks.  Four heap pages of
two bytes hold three mappings with holes that fit and that do not.  In words of 16 an alloca of
13 wraps, from a low top into the memory of 10 and from a high one above it.
Three guest descriptors and four of the
host leave each table to be the first that is full, and one failing close at a time
(`MaxUnsure`) has its number taken by the next open.  A blob of four bytes is the shortest whose
length does not fit a piece of two bits, as 64 and six are.  Three abbreviations and a
record suffice for a list, a record and a list again, in one block and nested.  Bytes of 2 bits and words of 8
have carries, signs and truncations as 8 and 32 have, and all operands can be
enumerated.  A bit buffer of four 2-bit bytes
ends with each possible number of bytes in its last word; one of eight 1-bit bytes
has a variable-width field longer than a double word.  Three blocks and four values
contain swaps and shifts in loops and two nested loops with one latch; graphs of
five blocks have irreducible loops beside and inside reducible ones.  Ids of four bits wrap within a
function.  Counts in the stream are on both sides of zero and below the 8- and
16-bit limits, which are scaled to 3.
Deadlock is checked in every run: the states in which the program is over have a
stuttering step of their own.

Fairness.  `FairSpec` asks for weak fairness of `RunStep` (the host runs
`pn_executor_run`'s loop) and of `Tick` (time passes).  Nothing is assumed of the
guest.  The three liveness properties are under `CreationEnds`: `thread_create`
puts the new thread directly behind its creator, so threads that for ever create
a successor and exit keep the scan from the rest of the ring; TLC shows that
behaviour when the condition is left out.

## Findings

Seven places where the code does not do what it says; each is a run that
TLC violates, with the lines quoted in `PROJECT.json`.

1. `pn_function_calculate_phi_assigns` examines only the assignments for the first
   successor that occurs in a list; a conflict in those for another is missed.
2. A setjmp buffer lies behind its frame's mark: the first call that returns into
   the function gives it up while it stays on the list that longjmp searches.
3. ONE, ORD, UNO and UEQ on a NaN give the opposite of the table in the comment.
4. `pn_module_reset` sets the known functions to 0 and not to invalid: after a
   repeated load a module without `_start` runs its function 0.
5. Popping the heap of free slots loses a slot and gives another one out twice.
6. The first PPAPI events run from the end of the stack, over the frames of the
   start thread, which has not left `ppapi_start`.
7. `pn_executor.h:1051`: a longjmp restores a copy of the frame from before its buffer
   was on the list, so that a second one to the same setjmp is fatal.

The passing runs leave 1 and 3 out by their constants (one successor with phis,
`UsedFcmps`).  The others happen in them; the properties state what holds beside them, as
that a longjmp which is found lands right, and is refused only when its frame was returned
or jumped to since.

Deviations met on the way that have no run of their own, with what reproduces them.  Where a
configuration is named, TLC finds its invariant violated; the passing runs contain these
cases too, and what they break is stated up to that moment (`astray`, `wrapped`) or on that
condition (`LengthCut`), but for the atomics, which `UsedStores` and `UsedRmws` leave out.

- `pn_executor.h:1049`: longjmp resets the arena and then reads the buffer that the reset
  has given up; a buffer in a later chunk than its frame has been freed
  (`MCCallStackReset.cfg`, `CopyOutlivesReset`).
- `pn_executor.h:292`: an alloca of more than lies below the stack top wraps and passes the
  check against the heap, with its `PN_FATAL("Out of stack\n")`
  (`MCHeapStackWraps.cfg`, `OutOfStackIsFatal`).
- `pn_allocator.h:150`: a mark whose last block was empty and ended with its chunk is not
  found, and the reset ("Free chunks until last_alloc is found") frees every chunk.  The
  values of a function without any, behind which `pn_thread_push_function` takes its mark,
  are such a block (`MCAllocatorEmpty.cfg`, `EveryMarkRestores`).
- `pn_executor.h:1099`: an atomic store writes 32 bits whatever its type; the results of 64
  bit read-modify-writes are cut, lines 927, 1009 (`MCValuesAtomics.cfg`, `MemoryExact`).
- `pn_record.h:104`: the length of a blob ("First read is the number of elements") is
  written as a vbr6 number and read as six plain bits.  Below 32 they are the number; from 32
  to 63 it comes out right when the second piece is in the same word and skipped by the
  alignment; from 64 on it is cut (`MCRecordsBlob.cfg`, `BlobCounted`).
- `pn_filesystem.h:93`: a failing close keeps the mapping; on a host that has closed
  nevertheless the number is the next open's too, and the guest has two descriptors of one
  (`FileSystem`, `MapsApart` without its conditions).
- `pn_executor.h:732`, `747`, `762`, `777`: ctlz and cttz of 0 are 0 whatever
  `is_zero_undef` says, where LLVM defines the width when it is false; `ArithmeticExact`
  states the 0 of the code.
- `pn_record.h:111`: the reader takes a blob to be one byte longer than it is, and its 64
  bit half (line 152) accepts an empty array (`LostOnlyPastTheTail`).
- `pn_memory.h:160`: the comment puts envp at word 3 + argc, where the NULL of argv is; the
  code, and `StartinfoReads`, have it at 4 + argc.
- `pn_filesystem.h:364`: stat looks at the host's files whatever the option says
  (`FileSystem` with `AccessSettings` `{FALSE}`, `PathsNeedAccess`).
- `pn_calculate_opcodes.h:780`, `809`: more than 255 arguments or 65535 phi
  assignments are cut (`InstructionStream` with counts above `MaxU8`, `MaxU16`).
- `pn_calculate_liveness.h`: a value is followed back from the first use that is
  met and from no other, and the phi operands behind a constant one are not looked
  at; `RangesLive` therefore states exactness for a value with one use.

Known and not modelled: the arena of a dead thread is leaked when its struct is used
again (`pn_builtins.h:573`), mmap and munmap lengths near 2^32 wrap and one of 0 is an
empty mapping (`pn_builtins.h:354`; lengths are small and not 0 here), the stacks of threads other than the main one are not checked
by alloca (`pn_builtins.h:390`).

## Proofs

Every theorem is for every value of the constants that its assumptions allow; no bound
of a run is among those.  The shape is
the same everywhere: an inductive invariant (`Inv` or `IInv`) that contains the
properties and what they need, one lemma for `Init`, one for each action or each kind
of effect, and theorems that combine them.  In all of them the stated properties are
not inductive alone.

**`SchedulerProofs`**: `TypeCorrect`, `ListsCorrect` (`ListsLinked`), `RingCorrect`
(`RingWhole`), `DeathCorrect`, `WakeupsCorrect`, `ExitCorrect`, and `FutexCorrect`:
`Scheduler` implements `IrtFutex`.  Assumptions: the set of threads is finite and
contains the start thread; `NULL` is not a thread, a deadline, a call or an answer;
operands are natural numbers; the quantum is positive.
The types need the lists (the current thread's `next` is a thread, not NULL).  That
the ring is one cycle is not a first-order statement about links; it is stated over
sets (no proper part of the ring is closed under `next`), which an insertion or removal
preserves by mapping a closed set after the step to one before it.  The list lemmas
need `OnlyCurrentThreadDies` to know that the thread being unlinked is in the ring and
not alone there (the start thread is), and that lemma needs the lists to know that the
next thread is in the ring.
The refinement adds that a blocked thread waits until the deadline of its own call
(`CallsKept`).  Its hard step is `futex_wake`: the code walks the ring from the caller
on and stops after `nwake` hits, the specification wakes any set of waiters of the
right size.  The walk comes to every thread of the ring once (`WalkApart`,
`WalkCovers`, from `RingWhole`), so that the threads it has woken are as many as its
hits, and are all waiters when it ends early.

**`AllocatorProofs`**: blocks are disjoint and in their chunks, the last allocation is
on top of the last chunk, `total_used` is the sum of what is held, and a reset brings
back the state of its mark.  A reset makes an old state the present one, so everything
the invariant says of the arena has to hold of every mark that is held too: `Sound` is
a predicate of a mark and its blocks, and `IInv` states it of the mark that could be
taken now and of each held one, with `Continues`: the present chunks are those of the
mark, used further at the end only.  `MarksRestore` and the rest hold of marks that can be
found (`Findable`), and until a reset has used one that cannot (`astray`).  Assumption:
`SizesAssumption`; a block may have any size, 0 included.

**`RuntimeProofs`, call frames**: frames are in allocated memory, and a longjmp that finds its
buffer lands in the frame of its setjmp; it is not refused unless that frame was returned or
jumped to since.  The invariant describes the arena as the
stack: frames in order, each with its mark behind itself and the buffers of its setjmps
between it and the next; it says which lists are still whole (`CleanOK`) and which
setjmps still have their buffers (`PendingOK`), for a list that finding 2 has left
dangling must be told from one that has not.  A longjmp that reads a freed chunk ends the
model or gets the copy; nothing is assumed of where chunks begin.  `longjmp`'s walks are recursive functions;
what they find is proved by induction on where they stand.

**`RuntimeProofs`, guest memory**: no page is handed out twice, mapped pages are below `heap_end`,
heap and stack do not meet, frames are nested.  The strengthening is `SavedAbove`: a
saved stack top is at or above the present one of its frame, so that `stackrestore`
and returns only give memory back, and the check against the current top that mmap
makes covers all others.  That, and what it gives, holds until an alloca has wrapped; the
pages need no such condition.  Assumptions: `LayoutAssumption` and `OperandsAssumption`
(page-aligned layout; lengths of mappings that are not 0 and do not wrap; any alloca).

**`RuntimeProofs`, files**: guest descriptors lead to host descriptors of their own, none
is lost but to a full table, without access only the standard streams are touched,
and `FileSystem` implements `FdTable`.  A lost descriptor has to stay out of the guest's
reach (`LeakedApart`), or a close could close it.  A descriptor whose close has failed
(`unsure`) may lead to a host descriptor that is another's by now: the invariant leaves it
out, and holds as long as the guest does not use it (`misused`).  Nothing is assumed of what
a failing close has done.

**`RuntimeProofs`, events**: every event is in one place, DidCreate is called once, and the ring
is whole without the start thread.  The invariant (`EventsInv`) is a list of the phases the loop
goes through, each with what the guest was asked so far and how the links of the queue and of
the free list run; that there are no others, and never more than two events, is the theorem.
`ChainOfTwo` relates the links to the sets the properties speak of.  The ring (`RingInv`) is
separate, since the other thread comes and goes in every phase.

**`BitstreamProofs`**: `WordCorrect` (`WordIsNext`) and `CursorImplemented`, by which
every read, seek and variable-width field is what `BitCursor` says, including where it
must stop.  The invariant adds to `WordIsNext` what `read` relies on when it takes all
of `curword` for the low part of its result: there are no one bits above those that
count, unless the word ends with the buffer, and then a read that would take them is
refused.  The loop over the pieces of a field is a recursive function over the rounds;
`LoopUnrolled` equates it with repeating a round, and induction shows what k rounds have
read.

**`RuntimeProofs`, the composition**: `ArenaSafe`, `MarksRestore`, `CallsSafe`, `GuestMemorySafe`,
`FilesSafe`, `StandardOnly`, `ImplementsFdTable`, `EventsSound` and `CreatedOnce`, as the
`runtime` run checks them, are theorems of `RuntimeSpec` for every value of its constants within
`RuntimeAssumption`, which TLC evaluates.  A behaviour of the composition is one of
each part (the parts that do not move stutter), and the theorems of the parts apply.

**`PassesProofs`**: four properties of the `passes` run, for functions of any size.
`ReadAsMeant` and `BlocksPartition` have the invariant `RInv`: an instruction that was read
is the one that was meant, the values defined so far are cut into the ranges of the closed
blocks and the one that is open, and `prev_bb_id`, `cur_bb_id` and `first_bb_value_id` say
which.  Signed relative ids go through modular arithmetic (`Word` is any modulus above the
number of values), and phi operands through the recursive function that drops duplicates.
`TypesResolved` has `TypesInv`: the list `invalid` has exactly the values without a type that
were passed; as long as it is as long as at the start of the round, none of those the round has
passed can be typed, which is why the pass may give up at the end of such a round; and what
has a type lies in every set that is closed under the rule, so that it is determined.
`PhisAreParallel` has `PhiInv`:
the assignments of a block are those of its successors' phis, each destination once, and
`fast` only where no assignment reads what an earlier one has written; then doing them in
order is doing them at once, by induction over the list.  `MaxPhiSuccessors` is 1 in
`MCPasses`: with two the statement is false (finding 1).

**`StreamProofs`**: `StreamSound`, `RunsTheFunction` and `TypeOK`.  The layout (`LaidOut`) is
three computations of one sum: the pass that counts, the pass that writes and the interpreter
that adds up sizes as it goes.  Sums over instructions are recursive functions; the lemmas
split and shift them, and relate the offset of an instruction to its block's start.  `RunInv`
says that `inst` and `at` name the same instruction: `at` in the function, `inst` in the
stream, after any branch, phi assignment or fall to the next instruction.
Assumption: the counts of arguments, cases and assignments fit their fields
(`CountsFit`); without it the statement is false (`pn_calculate_opcodes.h:780`, `809`).

**`DecoderProofs`**: `AbbrevsIntact`, for any block ids, operands and records, and the theorems of
`BitstreamProofs` for the composition.  The property speaks of what is read through headers;
the invariant says where lists lie.  `ListOK`: from `abbrevs` to an end there are the headers,
then the operands of each directly behind those of the one before, each header pointing to its
own.  `MapOK`: the block id that got the last abbreviation owns the last allocation, and the
lists of all others end before it, so that growing or moving the one leaves the others alone;
the first half of `RefusedOnlyWhenOvertaken` is part of it.  `LocalsOK`: each list of a nested
block, and the relocations of a globalvar block, lie between its own mark and the mark of the
next one, so that a return to a mark gives up exactly what the blocks that were left had; and
the last allocation is the list of the innermost block unless a record came later, which is the
second half.  That `pn_abbrevs_allocate` keeps `ListOK` is one lemma about
memory, which adding, copying and defining share.

Induction over natural numbers is done through sets (`NatSet` and the lemmas on
repeated steps in `CommonLemmas`): the set of the numbers with the property contains 0
and is closed under successor.  The library's induction theorems have an operator
parameter, which the installed provers cannot instantiate.

Model-checked only:

- liveness (under fairness, which the prover does not handle);
- `InstructionsExact` and `RuntimeTypeOK` as a whole: 2^w arithmetic on every operand
  is a matter of computation, which TLC does exhaustively at small widths;
- `LoopsFound`: what the depth-first walk computes is recursion over graphs, and its
  correctness (every header woven into the list at its place) rests on the walk's own order,
  which no first-order invariant of a step carries: the pass is one step of the model;
- `RangesLive`: the heap of free slots, changed in place, is known to be wrong (finding 5),
  and what holds of ranges holds under conditions on the uses;
- `ValuesAsWritten` (`Records`): what is read is compared with a flattened encoding, a fold
  over nested sequences, with numbers modulo powers of two;
- `FieldsRead`: the statement of `CursorImplemented` at other widths, checked for the fields
  that overflow a double word;
- `Loader`: its files are a fixed finite set, all of which the run loads.

## Not modelled

- Tracing and printing (`pn_trace.h`), a fifth of the code: formatting, with no effect
  on the program.
- The command line, timers and statistics (`pnacl.c`, `pn_timespec.h`), except for
  the repeated loads and the memory size.
- IRT queries by name and the builtins and PPB functions that only stop the program
  or return a constant.
- Floating-point arithmetic and conversions: they are the host's.  `pn_popcount`.
- The checks of the file header, and blocks the reader skips.
- The composition of `Scheduler` with the arenas and stacks of several threads.

## Plan

1. Proofs: `Records` (`ValuesAsWritten`); the types of `Values`, which with the component
   theorems give `RuntimeTypeOK`; the ranges of `Liveness` for values with one use.
2. `Loader` with files of any content instead of a set of them.
3. `Scheduler` composed with `Allocator` for the arenas of reused threads.
