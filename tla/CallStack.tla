----------------------------- MODULE CallStack -----------------------------
(***************************************************************************)
(* The call frames and setjmp buffers of one guest thread (pn_executor.h). *)
(* Both live in the thread's arena, thread->allocator: a call allocates a  *)
(* frame and marks the arena behind it; a return resets the arena to the   *)
(* mark of the frame returned to, which gives up the callee's frame and    *)
(* whatever was allocated behind it.  setjmp allocates a PNJmpBuf that     *)
(* holds a copy of the frame and puts it on the frame's list; longjmp      *)
(* searches the lists of all the frames of the stack for an id.            *)
(*                                                                         *)
(* The address of a block is its position in the arena (a frame with its   *)
(* values is one block); 0 is NULL, and the sentinel frame.  A block that  *)
(* does not fit begins a new chunk, and a reset frees the chunks that were *)
(* begun since the mark.  Reading a chunk that was freed is undefined, and *)
(* so is using as a PNJmpBuf a block that was given up and perhaps         *)
(* allocated again: both end in the status "undefined".                    *)
(*                                                                         *)
(* The guest calls longjmp as C allows: with the id of a setjmp whose      *)
(* calling function has not returned (pending).                            *)
(***************************************************************************)
EXTENDS Integers, Sequences

CONSTANTS
  MaxBlocks,  \* bound on the blocks in the arena
  MaxJmpBufs  \* bound on next_jmpbuf_id

BoundsAssumption == MaxBlocks \in Nat \ {0} /\ MaxJmpBufs \in Nat

VARIABLES
  arena,          \* the blocks of thread->allocator
  chunk_starts,   \* the blocks that began a new chunk
  current_frame,  \* thread->current_frame
  next_jmpbuf_id, \* executor->next_jmpbuf_id
  pending,        \* the setjmps of the functions that are executing: [id, frame]
  spoiled,        \* the frames with setjmps that were then returned or jumped to
  status          \* "running", "dead", "fatal" (PN_FATAL), "undefined"

vars == <<arena, chunk_starts, current_frame, next_jmpbuf_id, pending, spoiled, status>>

NULL == 0

Address == 0..MaxBlocks
Frame   == [parent : Address, mark : Address, jmpbuf_head : Address]
Block   == [kind : {"frame"}, frame : Frame]
             \cup [kind : {"jmpbuf"}, id : Nat, frame : Frame, next : Address]

\* A frame called from parent.
NewFrame(parent, mark) ==
  [kind |-> "frame",
   frame |-> [parent |-> parent, mark |-> mark, jmpbuf_head |-> NULL]]

\* pn_allocator_reset_to_mark
ResetTo(mark)  == SubSeq(arena, 1, mark)
ChunksTo(mark) == {b \in chunk_starts : b <= mark}

\* A thread starts in the frame of its start function.
Init ==
  /\ arena = <<NewFrame(NULL, 1)>>
  /\ chunk_starts = {1}
  /\ current_frame = 1
  /\ next_jmpbuf_id = 0
  /\ pending = {}
  /\ spoiled = {}
  /\ status = "running"

\* The thread executes an instruction; an allocation stays within the bound.  Sizes are
\* left out, so that any of them may need a new chunk.
Running  == status = "running"
Allocate ==
  /\ Running /\ Len(arena) < MaxBlocks
  /\ chunk_starts' \in {chunk_starts, chunk_starts \cup {Len(arena) + 1}}

\* PN_OPCODE_CALL of a guest function, pn_thread_push_function
PushFunction ==
  /\ Allocate
  /\ arena' = Append(arena, NewFrame(current_frame, Len(arena) + 1))
  /\ current_frame' = Len(arena) + 1
  /\ UNCHANGED <<next_jmpbuf_id, pending, spoiled, status>>

\* PN_OPCODE_RET, PN_OPCODE_RET_VALUE: the arena is reset to the caller's mark; the
\* return of a thread's first frame ends the thread.
Return ==
  LET caller == arena[current_frame].frame.parent IN
  /\ Running
  /\ current_frame' = caller
  /\ IF caller # NULL
     THEN /\ arena' = ResetTo(arena[caller].frame.mark)
          /\ chunk_starts' = ChunksTo(arena[caller].frame.mark)
          /\ UNCHANGED status
     ELSE status' = "dead" /\ UNCHANGED <<arena, chunk_starts>>
  /\ pending' = {s \in pending : s.frame # current_frame}
  /\ spoiled' = (spoiled \ {current_frame})
                  \cup {s.frame : s \in {s \in pending : s.frame = caller}}
  /\ UNCHANGED next_jmpbuf_id

\* The buffer that setjmp allocates: it copies the frame before it is on its list.
NewJmpBuf ==
  [kind |-> "jmpbuf", id |-> next_jmpbuf_id, frame |-> arena[current_frame].frame,
   next |-> arena[current_frame].frame.jmpbuf_head]

\* Slip: the id is the number of the buffers of the frame so far.
SetjmpIdPerFrame ==
  LET buf == Len(arena) + 1
      id  == IF NewJmpBuf.next = NULL THEN 0 ELSE 1
  IN
  /\ Allocate
  /\ next_jmpbuf_id < MaxJmpBufs
  /\ arena' = Append([arena EXCEPT ![current_frame].frame.jmpbuf_head = buf],
                     [NewJmpBuf EXCEPT !.id = id])
  /\ next_jmpbuf_id' = next_jmpbuf_id + 1
  /\ pending' = pending \cup {[id |-> id, frame |-> current_frame]}
  /\ UNCHANGED <<current_frame, spoiled, status>>

\* PN_OPCODE_INTRINSIC_LLVM_NACL_SETJMP
Setjmp ==
  LET buf == Len(arena) + 1 IN
  /\ Allocate
  /\ next_jmpbuf_id < MaxJmpBufs
  /\ arena' = Append([arena EXCEPT ![current_frame].frame.jmpbuf_head = buf], NewJmpBuf)
  /\ next_jmpbuf_id' = next_jmpbuf_id + 1
  /\ pending' = pending \cup {[id |-> next_jmpbuf_id, frame |-> current_frame]}
  /\ UNCHANGED <<current_frame, spoiled, status>>

-----------------------------------------------------------------------------
(* PN_OPCODE_INTRINSIC_LLVM_NACL_LONGJMP                                    *)

\* The values of f in the outer loop: from the current frame to the sentinel.
FrameWalk ==
  LET f[k \in Address] ==
        IF k = 0 THEN current_frame
        ELSE IF f[k - 1] = NULL THEN NULL ELSE arena[f[k - 1]].frame.parent
  IN  f

\* The frames of the call stack.
Stack == {FrameWalk[k] : k \in Address} \ {NULL}

\* buf points to a buffer that is still allocated.
IsJmpBuf(buf) == buf \in DOMAIN arena /\ arena[buf].kind = "jmpbuf"

\* The values of buf in the inner loop, as far as they point to buffers.
BufWalk(frame) ==
  LET b[j \in Address] ==
        IF j = 0 THEN arena[frame].frame.jmpbuf_head
        ELSE IF IsJmpBuf(b[j - 1]) THEN arena[b[j - 1]].next ELSE b[j - 1]
  IN  b

\* The inner loop passes over the first j buffers of the list of the frame.
Passes(frame, id, j) ==
  \A i \in 0..(j - 1) : LET buf == BufWalk(frame)[i]
                        IN  IsJmpBuf(buf) /\ arena[buf].id # id

\* The inner loop reaches the end of the list without finding the id.
NotIn(frame, id) ==
  \E j \in Address : Passes(frame, id, j) /\ BufWalk(frame)[j] = NULL

\* The outer loop comes to the k-th frame.
Reaches(id, k) == \A i \in 0..(k - 1) : FrameWalk[i] # NULL /\ NotIn(FrameWalk[i], id)

\* Where the search ends: frame f and buffer buf at "Found it", if any.
Search(id) ==
  {s \in [f : Stack, buf : DOMAIN arena] :
     /\ \E k \in Address : FrameWalk[k] = s.f /\ Reaches(id, k)
     /\ \E j \in Address : BufWalk(s.f)[j] = s.buf /\ Passes(s.f, id, j)
     /\ IsJmpBuf(s.buf) /\ arena[s.buf].id = id}

\* The search comes to the sentinel frame.
SearchFails(id) == \E k \in Address : Reaches(id, k) /\ FrameWalk[k] = NULL

\* The reset to the mark of f frees the chunk that buf is in.
BufferFreed(s) == \E b \in chunk_starts : arena[s.f].frame.mark < b /\ b <= s.buf

\* "Found it": the arena is reset to the mark of f, which gives up buf, and then f becomes
\* what is read there: the copy, which nothing has overwritten yet.
LongjmpFound(id) ==
  /\ Running
  /\ \E s \in Search(id) :
       /\ current_frame' = s.f
       /\ chunk_starts' = ChunksTo(arena[s.f].frame.mark)
       /\ arena' = [ResetTo(arena[s.f].frame.mark) EXCEPT ![s.f].frame = arena[s.buf].frame]
       /\ pending' = {p \in pending : p.frame <= s.f}
       /\ spoiled' = {f \in spoiled : f < s.f} \cup {s.f}
  /\ UNCHANGED <<next_jmpbuf_id, status>>

\* "Found it", with buf in a chunk that the reset has freed: reading buf->frame may as well
\* crash or give something else.
LongjmpFreed(id) ==
  /\ Running
  /\ \E s \in Search(id) : BufferFreed(s)
  /\ status' = "undefined"
  /\ UNCHANGED <<arena, chunk_starts, current_frame, next_jmpbuf_id, pending, spoiled>>

\* PN_FATAL("Invalid jmpbuf target")
LongjmpFatal(id) ==
  /\ Running
  /\ SearchFails(id)
  /\ status' = "fatal"
  /\ UNCHANGED <<arena, chunk_starts, current_frame, next_jmpbuf_id, pending, spoiled>>

\* The search reads what is no longer a PNJmpBuf, or goes round a list for ever.
LongjmpUndefined(id) ==
  /\ Running
  /\ Search(id) = {} /\ ~SearchFails(id)
  /\ status' = "undefined"
  /\ UNCHANGED <<arena, chunk_starts, current_frame, next_jmpbuf_id, pending, spoiled>>

Stopped == ~Running /\ UNCHANGED vars

Next ==
  \/ PushFunction \/ Return \/ Setjmp
  \/ \E s \in pending : LongjmpFound(s.id)
  \/ \E s \in pending : LongjmpFreed(s.id)
  \/ \E s \in pending : LongjmpFatal(s.id)
  \/ \E s \in pending : LongjmpUndefined(s.id)
  \/ Stopped

Spec == Init /\ [][Next]_vars

-----------------------------------------------------------------------------
(* Properties.                                                              *)

TypeOK ==
  /\ arena \in Seq(Block) /\ Len(arena) <= MaxBlocks
  /\ chunk_starts \subseteq Address
  /\ current_frame \in Address
  /\ next_jmpbuf_id \in 0..MaxJmpBufs
  /\ pending \subseteq [id : Nat, frame : Address]
  /\ spoiled \subseteq Address
  /\ status \in {"running", "dead", "fatal", "undefined"}

\* The stack is in allocated memory: whatever is called, returned from and jumped out
\* of, every frame of it is a frame still in the arena, above its caller, and a reset
\* to a mark that a frame of the stack holds gives up only the frames it called.
FramesAllocated ==
  Running =>
    /\ current_frame # NULL
    /\ \A f \in Stack :
         /\ f \in DOMAIN arena /\ arena[f].kind = "frame"
         /\ arena[f].frame.parent < f
         /\ arena[f].frame.mark \in f..Len(arena)
         /\ \A g \in Stack : g > f => arena[f].frame.mark < g

\* A longjmp that is found lands in the frame that called setjmp, with its own caller
\* in the copy, past any number of frames with setjmps of their own; it is found as long
\* as no frame of the stack was returned or jumped to after its setjmp; and it is never
\* "Invalid jmpbuf target" unless its own frame was.
LongjmpLandsRight ==
  Running =>
    \A s \in pending :
      /\ \A found \in Search(s.id) :
           /\ found.f = s.frame
           /\ arena[found.buf].frame.parent = arena[s.frame].frame.parent
      /\ spoiled \cap Stack = {} => Search(s.id) # {}
      /\ s.frame \notin spoiled => ~SearchFails(s.id)

\* "Search the call stack for the matching jmpbuf id": what the search walks over, the
\* lists of the frames of the stack, is memory that is still allocated to buffers.
JmpBufsAllocated ==
  Running =>
    \A f \in Stack : LET head == arena[f].frame.jmpbuf_head
                     IN  head # NULL => IsJmpBuf(head)

\* "Reset the frame to its original state": the copy that the frame is reset to is in
\* memory of the arena when it is read, behind the reset that gives it up.
CopyOutlivesReset ==
  Running => \A s \in pending : \A found \in Search(s.id) : ~BufferFreed(found)

\* "Reset the frame to its original state": the frame that called setjmp is as setjmp
\* left it, so that a setjmp that is pending can still be found by the next longjmp.
\* "Invalid jmpbuf target" is for those whose function has returned.
PendingSetjmpsFound == Running => \A s \in pending : ~SearchFails(s.id)
=============================================================================
