---------------------------- MODULE RuntimeProofs ----------------------------
(***************************************************************************)
(* The properties of the running interpreter's parts hold whatever the     *)
(* bounds: each behaviour of RuntimeSpec is one of every part, of which    *)
(* all but one rest.  The arena has proofs in a module of its own; those   *)
(* of the calls, of the guest's memory, of its files and of the event loop *)
(* are here.                                                               *)
(* The assumptions made are the ones of RuntimeAssumption.                 *)
(***************************************************************************)
EXTENDS MCRuntime, CommonLemmas

-----------------------------------------------------------------------------
(* CallStack: for arenas of any size, although resetting the arena leaves   *)
(* lists whose buffers have been given up.                                  *)

-----------------------------------------------------------------------------
(* The inductive invariant.  In the arena every frame is followed by the    *)
(* buffers its function still has there; those, the last one first, are the *)
(* beginning of its list.  Behind them the list may point to memory that    *)
(* has been given up, but only to addresses above the frame.                *)

IsFrame(f) == f \in DOMAIN arena /\ arena[f].kind = "frame"

\* The frame that a buffer is a copy of.
Owner(buf) == arena[buf].frame.mark

\* A frame marks the arena just behind itself.
MarksOK ==
  \A f \in DOMAIN arena : IsFrame(f) =>
    /\ arena[f].frame.mark = f
    /\ arena[f].frame.jmpbuf_head = Calls!NULL \/ f < arena[f].frame.jmpbuf_head

\* The frames in the arena are those of the stack, each above its caller.
ChainOK ==
  /\ IsFrame(current_frame)
  /\ \A f \in DOMAIN arena : IsFrame(f) =>
       /\ f <= current_frame /\ arena[f].frame.parent < f
       /\ arena[f].frame.parent = Calls!NULL \/ IsFrame(arena[f].frame.parent)
       /\ \A g \in DOMAIN arena : IsFrame(g) /\ g < f => g <= arena[f].frame.parent

\* The buffers lie behind the frame they belong to, and the last of them is the head of
\* its list.
BuffersOK ==
  \A b \in DOMAIN arena : Calls!IsJmpBuf(b) =>
    /\ IsFrame(Owner(b)) /\ Owner(b) < b
    /\ \A x \in (Owner(b) + 1)..b : Calls!IsJmpBuf(x) /\ Owner(x) = Owner(b)
    /\ arena[b].frame.parent = arena[Owner(b)].frame.parent
    /\ arena[b].frame.jmpbuf_head = arena[b].next
    /\ arena[b].next = Calls!NULL \/ Owner(b) < arena[b].next
    /\ arena[b].id < next_jmpbuf_id
    /\ IF Calls!IsJmpBuf(b + 1) THEN arena[b + 1].next = b
       ELSE arena[Owner(b)].frame.jmpbuf_head = b

\* No two buffers have the same id.
IdsOK ==
  \A b, c \in DOMAIN arena : Calls!IsJmpBuf(b) /\ Calls!IsJmpBuf(c) /\ arena[b].id = arena[c].id => b = c

\* A pending setjmp has its buffer, unless its frame was returned or jumped to since.
PendingOK ==
  \A s \in pending :
    /\ IsFrame(s.frame) /\ s.id < next_jmpbuf_id
    /\ \A b \in DOMAIN arena : Calls!IsJmpBuf(b) /\ arena[b].id = s.id => Owner(b) = s.frame
    /\ s.frame \notin spoiled => \E b \in DOMAIN arena : Calls!IsJmpBuf(b) /\ arena[b].id = s.id

\* The list of a frame that was not returned or jumped to since its first setjmp ends in
\* NULL behind its buffers.
CleanOK ==
  \A f \in DOMAIN arena : IsFrame(f) =>
    /\ (\A s \in pending : s.frame # f) => arena[f].frame.jmpbuf_head = Calls!NULL
    /\ f \notin spoiled =>
         IF Calls!IsJmpBuf(f + 1) THEN arena[f + 1].next = Calls!NULL
         ELSE arena[f].frame.jmpbuf_head = Calls!NULL

CallsInv ==
  /\ Calls!TypeOK
  /\ Calls!Running => MarksOK /\ ChainOK /\ BuffersOK /\ IdsOK /\ PendingOK /\ CleanOK

-----------------------------------------------------------------------------
(* Frames and buffers.                                                      *)

\* The fields of a frame, and of one whose list has a new head.
LEMMA FrameFields ==
  ASSUME NEW fr \in Calls!Frame, NEW x \in Calls!Address
  PROVE  /\ fr.parent \in Calls!Address /\ fr.mark \in Calls!Address /\ fr.jmpbuf_head \in Calls!Address
         /\ [fr EXCEPT !.jmpbuf_head = x] \in Calls!Frame
         /\ [fr EXCEPT !.jmpbuf_head = x].parent = fr.parent
         /\ [fr EXCEPT !.jmpbuf_head = x].mark = fr.mark
         /\ [fr EXCEPT !.jmpbuf_head = x].jmpbuf_head = x
BY DEF Calls!Frame

\* The fields of a block.
LEMMA BlockFields ==
  ASSUME NEW b \in Calls!Block
  PROVE  /\ b.frame \in Calls!Frame /\ b.kind \in {"frame", "jmpbuf"}
         /\ b.kind = "jmpbuf" => b.id \in Nat /\ b.next \in Calls!Address
<1> HIDE DEF Calls!Frame, Calls!Address
<1> QED BY DEF Calls!Block

\* A frame in place of another.
LEMMA BlockUpdate ==
  ASSUME NEW b \in Calls!Block, b.kind = "frame", NEW fr \in Calls!Frame
  PROVE  /\ [b EXCEPT !.frame = fr] \in Calls!Block
         /\ [b EXCEPT !.frame = fr].kind = "frame" /\ [b EXCEPT !.frame = fr].frame = fr
<1> HIDE DEF Calls!Frame, Calls!Address
<1>1. b \in [kind : {"frame"}, frame : Calls!Frame]
  BY DEF Calls!Block
<1>2. [b EXCEPT !.frame = fr] = [kind |-> "frame", frame |-> fr]
  BY <1>1
<1> QED BY <1>2 DEF Calls!Block

\* The types of the blocks of the arena.
LEMMA ArenaTypes ==
  ASSUME Calls!BoundsAssumption, Calls!TypeOK
  PROVE  /\ Len(arena) \in Nat /\ Len(arena) <= MaxBlocks /\ MaxBlocks \in Nat
         /\ DOMAIN arena = 1..Len(arena) /\ DOMAIN arena \subseteq Calls!Address
         /\ \A b \in DOMAIN arena :
              /\ b \in Nat /\ b # 0 /\ arena[b] \in Calls!Block
              /\ arena[b].frame \in Calls!Frame /\ arena[b].kind \in {"frame", "jmpbuf"}
              /\ arena[b].frame.parent \in Nat /\ arena[b].frame.mark \in Nat
              /\ arena[b].frame.parent \in Calls!Address /\ arena[b].frame.mark \in Calls!Address
              /\ arena[b].frame.jmpbuf_head \in Nat /\ arena[b].frame.jmpbuf_head \in Calls!Address
              /\ arena[b].kind = "jmpbuf" =>
                   arena[b].id \in Nat /\ arena[b].next \in Nat /\ arena[b].next \in Calls!Address
<1>1. arena \in Seq(Calls!Block) /\ Len(arena) <= MaxBlocks /\ MaxBlocks \in Nat
  BY DEF Calls!TypeOK, Calls!BoundsAssumption
<1>2. Len(arena) \in Nat /\ DOMAIN arena = 1..Len(arena) /\ \A b \in DOMAIN arena : arena[b] \in Calls!Block
  BY <1>1
<1>3. DOMAIN arena \subseteq Calls!Address /\ \A a \in Calls!Address : a \in Nat
  BY <1>1, <1>2 DEF Calls!Address
<1>4. ASSUME NEW b \in DOMAIN arena
      PROVE  /\ arena[b].frame \in Calls!Frame /\ arena[b].kind \in {"frame", "jmpbuf"}
             /\ arena[b].kind = "jmpbuf" => arena[b].id \in Nat /\ arena[b].next \in Calls!Address
             /\ arena[b].frame.parent \in Calls!Address /\ arena[b].frame.mark \in Calls!Address
             /\ arena[b].frame.jmpbuf_head \in Calls!Address
  <2>1. arena[b] \in Calls!Block
    BY <1>2
  <2>2. /\ arena[b].frame \in Calls!Frame /\ arena[b].kind \in {"frame", "jmpbuf"}
        /\ arena[b].kind = "jmpbuf" => arena[b].id \in Nat /\ arena[b].next \in Calls!Address
    BY <2>1, BlockFields
  <2>3. 0 \in Calls!Address
    BY <1>1 DEF Calls!Address
  <2> QED BY <2>2, <2>3, FrameFields
<1> QED BY <1>1, <1>2, <1>3, <1>4

-----------------------------------------------------------------------------
(* The walks of longjmp.                                                    *)

\* The outer loop goes from a frame to its caller.
LEMMA FrameWalkStep ==
  ASSUME Calls!BoundsAssumption, CallsInv, Calls!Running
  PROVE  /\ Calls!FrameWalk[0] = current_frame
         /\ \A k \in 1..MaxBlocks :
              Calls!FrameWalk[k] = IF Calls!FrameWalk[k - 1] = Calls!NULL THEN Calls!NULL
                                   ELSE arena[Calls!FrameWalk[k - 1]].frame.parent
<1> DEFINE S == {0} \cup {f \in DOMAIN arena : IsFrame(f)}
           g == [a \in S |-> IF a = 0 THEN 0 ELSE arena[a].frame.parent]
           W(f) == f = [k \in Calls!Address |->
                          IF k = 0 THEN current_frame
                          ELSE IF f[k - 1] = Calls!NULL THEN Calls!NULL ELSE arena[f[k - 1]].frame.parent]
<1>1. current_frame \in S /\ g \in [S -> S] /\ MaxBlocks \in Nat
  <2>1. current_frame \in S /\ \A f \in S : f = 0 \/ arena[f].frame.parent \in S
    BY DEF CallsInv, ChainOK, Calls!NULL, IsFrame
  <2> QED BY <2>1 DEF Calls!BoundsAssumption
<1>2. PICK f : Repeats(f, MaxBlocks, g, current_frame) /\ \A k \in 0..MaxBlocks : f[k] \in S
  <2> HIDE DEF S, g
  <2> QED BY <1>1, Repeated
<1>3. W(f)
  <2>1. /\ f = [k \in Calls!Address |-> f[k]] /\ f[0] = current_frame
        /\ \A k \in 1..MaxBlocks : f[k] = g[f[k - 1]]
    BY <1>2 DEF Repeats, Calls!Address
  <2>2. ASSUME NEW k \in Calls!Address, k # 0
        PROVE  f[k] = IF f[k - 1] = Calls!NULL THEN Calls!NULL ELSE arena[f[k - 1]].frame.parent
    <3>1. k \in 1..MaxBlocks /\ k - 1 \in 0..MaxBlocks
      BY <1>1, <2>2 DEF Calls!Address
    <3>2. f[k - 1] \in S /\ f[k] = g[f[k - 1]]
      BY <1>2, <2>1, <3>1
    <3> QED BY <3>2 DEF Calls!NULL
  <2> QED BY <2>1, <2>2
<1>4. W(Calls!FrameWalk)
  <2>1. Calls!FrameWalk = CHOOSE h : W(h)
    BY DEF Calls!FrameWalk
  <2> HIDE DEF W
  <2> QED BY <1>3, <2>1
<1>5. 0 \in Calls!Address /\ \A k \in 1..MaxBlocks : k \in Calls!Address /\ k # 0
  BY <1>1 DEF Calls!Address
<1> QED BY <1>4, <1>5

\* The outer loop comes to every frame of the arena, from the last one down, and then to
\* the sentinel.
LEMMA FrameWalkCovers ==
  ASSUME Calls!BoundsAssumption, CallsInv, Calls!Running
  PROVE  /\ \A k \in Calls!Address : Calls!FrameWalk[k] = Calls!NULL \/ IsFrame(Calls!FrameWalk[k])
         /\ \A k \in Calls!Address : \A g \in DOMAIN arena : IsFrame(g) /\ Calls!FrameWalk[k] < g =>
              \E i \in Calls!Address : i < k /\ Calls!FrameWalk[i] = g
         /\ \A k \in Calls!Address : \A i \in Calls!Address :
              i < k /\ Calls!FrameWalk[i] # Calls!NULL => Calls!FrameWalk[k] < Calls!FrameWalk[i]
         /\ Calls!FrameWalk[MaxBlocks] = Calls!NULL
<1> DEFINE w == Calls!FrameWalk
           Good == {k \in Calls!Address :
              /\ w[k] = Calls!NULL \/ IsFrame(w[k])
              /\ w[k] # Calls!NULL => w[k] + k <= MaxBlocks
              /\ \A g \in DOMAIN arena : IsFrame(g) /\ w[k] < g =>
                   \E i \in Calls!Address : i < k /\ w[i] = g
              /\ \A i \in Calls!Address : i < k =>
                   w[i] \in Nat /\ (w[i] # Calls!NULL => w[k] < w[i])}
<1>1. MaxBlocks \in Nat /\ Calls!Address = 0..MaxBlocks
  BY DEF Calls!BoundsAssumption, Calls!Address
<1>2. Calls!TypeOK /\ ChainOK
  BY DEF CallsInv
<1>3. w[0] = current_frame /\ \A k \in 1..MaxBlocks :
        w[k] = IF w[k - 1] = Calls!NULL THEN Calls!NULL ELSE arena[w[k - 1]].frame.parent
  BY FrameWalkStep
<1>4. \A f \in DOMAIN arena : /\ f \in Nat /\ f # 0 /\ f <= MaxBlocks
                              /\ arena[f].frame.parent \in Nat
  BY <1>2, ArenaTypes
<1> HIDE DEF w
<1>5. 0 \in Good
  BY <1>1, <1>2, <1>3, <1>4 DEF ChainOK, IsFrame
<1>6. ASSUME NEW n \in 0..MaxBlocks, n < MaxBlocks, n \in Good
      PROVE  n + 1 \in Good
  <2>1. n + 1 \in Calls!Address /\ n + 1 \in 1..MaxBlocks /\ (n + 1) - 1 = n /\ n \in Calls!Address
    BY <1>1, <1>6
  <2>2. w[n + 1] = IF w[n] = Calls!NULL THEN Calls!NULL ELSE arena[w[n]].frame.parent
    BY <1>3, <2>1
  <2>3. /\ w[n] = Calls!NULL \/ IsFrame(w[n])
        /\ w[n] # Calls!NULL => w[n] + n <= MaxBlocks
        /\ \A g \in DOMAIN arena : IsFrame(g) /\ w[n] < g =>
             \E i \in Calls!Address : i < n /\ w[i] = g
        /\ \A i \in Calls!Address : i < n => w[i] \in Nat /\ (w[i] # Calls!NULL => w[n] < w[i])
    BY <1>6
  <2>4. \A i \in Calls!Address : i < n + 1 => i < n \/ i = n
    BY <1>1
  <2>5. \A i \in Calls!Address : i < n => i < n + 1
    BY <1>1
  <2>6. CASE w[n] = Calls!NULL
    <3>1. w[n + 1] = Calls!NULL /\ w[n] = w[n + 1]
      BY <2>2, <2>6
    <3>2. Calls!NULL \in Nat
      BY DEF Calls!NULL
    <3> QED BY <2>1, <2>3, <2>4, <2>5, <2>6, <3>1, <3>2
  <2>7. CASE w[n] # Calls!NULL
    <3>1. IsFrame(w[n]) /\ w[n] \in DOMAIN arena /\ w[n + 1] = arena[w[n]].frame.parent
      BY <2>2, <2>3, <2>7 DEF IsFrame
    <3>2. /\ w[n + 1] < w[n]
          /\ w[n + 1] = Calls!NULL \/ IsFrame(w[n + 1])
          /\ \A g \in DOMAIN arena : IsFrame(g) /\ g < w[n] => g <= w[n + 1]
      BY <1>2, <3>1 DEF ChainOK
    <3>3. w[n] \in Nat /\ w[n + 1] \in Nat
      BY <1>4, <3>1
    <3>4. w[n + 1] # Calls!NULL => w[n + 1] + (n + 1) <= MaxBlocks
      BY <1>1, <2>3, <2>7, <3>2, <3>3
    <3>5. ASSUME NEW g \in DOMAIN arena, IsFrame(g), w[n + 1] < g
          PROVE  \E i \in Calls!Address : i < n + 1 /\ w[i] = g
      <4>1. g \in Nat /\ ~(g < w[n])
        BY <1>4, <3>2, <3>3, <3>5
      <4>2. CASE g = w[n]
        <5>1. n < n + 1
          BY <1>1
        <5> QED BY <2>1, <4>2, <5>1
      <4>3. CASE w[n] < g
        BY <2>3, <2>5, <3>5, <4>3
      <4> QED BY <3>3, <4>1, <4>2, <4>3
    <3>6. ASSUME NEW i \in Calls!Address, i < n + 1
          PROVE  w[i] \in Nat /\ (w[i] # Calls!NULL => w[n + 1] < w[i])
      <4>1. CASE i = n
        BY <3>2, <3>3, <4>1
      <4>2. CASE i < n
        <5>1. w[i] \in Nat /\ (w[i] # Calls!NULL => w[n] < w[i])
          BY <2>3, <4>2
        <5> QED BY <3>2, <3>3, <5>1
      <4> QED BY <2>4, <3>6, <4>1, <4>2
    <3> QED BY <2>1, <3>2, <3>4, <3>5, <3>6
  <2> QED BY <2>6, <2>7
<1>7. \A k \in 0..MaxBlocks : k \in Good
  <2> HIDE DEF Good
  <2> QED BY <1>1, <1>5, <1>6, NatSetUpTo
<1>8. w[MaxBlocks] = Calls!NULL
  <2>1. MaxBlocks \in Good
    BY <1>1, <1>7
  <2>2. IsFrame(w[MaxBlocks]) => w[MaxBlocks] \in Nat /\ w[MaxBlocks] # 0
    BY <1>4 DEF IsFrame
  <2> QED BY <1>1, <2>1, <2>2
<1> QED BY <1>1, <1>7, <1>8 DEF w

\* Every frame of the stack is a frame in the arena, and the other way round.
LEMMA StackIsFrames ==
  ASSUME Calls!BoundsAssumption, CallsInv, Calls!Running
  PROVE  Calls!Stack = {f \in DOMAIN arena : IsFrame(f)}
<1>1. \A f \in DOMAIN arena : f \in Nat /\ f # 0
  BY ArenaTypes DEF CallsInv
<1>2. ASSUME NEW f \in Calls!Stack PROVE IsFrame(f)
  BY FrameWalkCovers DEF Calls!Stack
<1>3. ASSUME NEW g \in DOMAIN arena, IsFrame(g) PROVE g \in Calls!Stack
  <2>1. MaxBlocks \in Calls!Address
    BY DEF Calls!Address, Calls!BoundsAssumption
  <2>2. Calls!FrameWalk[MaxBlocks] < g /\ g # Calls!NULL
    BY <1>1, FrameWalkCovers DEF Calls!NULL
  <2> QED BY <1>3, <2>1, <2>2, FrameWalkCovers DEF Calls!Stack
<1> QED BY <1>2, <1>3 DEF IsFrame

\* The inner loop follows next as long as there is a buffer.
LEMMA BufWalkStep ==
  ASSUME Calls!BoundsAssumption, Calls!TypeOK, NEW frame \in DOMAIN arena
  PROVE  /\ Calls!BufWalk(frame)[0] = arena[frame].frame.jmpbuf_head
         /\ \A j \in 1..MaxBlocks :
              Calls!BufWalk(frame)[j] = IF Calls!IsJmpBuf(Calls!BufWalk(frame)[j - 1])
                                        THEN arena[Calls!BufWalk(frame)[j - 1]].next
                                        ELSE Calls!BufWalk(frame)[j - 1]
<1> DEFINE g == [a \in Calls!Address |-> IF Calls!IsJmpBuf(a) THEN arena[a].next ELSE a]
           x == arena[frame].frame.jmpbuf_head
           W(b) == b = [j \in Calls!Address |->
                          IF j = 0 THEN arena[frame].frame.jmpbuf_head
                          ELSE IF Calls!IsJmpBuf(b[j - 1]) THEN arena[b[j - 1]].next ELSE b[j - 1]]
<1>1. x \in Calls!Address /\ g \in [Calls!Address -> Calls!Address] /\ MaxBlocks \in Nat
  <2>1. \A a \in Calls!Address : Calls!IsJmpBuf(a) => arena[a].next \in Calls!Address
    BY ArenaTypes DEF Calls!IsJmpBuf
  <2> QED BY <2>1, ArenaTypes
<1>2. PICK b : Repeats(b, MaxBlocks, g, x) /\ \A j \in 0..MaxBlocks : b[j] \in Calls!Address
  <2> HIDE DEF g, x
  <2> QED BY <1>1, Repeated
<1>3. W(b)
  <2>1. /\ b = [j \in Calls!Address |-> b[j]] /\ b[0] = x
        /\ \A j \in 1..MaxBlocks : b[j] = g[b[j - 1]]
    BY <1>2 DEF Repeats, Calls!Address
  <2>2. ASSUME NEW j \in Calls!Address, j # 0
        PROVE  b[j] = IF Calls!IsJmpBuf(b[j - 1]) THEN arena[b[j - 1]].next ELSE b[j - 1]
    <3>1. j \in 1..MaxBlocks /\ j - 1 \in 0..MaxBlocks
      BY <1>1, <2>2 DEF Calls!Address
    <3>2. b[j - 1] \in Calls!Address /\ b[j] = g[b[j - 1]]
      BY <1>2, <2>1, <3>1
    <3> QED BY <3>2
  <2> QED BY <2>1, <2>2
<1>4. W(Calls!BufWalk(frame))
  <2>1. Calls!BufWalk(frame) = CHOOSE f : W(f)
    BY DEF Calls!BufWalk
  <2> HIDE DEF W
  <2> QED BY <1>3, <2>1
<1>5. 0 \in Calls!Address /\ \A j \in 1..MaxBlocks : j \in Calls!Address /\ j # 0
  BY <1>1 DEF Calls!Address
<1> QED BY <1>4, <1>5

\* Buffers that lie next to each other belong to the same frame.
LEMMA NextSameOwner ==
  ASSUME Calls!BoundsAssumption, CallsInv, Calls!Running, NEW b \in DOMAIN arena,
         Calls!IsJmpBuf(b), Calls!IsJmpBuf(b + 1)
  PROVE  Owner(b + 1) = Owner(b)
<1>1. Calls!TypeOK /\ BuffersOK
  BY DEF CallsInv
<1>2. b \in Nat /\ b + 1 \in DOMAIN arena
  BY <1>1, ArenaTypes DEF Calls!IsJmpBuf
<1>3. /\ IsFrame(Owner(b + 1)) /\ Owner(b + 1) < b + 1
      /\ \A x \in (Owner(b + 1) + 1)..(b + 1) : Owner(x) = Owner(b + 1)
  BY <1>1, <1>2 DEF BuffersOK
<1>4. Owner(b + 1) \in Nat
  BY <1>1, <1>2, ArenaTypes DEF Owner
<1>5. Owner(b + 1) # b
  BY <1>3 DEF IsFrame, Calls!IsJmpBuf
<1>6. b \in (Owner(b + 1) + 1)..(b + 1)
  BY <1>2, <1>3, <1>4, <1>5
<1> QED BY <1>3, <1>6

\* What the inner loop comes to lies above the frame.
LEMMA BufWalkAbove ==
  ASSUME Calls!BoundsAssumption, CallsInv, Calls!Running, NEW frame \in DOMAIN arena, IsFrame(frame)
  PROVE  \A j \in Calls!Address : /\ Calls!BufWalk(frame)[j] \in Nat
                                  /\ Calls!BufWalk(frame)[j] = Calls!NULL \/ frame < Calls!BufWalk(frame)[j]
<1> DEFINE w == Calls!BufWalk(frame)
           Good == {j \in Calls!Address : w[j] \in Nat /\ (w[j] = Calls!NULL \/ frame < w[j])}
<1>1. Calls!TypeOK /\ MarksOK /\ BuffersOK
  BY DEF CallsInv
<1>2. MaxBlocks \in Nat /\ Calls!Address = 0..MaxBlocks /\ frame \in Nat
  BY <1>1, ArenaTypes DEF Calls!Address
<1>3. /\ w[0] = arena[frame].frame.jmpbuf_head
      /\ \A j \in 1..MaxBlocks :
           w[j] = IF Calls!IsJmpBuf(w[j - 1]) THEN arena[w[j - 1]].next ELSE w[j - 1]
  BY <1>1, BufWalkStep
<1> HIDE DEF w
<1>4. 0 \in Good
  <2>1. arena[frame].frame.jmpbuf_head \in Nat
    BY <1>1, ArenaTypes
  <2> QED BY <1>1, <1>2, <1>3, <2>1 DEF MarksOK
<1>5. ASSUME NEW n \in 0..MaxBlocks, n < MaxBlocks, n \in Good
      PROVE  n + 1 \in Good
  <2>1. n + 1 \in Calls!Address /\ n + 1 \in 1..MaxBlocks /\ (n + 1) - 1 = n
    BY <1>2, <1>5
  <2>2. w[n + 1] = IF Calls!IsJmpBuf(w[n]) THEN arena[w[n]].next ELSE w[n]
    BY <1>3, <2>1
  <2>3. w[n] \in Nat /\ (w[n] = Calls!NULL \/ frame < w[n])
    BY <1>5
  <2>4. CASE Calls!IsJmpBuf(w[n])
    <3> DEFINE b == w[n]
               h == Owner(b)
    <3>1. b \in DOMAIN arena /\ b # 0 /\ frame < b
      BY <1>1, <2>3, <2>4, ArenaTypes DEF Calls!IsJmpBuf, Calls!NULL
    <3>2. /\ h < b /\ \A x \in (h + 1)..b : Calls!IsJmpBuf(x)
          /\ arena[b].next = Calls!NULL \/ h < arena[b].next
      BY <1>1, <2>4, <3>1 DEF BuffersOK
    <3>3. h \in Nat /\ arena[b].next \in Nat
      BY <1>1, <2>4, <3>1, ArenaTypes DEF Owner, Calls!IsJmpBuf
    <3>4. frame \notin (h + 1)..b
      BY <3>2 DEF IsFrame, Calls!IsJmpBuf
    <3>5. frame <= h
      <4> HIDE DEF h, b
      <4>1. b \in Nat
        BY <2>3 DEF b
      <4> QED BY <1>2, <3>1, <3>3, <3>4, <4>1
    <3>6. w[n + 1] = arena[b].next
      BY <2>2, <2>4
    <3> HIDE DEF h, b
    <3> QED BY <1>2, <2>1, <3>2, <3>3, <3>5, <3>6
  <2>5. CASE ~Calls!IsJmpBuf(w[n])
    BY <2>1, <2>2, <2>3, <2>5
  <2> QED BY <2>4, <2>5
<1>6. \A j \in 0..MaxBlocks : j \in Good
  <2> HIDE DEF Good
  <2> QED BY <1>2, <1>4, <1>5, NatSetUpTo
<1> QED BY <1>2, <1>6 DEF w

\* The inner loop first comes to the buffers that lie behind the frame, the last first.
LEMMA BufWalkOwn ==
  ASSUME Calls!BoundsAssumption, CallsInv, Calls!Running, NEW h \in DOMAIN arena, IsFrame(h),
         NEW c \in DOMAIN arena, Calls!IsJmpBuf(c), Owner(c) = h
  PROVE  \E above \in DOMAIN arena :
           /\ h < above
           /\ \A b \in DOMAIN arena : Calls!IsJmpBuf(b) /\ Owner(b) = h <=> b \in (h + 1)..above
           /\ \A d \in 0..(above - h - 1) : Calls!BufWalk(h)[d] = above - d
           /\ Calls!BufWalk(h)[above - h] = arena[h + 1].next
<1> DEFINE S   == {b \in DOMAIN arena : Calls!IsJmpBuf(b) /\ Owner(b) = h}
           above == Max(S)
           w   == Calls!BufWalk(h)
<1>1. Calls!TypeOK /\ BuffersOK
  BY DEF CallsInv
<1>2. /\ MaxBlocks \in Nat /\ h \in Nat /\ S \in SUBSET (0..MaxBlocks) /\ S # {}
      /\ \A b \in DOMAIN arena : b \in Nat /\ b <= MaxBlocks
  BY <1>1, ArenaTypes
<1>3. above \in S /\ \A b \in S : b <= above
  <2> HIDE DEF S
  <2> QED BY <1>2, MaxIn
<1>4. above \in DOMAIN arena /\ Calls!IsJmpBuf(above) /\ Owner(above) = h /\ above \in Nat /\ above <= MaxBlocks
  BY <1>2, <1>3
<1> HIDE DEF above
<1>5. h < above /\ \A x \in (h + 1)..above : Calls!IsJmpBuf(x) /\ Owner(x) = h
  BY <1>1, <1>4 DEF BuffersOK
<1>6. ASSUME NEW b \in DOMAIN arena
      PROVE  Calls!IsJmpBuf(b) /\ Owner(b) = h <=> b \in (h + 1)..above
  <2>1. ASSUME Calls!IsJmpBuf(b), Owner(b) = h PROVE b \in (h + 1)..above
    <3>1. h < b /\ b <= above
      BY <1>1, <1>3, <2>1 DEF BuffersOK
    <3> QED BY <1>2, <1>4, <3>1
  <2> QED BY <1>5, <2>1
<1>7. arena[h].frame.jmpbuf_head = above
  <2>1. ~Calls!IsJmpBuf(above + 1)
    <3> SUFFICES ASSUME Calls!IsJmpBuf(above + 1) PROVE FALSE
      OBVIOUS
    <3>1. above + 1 \in DOMAIN arena /\ Owner(above + 1) = h
      BY <1>4, NextSameOwner DEF Calls!IsJmpBuf
    <3>2. above + 1 \in S
      BY <3>1
    <3> QED BY <1>3, <1>4, <3>2
  <2> QED BY <1>1, <1>4, <2>1 DEF BuffersOK
<1>8. /\ w[0] = arena[h].frame.jmpbuf_head
      /\ \A j \in 1..MaxBlocks :
           w[j] = IF Calls!IsJmpBuf(w[j - 1]) THEN arena[w[j - 1]].next ELSE w[j - 1]
  BY <1>1, BufWalkStep
<1> DEFINE N == above - h - 1
           Good == {d \in 0..N : w[d] = above - d}
<1>9. N \in Nat /\ N < MaxBlocks
  BY <1>2, <1>4, <1>5
<1> HIDE DEF w
<1>10. 0 \in Good
  BY <1>4, <1>7, <1>8, <1>9
<1>11. ASSUME NEW n \in 0..N, n < N, n \in Good
       PROVE  n + 1 \in Good
  <2> DEFINE b == above - (n + 1)
  <2>1. n + 1 \in 0..N /\ n + 1 \in 1..MaxBlocks /\ (n + 1) - 1 = n /\ n \in Nat
    BY <1>2, <1>9, <1>11
  <2>2. b \in (h + 1)..above /\ b + 1 \in (h + 1)..above /\ b + 1 = above - n
    BY <1>2, <1>4, <1>11
  <2>3. b \in DOMAIN arena /\ Calls!IsJmpBuf(b) /\ Calls!IsJmpBuf(b + 1)
    BY <1>5, <2>2 DEF Calls!IsJmpBuf
  <2>4. arena[b + 1].next = b
    BY <1>1, <2>3 DEF BuffersOK
  <2>5. w[n] = b + 1
    BY <1>11, <2>2
  <2> HIDE DEF b
  <2>6. w[n + 1] = b
    BY <1>8, <2>1, <2>3, <2>4, <2>5
  <2> QED BY <2>1, <2>6 DEF b
<1>12. \A d \in 0..N : d \in Good
  <2> HIDE DEF Good, N
  <2> QED BY <1>9, <1>10, <1>11, NatSetUpTo
<1>13. w[above - h] = arena[h + 1].next
  <2>1. N \in 0..N /\ above - N = h + 1 /\ N + 1 = above - h /\ N + 1 \in 1..MaxBlocks
        /\ (N + 1) - 1 = N
    BY <1>2, <1>4, <1>9
  <2>2. w[N] = h + 1
    BY <1>12, <2>1
  <2>3. Calls!IsJmpBuf(h + 1)
    <3>1. h + 1 \in (h + 1)..above
      BY <1>2, <1>4, <1>5
    <3> QED BY <1>5, <3>1
  <2> HIDE DEF N
  <2> QED BY <1>8, <2>1, <2>2, <2>3
<1> QED BY <1>4, <1>5, <1>6, <1>12, <1>13 DEF w

\* A buffer that a longjmp finds was made by a setjmp of the frame where it finds it: if
\* it belonged to another frame, the search would have found it there first.
LEMMA FoundRight ==
  ASSUME Calls!BoundsAssumption, CallsInv, Calls!Running, NEW s \in pending,
         NEW found \in Calls!Search(s.id)
  PROVE  /\ found.f = s.frame /\ Owner(found.buf) = s.frame
         /\ IsFrame(s.frame) /\ found.buf \in DOMAIN arena /\ Calls!IsJmpBuf(found.buf)
<1> DEFINE f == found.f
           c == found.buf
           id == s.id
           h == Owner(c)
<1>1. /\ f \in Calls!Stack /\ c \in DOMAIN arena /\ Calls!IsJmpBuf(c) /\ arena[c].id = id
      /\ \E k \in Calls!Address : Calls!FrameWalk[k] = f /\ Calls!Reaches(id, k)
      /\ \E j \in Calls!Address : Calls!BufWalk(f)[j] = c
  BY DEF Calls!Search
<1>2. Calls!TypeOK /\ BuffersOK /\ PendingOK
  BY DEF CallsInv
<1>3. h = s.frame
  BY <1>1, <1>2 DEF PendingOK
<1>4. IsFrame(f) /\ f \in DOMAIN arena
  BY <1>1, StackIsFrames
<1>5. /\ IsFrame(h) /\ h \in DOMAIN arena /\ h < c
      /\ \A x \in (h + 1)..c : Calls!IsJmpBuf(x)
  BY <1>1, <1>2 DEF BuffersOK, IsFrame
<1>6. f \in Nat /\ c \in Nat /\ h \in Nat /\ c # 0 /\ MaxBlocks \in Nat
  BY <1>1, <1>2, <1>4, <1>5, ArenaTypes
<1> HIDE DEF f, c, id, h
<1>7. f <= h
  <2>1. f < c
    BY <1>1, <1>4, <1>6, BufWalkAbove DEF Calls!NULL
  <2>2. f \notin (h + 1)..c
    BY <1>4, <1>5 DEF IsFrame, Calls!IsJmpBuf
  <2> QED BY <1>6, <2>1, <2>2
<1>8. ~(f < h)
  <2> SUFFICES ASSUME f < h PROVE FALSE
    OBVIOUS
  <2>1. PICK k \in Calls!Address : Calls!FrameWalk[k] = f /\ Calls!Reaches(id, k)
    BY <1>1
  <2>2. PICK i \in Calls!Address : i < k /\ Calls!FrameWalk[i] = h
    BY <1>5, <2>1, FrameWalkCovers
  <2>3. i \in 0..(k - 1)
    BY <1>6, <2>2 DEF Calls!Address
  <2>4. Calls!NotIn(h, id)
    BY <2>1, <2>2, <2>3 DEF Calls!Reaches
  <2>5. PICK j \in Calls!Address : Calls!Passes(h, id, j) /\ Calls!BufWalk(h)[j] = Calls!NULL
    BY <2>4 DEF Calls!NotIn
  <2>6. PICK above \in DOMAIN arena :
           /\ h < above
           /\ \A b \in DOMAIN arena : Calls!IsJmpBuf(b) /\ Owner(b) = h <=> b \in (h + 1)..above
           /\ \A d \in 0..(above - h - 1) : Calls!BufWalk(h)[d] = above - d
    BY <1>1, <1>5, BufWalkOwn DEF h
  <2>7. c \in (h + 1)..above /\ above \in Nat
    <3>1. above \in Nat
      BY <1>2, <2>6, ArenaTypes
    <3> QED BY <1>1, <2>6, <3>1 DEF h
  <2>8. above - c \in 0..(above - h - 1) /\ above - (above - c) = c
    BY <1>6, <2>7
  <2>9. Calls!BufWalk(h)[above - c] = c
    BY <2>6, <2>8
  <2>10. j \in Nat /\ ~(above - c < j)
    <3>1. j \in Nat
      BY <1>6 DEF Calls!Address
    <3> SUFFICES ASSUME above - c < j PROVE FALSE
      BY <3>1
    <3>2. above - c \in 0..(j - 1)
      BY <1>6, <2>7, <2>8, <3>1
    <3>3. arena[c].id # id
      BY <2>5, <2>9, <3>2 DEF Calls!Passes
    <3> QED BY <1>1, <3>3
  <2>11. j \in 0..(above - h - 1)
    BY <1>6, <2>7, <2>8, <2>10
  <2>12. Calls!BufWalk(h)[j] = above - j /\ above - j # 0
    BY <1>6, <2>6, <2>7, <2>11
  <2> QED BY <2>5, <2>12 DEF Calls!NULL
<1>9. f = h
  BY <1>6, <1>7, <1>8
<1> QED BY <1>1, <1>3, <1>5, <1>9 DEF f, c, h

\* The block behind a frame, if it is a buffer, is one of the frame.
LEMMA FirstBuffer ==
  ASSUME Calls!BoundsAssumption, CallsInv, Calls!Running, NEW g \in DOMAIN arena, IsFrame(g),
         Calls!IsJmpBuf(g + 1)
  PROVE  Owner(g + 1) = g /\ g + 1 \in DOMAIN arena
<1>1. Calls!TypeOK /\ BuffersOK /\ g + 1 \in DOMAIN arena
  BY DEF CallsInv, Calls!IsJmpBuf
<1>2. Owner(g + 1) < g + 1 /\ \A x \in (Owner(g + 1) + 1)..(g + 1) : Calls!IsJmpBuf(x)
  BY <1>1 DEF BuffersOK
<1>3. g \in Nat /\ Owner(g + 1) \in Nat
  BY <1>1, ArenaTypes DEF Owner
<1>4. g \notin (Owner(g + 1) + 1)..(g + 1)
  BY <1>2 DEF IsFrame, Calls!IsJmpBuf
<1> QED BY <1>1, <1>2, <1>3, <1>4

\* The inner loop passes over the list of a frame that was not returned or jumped to
\* since its first setjmp, and has no buffer with the id.
LEMMA CleanNotIn ==
  ASSUME Calls!BoundsAssumption, CallsInv, Calls!Running, NEW g \in DOMAIN arena, IsFrame(g),
         g \notin spoiled,
         NEW id, \A b \in DOMAIN arena : Calls!IsJmpBuf(b) /\ Owner(b) = g => arena[b].id # id
  PROVE  Calls!NotIn(g, id)
<1>1. Calls!TypeOK /\ CleanOK
  BY DEF CallsInv
<1>2. MaxBlocks \in Nat /\ g \in Nat /\ Calls!Address = 0..MaxBlocks
  BY <1>1, ArenaTypes DEF Calls!Address
<1>3. CASE \A b \in DOMAIN arena : ~(Calls!IsJmpBuf(b) /\ Owner(b) = g)
  <2>1. ~Calls!IsJmpBuf(g + 1)
    BY <1>3, FirstBuffer
  <2>2. arena[g].frame.jmpbuf_head = Calls!NULL
    BY <1>1, <2>1 DEF CleanOK
  <2>3. Calls!BufWalk(g)[0] = Calls!NULL
    BY <1>1, <2>2, BufWalkStep
  <2>4. Calls!Passes(g, id, 0) /\ 0 \in Calls!Address
    BY <1>2 DEF Calls!Passes
  <2> QED BY <2>3, <2>4 DEF Calls!NotIn
<1>4. CASE \E b \in DOMAIN arena : Calls!IsJmpBuf(b) /\ Owner(b) = g
  <2>1. PICK above \in DOMAIN arena :
           /\ g < above
           /\ \A b \in DOMAIN arena : Calls!IsJmpBuf(b) /\ Owner(b) = g <=> b \in (g + 1)..above
           /\ \A d \in 0..(above - g - 1) : Calls!BufWalk(g)[d] = above - d
           /\ Calls!BufWalk(g)[above - g] = arena[g + 1].next
    BY <1>4, BufWalkOwn
  <2>2. above \in Nat /\ above <= MaxBlocks /\ \A x \in (g + 1)..above : x \in DOMAIN arena
    BY <1>1, <1>2, <2>1, ArenaTypes
  <2>3. g + 1 \in (g + 1)..above /\ above - g \in Calls!Address
    BY <1>2, <2>1, <2>2
  <2>4. Calls!IsJmpBuf(g + 1)
    BY <2>1, <2>2, <2>3
  <2>5. arena[g + 1].next = Calls!NULL
    BY <1>1, <2>4 DEF CleanOK
  <2>6. ASSUME NEW i \in 0..(above - g - 1)
        PROVE  Calls!IsJmpBuf(Calls!BufWalk(g)[i]) /\ arena[Calls!BufWalk(g)[i]].id # id
    <3>1. Calls!BufWalk(g)[i] = above - i /\ above - i \in (g + 1)..above
      BY <1>2, <2>1, <2>2
    <3> QED BY <2>1, <2>2, <3>1
  <2>7. Calls!Passes(g, id, above - g)
    BY <2>6 DEF Calls!Passes
  <2> QED BY <2>1, <2>3, <2>5, <2>7 DEF Calls!NotIn
<1> QED BY <1>3, <1>4

\* A frame that was not returned or jumped to since its setjmps has their buffers on its
\* list: the search finds them, or goes astray in a list of another frame, but does not
\* come to the sentinel.
LEMMA PendingNotRefused ==
  ASSUME Calls!BoundsAssumption, CallsInv, Calls!Running, NEW s \in pending,
         s.frame \notin spoiled
  PROVE  ~Calls!SearchFails(s.id)
<1> DEFINE h == s.frame
<1> SUFFICES ASSUME Calls!SearchFails(s.id) PROVE FALSE
  OBVIOUS
<1>1. Calls!TypeOK /\ PendingOK /\ IdsOK
  BY DEF CallsInv
<1>2. MaxBlocks \in Nat /\ Calls!Address = 0..MaxBlocks /\ \A b \in DOMAIN arena : b \in Nat /\ b # 0
  BY <1>1, ArenaTypes DEF Calls!Address
<1>3. IsFrame(h) /\ h \in DOMAIN arena /\ h \notin spoiled
  BY <1>1 DEF PendingOK, IsFrame
<1>4. PICK c \in DOMAIN arena : Calls!IsJmpBuf(c) /\ arena[c].id = s.id
  BY <1>1, <1>3 DEF PendingOK
<1>5. Owner(c) = h
  BY <1>1, <1>4 DEF PendingOK
<1> HIDE DEF h
<1>6. PICK k \in Calls!Address : Calls!Reaches(s.id, k) /\ Calls!FrameWalk[k] = Calls!NULL
  BY DEF Calls!SearchFails
<1>7. PICK i \in Calls!Address : i < k /\ Calls!FrameWalk[i] = h
  BY <1>2, <1>3, <1>6, FrameWalkCovers DEF Calls!NULL
<1>8. Calls!NotIn(h, s.id)
  <2>1. i \in 0..(k - 1)
    BY <1>2, <1>7
  <2> QED BY <1>6, <1>7, <2>1 DEF Calls!Reaches
<1>9. PICK j \in Calls!Address : Calls!Passes(h, s.id, j) /\ Calls!BufWalk(h)[j] = Calls!NULL
  BY <1>8 DEF Calls!NotIn
<1>10. PICK above \in DOMAIN arena :
         /\ h < above
         /\ \A b \in DOMAIN arena : Calls!IsJmpBuf(b) /\ Owner(b) = h <=> b \in (h + 1)..above
         /\ \A d \in 0..(above - h - 1) : Calls!BufWalk(h)[d] = above - d
  BY <1>3, <1>4, <1>5, BufWalkOwn
<1>11. /\ c \in (h + 1)..above /\ above \in Nat /\ h \in Nat /\ c \in Nat /\ j \in Nat
       /\ above - c \in 0..(above - h - 1) /\ above - (above - c) = c
  <2>1. c \in (h + 1)..above
    BY <1>4, <1>5, <1>10
  <2> QED BY <1>2, <1>3, <2>1
<1>12. Calls!BufWalk(h)[above - c] = c
  BY <1>10, <1>11
<1>13. ~(above - c < j)
  <2> SUFFICES ASSUME above - c < j PROVE FALSE
    OBVIOUS
  <2>1. above - c \in 0..(j - 1)
    BY <1>11
  <2>2. arena[c].id # s.id
    BY <1>9, <1>12, <2>1 DEF Calls!Passes
  <2> QED BY <1>4, <2>2
<1>14. j \in 0..(above - h - 1) /\ above - j # 0
  BY <1>11, <1>13
<1>15. Calls!BufWalk(h)[j] = above - j
  BY <1>10, <1>14
<1> QED BY <1>9, <1>14, <1>15 DEF Calls!NULL

\* A longjmp is found as long as no frame of the stack was returned or jumped to after
\* its setjmps.
LEMMA PendingFound ==
  ASSUME Calls!BoundsAssumption, CallsInv, Calls!Running, NEW s \in pending,
         spoiled \cap Calls!Stack = {}
  PROVE  Calls!Search(s.id) # {}
<1> DEFINE h == s.frame
<1>1. Calls!TypeOK /\ PendingOK /\ IdsOK
  BY DEF CallsInv
<1>2. MaxBlocks \in Nat /\ Calls!Address = 0..MaxBlocks /\ \A b \in DOMAIN arena : b \in Nat /\ b # 0
  BY <1>1, ArenaTypes DEF Calls!Address
<1>3. IsFrame(h) /\ h \in DOMAIN arena /\ h \in Calls!Stack /\ h \notin spoiled
  BY <1>1, StackIsFrames DEF PendingOK, IsFrame
<1>4. PICK c \in DOMAIN arena : Calls!IsJmpBuf(c) /\ arena[c].id = s.id
  BY <1>1, <1>3 DEF PendingOK
<1>5. \A b \in DOMAIN arena : Calls!IsJmpBuf(b) /\ arena[b].id = s.id => Owner(b) = h
  BY <1>1 DEF PendingOK
<1> HIDE DEF h
<1>6. PICK k \in Calls!Address : Calls!FrameWalk[k] = h
  BY <1>3 DEF Calls!Stack
<1>7. Calls!Reaches(s.id, k)
  <2> SUFFICES ASSUME NEW i \in 0..(k - 1)
               PROVE  Calls!FrameWalk[i] # Calls!NULL /\ Calls!NotIn(Calls!FrameWalk[i], s.id)
    BY DEF Calls!Reaches
  <2>1. i \in Calls!Address /\ i < k /\ i \in Nat /\ k \in Nat
    BY <1>2
  <2>2. Calls!FrameWalk[i] # Calls!NULL
    <3> SUFFICES ASSUME Calls!FrameWalk[i] = Calls!NULL PROVE FALSE
      OBVIOUS
    <3>1. Calls!FrameWalk[i] < h /\ h # Calls!NULL
      BY <1>2, <1>3 DEF Calls!NULL
    <3>2. PICK l \in Calls!Address : l < i /\ Calls!FrameWalk[l] = h
      BY <1>3, <2>1, <3>1, FrameWalkCovers
    <3>3. l < k
      BY <1>2, <2>1, <3>2
    <3>4. Calls!FrameWalk[k] < Calls!FrameWalk[l]
      BY <3>1, <3>2, <3>3, FrameWalkCovers
    <3> QED BY <1>2, <1>3, <1>6, <3>2, <3>4
  <2> DEFINE g == Calls!FrameWalk[i]
  <2>3. IsFrame(g) /\ g \in DOMAIN arena
    BY <2>1, <2>2, FrameWalkCovers DEF IsFrame
  <2>4. h < g
    BY <1>6, <2>1, <2>2, FrameWalkCovers
  <2>5. g # h /\ g \notin spoiled
    BY <1>2, <1>3, <2>3, <2>4, StackIsFrames
  <2> HIDE DEF g
  <2>6. \A b \in DOMAIN arena : Calls!IsJmpBuf(b) /\ Owner(b) = g => arena[b].id # s.id
    BY <1>5, <2>5
  <2> QED BY <2>2, <2>3, <2>5, <2>6, CleanNotIn DEF g
<1>8. Owner(c) = h
  BY <1>4, <1>5
<1>9. PICK above \in DOMAIN arena :
         /\ h < above
         /\ \A b \in DOMAIN arena : Calls!IsJmpBuf(b) /\ Owner(b) = h <=> b \in (h + 1)..above
         /\ \A d \in 0..(above - h - 1) : Calls!BufWalk(h)[d] = above - d
  BY <1>3, <1>4, <1>8, BufWalkOwn
<1>10. /\ c \in (h + 1)..above /\ above \in Nat /\ h \in Nat /\ above <= MaxBlocks
       /\ \A x \in (h + 1)..above : x \in DOMAIN arena
  BY <1>1, <1>3, <1>4, <1>8, <1>9, ArenaTypes
<1> DEFINE j == above - c
<1>11. j \in Calls!Address /\ Calls!BufWalk(h)[j] = c
  <2>1. above - c \in 0..(above - h - 1) /\ above - c \in 0..MaxBlocks /\ above - (above - c) = c
    BY <1>2, <1>10
  <2> QED BY <1>2, <1>9, <2>1
<1>12. Calls!Passes(h, s.id, j)
  <2> SUFFICES ASSUME NEW i \in 0..(j - 1)
               PROVE  Calls!IsJmpBuf(Calls!BufWalk(h)[i]) /\ arena[Calls!BufWalk(h)[i]].id # s.id
    BY DEF Calls!Passes
  <2>1. i \in 0..(above - h - 1) /\ above - i \in (h + 1)..above /\ above - i # c
    BY <1>2, <1>10
  <2>2. Calls!BufWalk(h)[i] = above - i /\ above - i \in DOMAIN arena /\ Calls!IsJmpBuf(above - i)
    BY <1>9, <1>10, <2>1
  <2> QED BY <1>1, <1>4, <2>1, <2>2 DEF IdsOK
<1> DEFINE found == [f |-> h, buf |-> c]
<1>13. found \in [f : Calls!Stack, buf : DOMAIN arena] /\ found.f = h /\ found.buf = c
  BY <1>3
<1> HIDE DEF found, j
<1>14. found \in Calls!Search(s.id)
  BY <1>4, <1>6, <1>7, <1>11, <1>12, <1>13 DEF Calls!Search
<1> QED BY <1>14

-----------------------------------------------------------------------------
(* The steps.                                                               *)

\* A thread starts.
LEMMA CallsInitially ==
  ASSUME Calls!BoundsAssumption, Calls!Init
  PROVE  CallsInv
<1> DEFINE b == Calls!NewFrame(Calls!NULL, 1)
<1>1. 1 \in Calls!Address /\ 0 \in Calls!Address
  BY DEF Calls!BoundsAssumption, Calls!Address
<1>2. b.kind = "frame" /\ b.frame.parent = 0 /\ b.frame.mark = 1 /\ b.frame.jmpbuf_head = 0
  BY DEF Calls!NewFrame, Calls!NULL
<1>3. b \in Calls!Block
  BY <1>1 DEF Calls!NewFrame, Calls!Block, Calls!Frame, Calls!NULL
<1> HIDE DEF b
<1>4. arena \in Seq(Calls!Block) /\ Len(arena) = 1 /\ DOMAIN arena = {1} /\ arena[1] = b
  BY <1>3 DEF Calls!Init, b
<1>5. Calls!TypeOK
  BY <1>1, <1>4 DEF Calls!Init, Calls!TypeOK, Calls!BoundsAssumption
<1>6. IsFrame(1) /\ \A x : ~Calls!IsJmpBuf(x)
  BY <1>2, <1>4 DEF IsFrame, Calls!IsJmpBuf
<1>7. MarksOK /\ ChainOK
  BY <1>2, <1>4, <1>6 DEF MarksOK, ChainOK, Calls!NULL, Calls!Init
<1>8. BuffersOK /\ IdsOK /\ PendingOK
  BY <1>6 DEF BuffersOK, IdsOK, PendingOK, Calls!Init
<1>9. CleanOK
  BY <1>2, <1>4, <1>6 DEF CleanOK, Calls!NULL
<1> QED BY <1>5, <1>7, <1>8, <1>9 DEF CallsInv

\* PN_OPCODE_CALL.
LEMMA PushFunctionStep ==
  ASSUME Calls!BoundsAssumption, CallsInv, Calls!PushFunction
  PROVE  CallsInv'
<1> DEFINE n == Len(arena)
           b == Calls!NewFrame(current_frame, n + 1)
           F(x) == x \in DOMAIN arena' /\ arena'[x].kind = "frame"
           Buf(x) == x \in DOMAIN arena' /\ arena'[x].kind = "jmpbuf"
           O(x) == arena'[x].frame.mark
<1>1. /\ Calls!Running /\ n < MaxBlocks /\ arena' = Append(arena, b) /\ current_frame' = n + 1
      /\ chunk_starts' \in {chunk_starts, chunk_starts \cup {n + 1}}
      /\ UNCHANGED <<next_jmpbuf_id, pending, spoiled, status>>
  BY DEF Calls!PushFunction, Calls!Allocate
<1>2. Calls!TypeOK /\ MarksOK /\ ChainOK /\ BuffersOK /\ IdsOK /\ PendingOK /\ CleanOK
  BY <1>1 DEF CallsInv
<1>3. /\ n \in Nat /\ MaxBlocks \in Nat /\ DOMAIN arena = 1..n
      /\ n + 1 \in Calls!Address /\ current_frame \in Calls!Address /\ Calls!NULL \in Calls!Address
      /\ current_frame \in 1..n
  <2>1. n \in Nat /\ MaxBlocks \in Nat /\ DOMAIN arena = 1..n
    BY <1>2, ArenaTypes
  <2>2. current_frame \in 1..n
    BY <1>2, <2>1 DEF ChainOK, IsFrame
  <2> QED BY <1>1, <1>2, <2>1, <2>2 DEF Calls!TypeOK, Calls!Address, Calls!NULL
<1>4. /\ b \in Calls!Block /\ b.kind = "frame" /\ b.frame.parent = current_frame
      /\ b.frame.mark = n + 1 /\ b.frame.jmpbuf_head = Calls!NULL
  <2> HIDE DEF n
  <2>1. /\ b.kind = "frame" /\ b.frame.parent = current_frame
        /\ b.frame.mark = n + 1 /\ b.frame.jmpbuf_head = Calls!NULL
    BY DEF Calls!NewFrame
  <2>2. b \in Calls!Block
    BY <1>3 DEF Calls!NewFrame, Calls!Block, Calls!Frame
  <2> QED BY <2>1, <2>2
<1> HIDE DEF b
<1>5. /\ arena' \in Seq(Calls!Block) /\ Len(arena') = n + 1 /\ DOMAIN arena' = 1..(n + 1)
      /\ arena'[n + 1] = b /\ \A x \in 1..n : arena'[x] = arena[x]
  <2>1. arena \in Seq(Calls!Block)
    BY <1>2 DEF Calls!TypeOK
  <2> QED BY <1>1, <1>4, <2>1, SeqAppend
<1>6. /\ \A x : F(x) <=> IsFrame(x) \/ x = n + 1
      /\ \A x : Buf(x) <=> Calls!IsJmpBuf(x)
      /\ \A x : IsFrame(x) \/ Calls!IsJmpBuf(x) => x \in 1..n /\ x < n + 1
  <2>1. \A x \in 1..(n + 1) : x \in 1..n \/ x = n + 1
    BY <1>3
  <2>2. \A x \in 1..n : x \in 1..(n + 1) /\ x < n + 1
    BY <1>3
  <2>3. n + 1 \in 1..(n + 1) /\ n + 1 \notin 1..n
    BY <1>3
  <2> QED BY <1>3, <1>4, <1>5, <2>1, <2>2, <2>3 DEF IsFrame, Calls!IsJmpBuf
<1>7. /\ \A x \in 1..n : arena'[x] = arena[x] /\ O(x) = Owner(x)
      /\ \A x \in DOMAIN arena' : x \in 1..n \/ x = n + 1
      /\ \A x \in 1..n : x \in Nat /\ x # n + 1 /\ x < n + 1 /\ x + 1 # n + 2
      /\ n + 1 # Calls!NULL
  BY <1>3, <1>5 DEF Owner, Calls!NULL
<1>8. Calls!TypeOK'
  BY <1>1, <1>2, <1>3, <1>5 DEF Calls!TypeOK
<1>9. MarksOK'
  <2> SUFFICES ASSUME NEW f \in DOMAIN arena', F(f)
               PROVE  /\ arena'[f].frame.mark = f
                      /\ arena'[f].frame.jmpbuf_head = Calls!NULL \/ f < arena'[f].frame.jmpbuf_head
    BY DEF MarksOK, IsFrame
  <2> HIDE DEF F, Buf, O
  <2> QED BY <1>2, <1>3, <1>4, <1>5, <1>6, <1>7 DEF MarksOK
<1>10. ChainOK'
  <2> SUFFICES /\ F(n + 1)
               /\ \A f \in DOMAIN arena' : F(f) =>
                    /\ f <= n + 1 /\ arena'[f].frame.parent < f
                    /\ arena'[f].frame.parent = Calls!NULL \/ F(arena'[f].frame.parent)
                    /\ \A g \in DOMAIN arena' : F(g) /\ g < f => g <= arena'[f].frame.parent
    BY <1>1 DEF ChainOK, IsFrame
  <2> HIDE DEF F, Buf, O
  <2>1. F(n + 1)
    BY <1>6
  <2>2. ASSUME NEW f \in DOMAIN arena', F(f)
        PROVE  /\ f <= n + 1 /\ arena'[f].frame.parent < f
               /\ arena'[f].frame.parent = Calls!NULL \/ F(arena'[f].frame.parent)
               /\ \A g \in DOMAIN arena' : F(g) /\ g < f => g <= arena'[f].frame.parent
    <3>1. CASE f = n + 1
      <4>1. arena'[f].frame.parent = current_frame /\ IsFrame(current_frame)
        BY <1>2, <1>4, <1>5, <3>1 DEF ChainOK
      <4>2. \A g \in DOMAIN arena' : F(g) /\ g < f => g <= current_frame
        BY <1>2, <1>3, <1>6, <1>7, <3>1 DEF ChainOK
      <4> QED BY <1>3, <1>6, <3>1, <4>1, <4>2
    <3>2. CASE f # n + 1
      <4>1. IsFrame(f) /\ f \in 1..n
        BY <1>6, <2>2, <3>2
      <4>2. /\ f <= current_frame /\ arena[f].frame.parent < f
            /\ arena[f].frame.parent = Calls!NULL \/ IsFrame(arena[f].frame.parent)
            /\ \A g \in DOMAIN arena : IsFrame(g) /\ g < f => g <= arena[f].frame.parent
        BY <1>2, <1>3, <4>1 DEF ChainOK
      <4>3. arena'[f].frame.parent = arena[f].frame.parent
        BY <1>7, <4>1
      <4>4. \A g \in DOMAIN arena' : F(g) /\ g < f => g \in DOMAIN arena /\ IsFrame(g)
        BY <1>3, <1>6, <1>7, <4>1
      <4> QED BY <1>3, <1>6, <4>1, <4>2, <4>3, <4>4
    <3> QED BY <3>1, <3>2
  <2> QED BY <2>1, <2>2
<1>11. BuffersOK'
  <2> SUFFICES ASSUME NEW c \in DOMAIN arena', Buf(c)
               PROVE  /\ F(O(c)) /\ O(c) < c
                      /\ \A x \in (O(c) + 1)..c : Buf(x) /\ O(x) = O(c)
                      /\ arena'[c].frame.parent = arena'[O(c)].frame.parent
                      /\ arena'[c].frame.jmpbuf_head = arena'[c].next
                      /\ arena'[c].next = Calls!NULL \/ O(c) < arena'[c].next
                      /\ arena'[c].id < next_jmpbuf_id'
                      /\ IF Buf(c + 1) THEN arena'[c + 1].next = c
                         ELSE arena'[O(c)].frame.jmpbuf_head = c
    BY DEF BuffersOK, IsFrame, Calls!IsJmpBuf, Owner
  <2> HIDE DEF F, Buf, O
  <2>1. Calls!IsJmpBuf(c) /\ c \in 1..n /\ O(c) = Owner(c) /\ arena'[c] = arena[c]
    BY <1>6, <1>7
  <2>2. /\ IsFrame(Owner(c)) /\ Owner(c) < c
        /\ \A x \in (Owner(c) + 1)..c : Calls!IsJmpBuf(x) /\ Owner(x) = Owner(c)
        /\ arena[c].frame.parent = arena[Owner(c)].frame.parent
        /\ arena[c].frame.jmpbuf_head = arena[c].next
        /\ arena[c].next = Calls!NULL \/ Owner(c) < arena[c].next
        /\ arena[c].id < next_jmpbuf_id
        /\ IF Calls!IsJmpBuf(c + 1) THEN arena[c + 1].next = c
           ELSE arena[Owner(c)].frame.jmpbuf_head = c
    BY <1>2, <1>3, <2>1 DEF BuffersOK
  <2>3. arena'[Owner(c)] = arena[Owner(c)]
    BY <1>6, <1>7, <2>2
  <2>4. Calls!IsJmpBuf(c + 1) => arena'[c + 1] = arena[c + 1]
    BY <1>6, <1>7
  <2>5. \A x \in (Owner(c) + 1)..c : Buf(x) /\ O(x) = Owner(c)
    BY <1>6, <1>7, <2>2
  <2> HIDE DEF n
  <2> QED BY <1>1, <1>6, <2>1, <2>2, <2>3, <2>4, <2>5
<1>12. IdsOK'
  <2> SUFFICES ASSUME NEW c \in DOMAIN arena', NEW d \in DOMAIN arena', Buf(c), Buf(d),
                      arena'[c].id = arena'[d].id
               PROVE  c = d
    BY DEF IdsOK, Calls!IsJmpBuf
  <2> HIDE DEF F, Buf, O
  <2> QED BY <1>2, <1>3, <1>6, <1>7 DEF IdsOK
<1>13. PendingOK'
  <2> SUFFICES ASSUME NEW s \in pending
               PROVE  /\ F(s.frame) /\ s.id < next_jmpbuf_id
                      /\ \A c \in DOMAIN arena' : Buf(c) /\ arena'[c].id = s.id => O(c) = s.frame
                      /\ s.frame \notin spoiled =>
                           \E c \in DOMAIN arena' : Buf(c) /\ arena'[c].id = s.id
    BY <1>1 DEF PendingOK, IsFrame, Calls!IsJmpBuf, Owner
  <2> HIDE DEF F, Buf, O
  <2> QED BY <1>2, <1>3, <1>5, <1>6, <1>7 DEF PendingOK
<1>14. CleanOK'
  <2> SUFFICES ASSUME NEW f \in DOMAIN arena', F(f)
               PROVE  /\ (\A s \in pending : s.frame # f) => arena'[f].frame.jmpbuf_head = Calls!NULL
                      /\ f \notin spoiled =>
                           IF Buf(f + 1) THEN arena'[f + 1].next = Calls!NULL
                           ELSE arena'[f].frame.jmpbuf_head = Calls!NULL
    BY <1>1 DEF CleanOK, IsFrame, Calls!IsJmpBuf
  <2> HIDE DEF F, Buf, O
  <2>1. CASE f = n + 1
    <3>1. ~Buf(f + 1)
      BY <1>3, <1>6, <2>1
    <3> QED BY <1>4, <1>5, <2>1, <3>1
  <2>2. CASE f # n + 1
    <3>1. IsFrame(f) /\ f \in 1..n /\ arena'[f] = arena[f]
      BY <1>6, <1>7, <2>2
    <3>2. Calls!IsJmpBuf(f + 1) => arena'[f + 1] = arena[f + 1]
      BY <1>6, <1>7
    <3> QED BY <1>2, <1>3, <1>6, <3>1, <3>2 DEF CleanOK
  <2> QED BY <2>1, <2>2
<1> QED BY <1>8, <1>9, <1>10, <1>11, <1>12, <1>13, <1>14 DEF CallsInv

\* The arena is reset to the mark of a frame f, whose list then has another head: the
\* frames that f called are gone, with the buffers of f.
LEMMA CutStep ==
  ASSUME Calls!BoundsAssumption, CallsInv, Calls!Running, NEW f \in DOMAIN arena, IsFrame(f),
         NEW fr \in Calls!Frame,
         fr.mark = f, fr.parent = arena[f].frame.parent,
         fr.jmpbuf_head = Calls!NULL \/ f < fr.jmpbuf_head,
         arena' \in Seq(Calls!Block), Len(arena') = f,
         \A x \in 1..f : x # f => arena'[x] = arena[x],
         arena'[f].kind = "frame", arena'[f].frame = fr,
         current_frame' = f, UNCHANGED <<next_jmpbuf_id, status>>,
         chunk_starts' \subseteq Calls!Address,
         pending' = {s \in pending : s.frame <= f},
         spoiled' \subseteq Calls!Address,
         \A g \in 1..f : g # f /\ g \notin spoiled' => g \notin spoiled,
         f \notin spoiled' => \A s \in pending : s.frame # f,
         (\A s \in pending : s.frame # f) => fr.jmpbuf_head = Calls!NULL
  PROVE  CallsInv'
<1> DEFINE F(x) == x \in DOMAIN arena' /\ arena'[x].kind = "frame"
           Buf(x) == x \in DOMAIN arena' /\ arena'[x].kind = "jmpbuf"
           O(x) == arena'[x].frame.mark
<1>1. Calls!TypeOK /\ MarksOK /\ ChainOK /\ BuffersOK /\ IdsOK /\ PendingOK /\ CleanOK
  BY DEF CallsInv
<1>2. /\ f \in Nat /\ f # 0 /\ f <= MaxBlocks /\ MaxBlocks \in Nat /\ DOMAIN arena' = 1..f
      /\ \A x \in 1..f : x \in DOMAIN arena /\ x \in Nat /\ x <= f
      /\ \A x \in 1..f : x # f => x < f
  <2>1. f \in Nat /\ f # 0 /\ f <= Len(arena) /\ Len(arena) \in Nat /\ DOMAIN arena = 1..Len(arena)
        /\ Len(arena) <= MaxBlocks /\ MaxBlocks \in Nat
    BY <1>1, ArenaTypes
  <2> QED BY <2>1
<1>3. /\ \A x : F(x) <=> x \in 1..f /\ IsFrame(x)
      /\ \A x : Buf(x) <=> x \in 1..f /\ Calls!IsJmpBuf(x)
      /\ \A x \in 1..f : x # f => O(x) = Owner(x)
      /\ ~Calls!IsJmpBuf(f)
  BY <1>2 DEF IsFrame, Calls!IsJmpBuf, Owner
<1>4. \A x \in DOMAIN arena : x \in Nat
  BY <1>1, ArenaTypes
<1>5. Calls!TypeOK'
  <2>1. f \in Calls!Address
    BY <1>2 DEF Calls!Address
  <2> QED BY <1>1, <1>2, <2>1 DEF Calls!TypeOK
<1>6. MarksOK'
  <2> SUFFICES ASSUME NEW g \in DOMAIN arena', F(g)
               PROVE  /\ arena'[g].frame.mark = g
                      /\ arena'[g].frame.jmpbuf_head = Calls!NULL \/ g < arena'[g].frame.jmpbuf_head
    BY DEF MarksOK, IsFrame
  <2> HIDE DEF F, Buf, O
  <2> QED BY <1>1, <1>2, <1>3 DEF MarksOK
<1>7. ChainOK'
  <2> SUFFICES /\ F(f)
               /\ \A e \in DOMAIN arena' : F(e) =>
                    /\ e <= f /\ arena'[e].frame.parent < e
                    /\ arena'[e].frame.parent = Calls!NULL \/ F(arena'[e].frame.parent)
                    /\ \A g \in DOMAIN arena' : F(g) /\ g < e => g <= arena'[e].frame.parent
    BY DEF ChainOK, IsFrame
  <2> HIDE DEF F, Buf, O
  <2>1. F(f)
    BY <1>2, <1>3
  <2>2. ASSUME NEW e \in DOMAIN arena', F(e)
        PROVE  /\ e <= f /\ arena'[e].frame.parent < e
               /\ arena'[e].frame.parent = Calls!NULL \/ F(arena'[e].frame.parent)
               /\ \A g \in DOMAIN arena' : F(g) /\ g < e => g <= arena'[e].frame.parent
    <3> DEFINE c == arena[e].frame.parent
    <3>1. arena'[e].frame.parent = c
      BY <1>2
    <3>2. IsFrame(e) /\ e \in 1..f /\ e \in DOMAIN arena
      BY <1>2, <1>3, <2>2
    <3>3. /\ c < e /\ \A g \in DOMAIN arena : IsFrame(g) /\ g < e => g <= c
          /\ c = Calls!NULL \/ IsFrame(c)
      BY <1>1, <3>2 DEF ChainOK
    <3>4. c \in Nat /\ e \in Nat /\ e <= f
      BY <1>1, <1>2, <3>2, ArenaTypes
    <3>5. IsFrame(c) => c \in 1..f
      <4>1. IsFrame(c) => c # 0
        BY <1>1, ArenaTypes DEF IsFrame
      <4> HIDE DEF c
      <4> QED BY <1>2, <3>3, <3>4, <4>1
    <3> HIDE DEF c
    <3> QED BY <1>2, <1>3, <3>1, <3>3, <3>4, <3>5
  <2> QED BY <2>1, <2>2
<1>8. BuffersOK'
  <2> SUFFICES ASSUME NEW c \in DOMAIN arena', Buf(c)
               PROVE  /\ F(O(c)) /\ O(c) < c
                      /\ \A x \in (O(c) + 1)..c : Buf(x) /\ O(x) = O(c)
                      /\ arena'[c].frame.parent = arena'[O(c)].frame.parent
                      /\ arena'[c].frame.jmpbuf_head = arena'[c].next
                      /\ arena'[c].next = Calls!NULL \/ O(c) < arena'[c].next
                      /\ arena'[c].id < next_jmpbuf_id
                      /\ IF Buf(c + 1) THEN arena'[c + 1].next = c
                         ELSE arena'[O(c)].frame.jmpbuf_head = c
    BY DEF BuffersOK, IsFrame, Calls!IsJmpBuf, Owner
  <2> HIDE DEF F, Buf, O
  <2> DEFINE h == Owner(c)
  <2>1. Calls!IsJmpBuf(c) /\ c \in 1..f /\ c < f /\ c \in DOMAIN arena /\ arena'[c] = arena[c] /\ O(c) = h
    BY <1>2, <1>3
  <2>2. /\ IsFrame(h) /\ h < c
        /\ \A x \in (h + 1)..c : Calls!IsJmpBuf(x) /\ Owner(x) = h
        /\ arena[c].frame.parent = arena[h].frame.parent
        /\ arena[c].frame.jmpbuf_head = arena[c].next
        /\ arena[c].next = Calls!NULL \/ h < arena[c].next
        /\ arena[c].id < next_jmpbuf_id
        /\ IF Calls!IsJmpBuf(c + 1) THEN arena[c + 1].next = c
           ELSE arena[h].frame.jmpbuf_head = c
    BY <1>1, <2>1 DEF BuffersOK
  <2>3. h \in Nat /\ h # 0 /\ c \in Nat
    <3>1. h \in DOMAIN arena
      BY <2>2 DEF IsFrame
    <3> QED BY <1>1, <2>1, <3>1, ArenaTypes
  <2> HIDE DEF h
  <2>4. h \in 1..f /\ h # f /\ arena'[h] = arena[h]
    BY <1>2, <2>1, <2>2, <2>3
  <2>5. ASSUME NEW x \in (h + 1)..c PROVE Buf(x) /\ O(x) = h
    <3>1. x \in 1..f /\ x # f
      BY <1>2, <2>1, <2>3
    <3> QED BY <1>3, <2>2, <3>1
  <2>6. c + 1 \in 1..f
    BY <1>2, <2>1, <2>3
  <2>7. Buf(c + 1) <=> Calls!IsJmpBuf(c + 1)
    BY <1>3, <2>6
  <2>8. Calls!IsJmpBuf(c + 1) => arena'[c + 1] = arena[c + 1]
    BY <1>3, <2>6
  <2>9. F(h)
    BY <1>3, <2>2, <2>4
  <2> QED BY <2>1, <2>2, <2>4, <2>5, <2>7, <2>8, <2>9
<1>9. IdsOK'
  <2> SUFFICES ASSUME NEW c \in DOMAIN arena', NEW d \in DOMAIN arena', Buf(c), Buf(d),
                      arena'[c].id = arena'[d].id
               PROVE  c = d
    BY DEF IdsOK, Calls!IsJmpBuf
  <2> HIDE DEF F, Buf, O
  <2>1. c # f /\ d # f /\ Calls!IsJmpBuf(c) /\ Calls!IsJmpBuf(d)
    BY <1>3
  <2> QED BY <1>1, <1>2, <2>1 DEF IdsOK
<1>10. PendingOK'
  <2> SUFFICES ASSUME NEW s \in pending, s.frame <= f
               PROVE  /\ F(s.frame) /\ s.id < next_jmpbuf_id
                      /\ \A c \in DOMAIN arena' : Buf(c) /\ arena'[c].id = s.id => O(c) = s.frame
                      /\ s.frame \notin spoiled' =>
                           \E c \in DOMAIN arena' : Buf(c) /\ arena'[c].id = s.id
    BY DEF PendingOK, IsFrame, Calls!IsJmpBuf, Owner
  <2> HIDE DEF F, Buf, O
  <2>1. IsFrame(s.frame) /\ s.id < next_jmpbuf_id
    BY <1>1 DEF PendingOK
  <2>2. s.frame \in DOMAIN arena /\ s.frame \in Nat /\ s.frame # 0
    BY <1>1, <2>1, ArenaTypes DEF IsFrame
  <2>3. s.frame \in 1..f
    BY <1>2, <2>2
  <2>4. ASSUME NEW c \in DOMAIN arena', Buf(c), arena'[c].id = s.id PROVE O(c) = s.frame
    <3>1. c \in 1..f /\ c # f /\ Calls!IsJmpBuf(c)
      BY <1>3, <2>4
    <3>2. arena[c].id = s.id /\ O(c) = Owner(c) /\ c \in DOMAIN arena
      BY <1>2, <1>3, <2>4, <3>1
    <3> QED BY <1>1, <3>1, <3>2 DEF PendingOK
  <2>5. ASSUME s.frame \notin spoiled'
        PROVE  \E c \in DOMAIN arena' : Buf(c) /\ arena'[c].id = s.id
    <3>1. s.frame # f
      BY <2>5
    <3>2. s.frame \notin spoiled
      BY <2>3, <2>5, <3>1
    <3>3. PICK c \in DOMAIN arena : Calls!IsJmpBuf(c) /\ arena[c].id = s.id
      BY <1>1, <3>2 DEF PendingOK
    <3>4. Owner(c) = s.frame /\ \A x \in (s.frame + 1)..c : Calls!IsJmpBuf(x)
      BY <1>1, <3>3 DEF PendingOK, BuffersOK
    <3>5. f \notin (s.frame + 1)..c
      BY <3>4 DEF IsFrame, Calls!IsJmpBuf
    <3>6. c \in 1..f /\ c # f
      <4>1. c \in Nat /\ c # 0
        BY <1>1, <3>3, ArenaTypes
      <4> QED BY <1>2, <2>2, <3>1, <3>5, <4>1
    <3> QED BY <1>2, <1>3, <3>3, <3>6
  <2> QED BY <1>3, <2>1, <2>3, <2>4, <2>5
<1>11. CleanOK'
  <2> SUFFICES ASSUME NEW g \in DOMAIN arena', F(g)
               PROVE  /\ (\A s \in pending' : s.frame # g) => arena'[g].frame.jmpbuf_head = Calls!NULL
                      /\ g \notin spoiled' =>
                           IF Buf(g + 1) THEN arena'[g + 1].next = Calls!NULL
                           ELSE arena'[g].frame.jmpbuf_head = Calls!NULL
    BY DEF CleanOK, IsFrame, Calls!IsJmpBuf
  <2> HIDE DEF F, Buf, O
  <2>1. g \in 1..f /\ g \in Nat /\ g <= f /\ g \in DOMAIN arena /\ IsFrame(g)
    BY <1>2, <1>3
  <2>2. (\A s \in pending' : s.frame # g) => (\A s \in pending : s.frame # g)
    BY <2>1
  <2>3. CASE g = f
    <3>1. f + 1 \notin 1..f
      BY <1>2
    <3>2. ~Buf(f + 1)
      BY <1>3, <3>1
    <3> QED BY <2>2, <2>3, <3>2
  <2>4. CASE g # f
    <3>1. arena'[g] = arena[g] /\ g + 1 \in 1..f /\ (g \notin spoiled' => g \notin spoiled)
      BY <1>2, <2>1, <2>4
    <3>2. /\ Buf(g + 1) <=> Calls!IsJmpBuf(g + 1)
          /\ Calls!IsJmpBuf(g + 1) => arena'[g + 1] = arena[g + 1]
      BY <1>3, <3>1
    <3> QED BY <1>1, <2>1, <2>2, <3>1, <3>2 DEF CleanOK
  <2> QED BY <2>3, <2>4
<1> QED BY <1>5, <1>6, <1>7, <1>8, <1>9, <1>10, <1>11 DEF CallsInv

\* PN_OPCODE_RET.
LEMMA ReturnStep ==
  ASSUME Calls!BoundsAssumption, CallsInv, Calls!Return
  PROVE  CallsInv'
<1> DEFINE f == arena[current_frame].frame.parent
           fr == arena[f].frame
<1>1. Calls!Running /\ current_frame' = f /\ UNCHANGED next_jmpbuf_id
  BY DEF Calls!Return
<1>2. Calls!TypeOK /\ MarksOK /\ ChainOK /\ PendingOK /\ CleanOK
  BY <1>1 DEF CallsInv
<1>3. /\ IsFrame(current_frame) /\ current_frame \in DOMAIN arena /\ f < current_frame
      /\ f = Calls!NULL \/ IsFrame(f)
      /\ \A g \in DOMAIN arena : IsFrame(g) /\ g < current_frame => g <= f
      /\ \A g \in DOMAIN arena : IsFrame(g) => g <= current_frame
  BY <1>2 DEF ChainOK, IsFrame
<1>4. f \in Calls!Address /\ f \in Nat /\ current_frame \in Nat
  BY <1>2, <1>3, ArenaTypes
<1>5. spoiled' \subseteq Calls!Address /\ chunk_starts' \subseteq Calls!Address
  BY <1>2 DEF Calls!Return, Calls!ChunksTo, Calls!TypeOK
<1>6. CASE f = Calls!NULL
  <2>1. status' = "dead" /\ UNCHANGED <<arena, chunk_starts>> /\ pending' \subseteq pending
    BY <1>6 DEF Calls!Return
  <2>2. Calls!TypeOK'
    BY <1>1, <1>2, <1>4, <1>5, <2>1 DEF Calls!TypeOK
  <2>3. ~Calls!Running'
    BY <2>1 DEF Calls!Running
  <2> QED BY <2>2, <2>3 DEF CallsInv
<1>7. CASE f # Calls!NULL
  <2>1. IsFrame(f) /\ f \in DOMAIN arena
    BY <1>3, <1>7 DEF IsFrame
  <2>2. fr.mark = f /\ fr \in Calls!Frame /\ (fr.jmpbuf_head = Calls!NULL \/ f < fr.jmpbuf_head)
    BY <1>2, <2>1, ArenaTypes DEF MarksOK
  <2>3. arena' = SubSeq(arena, 1, f) /\ UNCHANGED status
    BY <1>7, <2>2 DEF Calls!Return, Calls!ResetTo
  <2> HIDE DEF f
  <2>4. arena \in Seq(Calls!Block) /\ f \in 0..Len(arena) /\ f \in 1..f
    <3>1. DOMAIN arena = 1..Len(arena) /\ Len(arena) \in Nat /\ f # 0
      BY <1>2, <2>1, ArenaTypes
    <3> QED BY <1>2, <1>4, <2>1, <3>1 DEF Calls!TypeOK
  <2>5. /\ arena' \in Seq(Calls!Block) /\ Len(arena') = f /\ \A x \in 1..f : arena'[x] = arena[x]
    BY <2>3, <2>4, SeqPrefix
  <2>6. arena'[f].kind = "frame" /\ arena'[f].frame = fr /\ fr.parent = arena[f].frame.parent
    BY <2>1, <2>4, <2>5 DEF IsFrame
  <2>7. pending' = {s \in pending : s.frame <= f}
    <3>1. pending' = {s \in pending : s.frame # current_frame}
      BY DEF Calls!Return
    <3>2. ASSUME NEW s \in pending PROVE s.frame # current_frame <=> s.frame <= f
      <4>1. IsFrame(s.frame) /\ s.frame \in DOMAIN arena
        BY <1>2 DEF PendingOK, IsFrame
      <4>2. s.frame \in Nat
        BY <1>2, <4>1, ArenaTypes
      <4>3. s.frame <= current_frame /\ (s.frame < current_frame => s.frame <= f)
        BY <1>3, <4>1
      <4> QED BY <1>3, <1>4, <4>2, <4>3
    <3> QED BY <3>1, <3>2
  <2>8. spoiled' = (spoiled \ {current_frame}) \cup {s.frame : s \in {s \in pending : s.frame = f}}
    BY DEF Calls!Return, f
  <2>9. \A g \in 1..f : g # f /\ g \notin spoiled' => g \notin spoiled
    <3>1. \A g \in 1..f : g # current_frame
      BY <1>3, <1>4
    <3> QED BY <2>8, <3>1
  <2>10. f \notin spoiled' => \A s \in pending : s.frame # f
    BY <2>8
  <2>11. (\A s \in pending : s.frame # f) => fr.jmpbuf_head = Calls!NULL
    BY <1>2, <2>1 DEF CleanOK
  <2> HIDE DEF fr
  <2> QED BY <1>1, <1>5, <2>1, <2>2, <2>3, <2>5, <2>6, <2>7, <2>9, <2>10, <2>11, CutStep
<1> QED BY <1>6, <1>7

\* "Found it": the copy that longjmp puts in place has the parent and the mark of the
\* frame, because it lands in the frame that called setjmp.
LEMMA LongjmpFoundStep ==
  ASSUME Calls!BoundsAssumption, CallsInv, NEW s \in pending, Calls!LongjmpFound(s.id)
  PROVE  CallsInv'
<1>1. Calls!Running /\ UNCHANGED <<next_jmpbuf_id, status>>
  BY DEF Calls!LongjmpFound
<1>2. PICK found \in Calls!Search(s.id) :
        /\ current_frame' = found.f
        /\ chunk_starts' = Calls!ChunksTo(arena[found.f].frame.mark)
        /\ arena' = [Calls!ResetTo(arena[found.f].frame.mark) EXCEPT
                       ![found.f].frame = arena[found.buf].frame]
        /\ pending' = {p \in pending : p.frame <= found.f}
        /\ spoiled' = {g \in spoiled : g < found.f} \cup {found.f}
  BY DEF Calls!LongjmpFound
<1>3. Calls!TypeOK /\ MarksOK /\ BuffersOK
  BY <1>1 DEF CallsInv
<1> DEFINE f == found.f
           c == found.buf
           fr == arena[c].frame
<1>4. /\ f = s.frame /\ Owner(c) = f /\ IsFrame(f) /\ f \in DOMAIN arena
      /\ c \in DOMAIN arena /\ Calls!IsJmpBuf(c)
  BY <1>1, <1>2, FoundRight DEF IsFrame
<1>5. /\ current_frame' = f
      /\ arena' = [Calls!ResetTo(arena[f].frame.mark) EXCEPT ![f].frame = fr]
      /\ pending' = {p \in pending : p.frame <= f}
      /\ spoiled' = {g \in spoiled : g < f} \cup {f}
  BY <1>2
<1> HIDE DEF f, c
<1>6. fr.mark = f /\ fr.parent = arena[f].frame.parent /\ fr \in Calls!Frame
      /\ (fr.jmpbuf_head = Calls!NULL \/ f < fr.jmpbuf_head)
  <2>1. fr \in Calls!Frame
    BY <1>3, <1>4, ArenaTypes
  <2>2. /\ arena[c].frame.parent = arena[f].frame.parent
        /\ arena[c].frame.jmpbuf_head = arena[c].next
        /\ arena[c].next = Calls!NULL \/ f < arena[c].next
    BY <1>3, <1>4 DEF BuffersOK
  <2> QED BY <1>4, <2>1, <2>2 DEF Owner
<1> HIDE DEF fr
<1>7. arena \in Seq(Calls!Block) /\ f \in 0..Len(arena) /\ f \in 1..f /\ f \in Nat /\ f \in Calls!Address
  <2>1. /\ DOMAIN arena = 1..Len(arena) /\ Len(arena) \in Nat /\ f # 0 /\ f \in Nat
        /\ DOMAIN arena \subseteq Calls!Address
    BY <1>3, <1>4, ArenaTypes
  <2> QED BY <1>3, <1>4, <2>1 DEF Calls!TypeOK
<1> DEFINE a == SubSeq(arena, 1, f)
           e == [a[f] EXCEPT !.frame = fr]
<1>8. arena' = [a EXCEPT ![f] = e]
  <2>1. arena[f].frame.mark = f
    BY <1>3, <1>4 DEF MarksOK
  <2> QED BY <1>5, <2>1 DEF Calls!ResetTo
<1>9. a \in Seq(Calls!Block) /\ Len(a) = f /\ DOMAIN a = 1..f /\ \A x \in 1..f : a[x] = arena[x]
  BY <1>7, SeqPrefix
<1>10. a[f] \in Calls!Block /\ a[f].kind = "frame"
  BY <1>3, <1>4, <1>7, <1>9, ArenaTypes DEF IsFrame
<1> HIDE DEF a
<1>11. e \in Calls!Block /\ e.kind = "frame" /\ e.frame = fr
  BY <1>6, <1>10, BlockUpdate
<1> HIDE DEF e
<1>12. /\ arena' \in Seq(Calls!Block) /\ Len(arena') = f /\ arena'[f] = e
       /\ \A x \in 1..f : x # f => arena'[x] = arena[x]
  BY <1>7, <1>8, <1>9, <1>11, SeqUpdate
<1>13. arena'[f].kind = "frame" /\ arena'[f].frame = fr
  BY <1>11, <1>12
<1>14. spoiled' \subseteq Calls!Address /\ chunk_starts' \subseteq Calls!Address
  BY <1>2, <1>3, <1>5, <1>7 DEF Calls!TypeOK, Calls!ChunksTo
<1>15. \A g \in 1..f : g # f /\ g \notin spoiled' => g \notin spoiled
  BY <1>5, <1>7
<1>16. (f \notin spoiled' => \A p \in pending : p.frame # f)
       /\ ((\A p \in pending : p.frame # f) => fr.jmpbuf_head = Calls!NULL)
  BY <1>4, <1>5
<1> QED BY <1>1, <1>4, <1>5, <1>6, <1>12, <1>13, <1>14, <1>15, <1>16, CutStep

\* What lies behind the current frame are its buffers.
LEMMA BehindCurrent ==
  ASSUME Calls!BoundsAssumption, CallsInv, Calls!Running, NEW x \in DOMAIN arena, current_frame < x
  PROVE  Calls!IsJmpBuf(x) /\ Owner(x) = current_frame
<1> DEFINE h == Owner(x)
<1>1. Calls!TypeOK /\ ChainOK /\ BuffersOK
  BY DEF CallsInv
<1>2. IsFrame(current_frame) /\ current_frame \in DOMAIN arena
  BY <1>1 DEF ChainOK, IsFrame
<1>3. x \in Nat /\ current_frame \in Nat /\ arena[x].kind \in {"frame", "jmpbuf"} /\ h \in Nat
  BY <1>1, <1>2, ArenaTypes DEF Owner
<1>4. ~IsFrame(x)
  <2>1. IsFrame(x) => x <= current_frame
    BY <1>1 DEF ChainOK
  <2> QED BY <1>3, <2>1
<1>5. Calls!IsJmpBuf(x)
  BY <1>3, <1>4 DEF IsFrame, Calls!IsJmpBuf
<1>6. IsFrame(h) /\ \A y \in (h + 1)..x : Calls!IsJmpBuf(y)
  BY <1>1, <1>5 DEF BuffersOK
<1>7. h <= current_frame
  BY <1>1, <1>6 DEF ChainOK, IsFrame
<1>8. current_frame \notin (h + 1)..x
  BY <1>2, <1>6 DEF IsFrame, Calls!IsJmpBuf
<1> HIDE DEF h
<1>9. h = current_frame
  BY <1>3, <1>7, <1>8
<1> QED BY <1>5, <1>9 DEF h

\* PN_OPCODE_INTRINSIC_LLVM_NACL_SETJMP.
LEMMA SetjmpStep ==
  ASSUME Calls!BoundsAssumption, CallsInv, Calls!Setjmp
  PROVE  CallsInv'
<1> DEFINE n  == Len(arena)
           cf == current_frame
           id == next_jmpbuf_id
           fr == arena[cf].frame
           gr == [fr EXCEPT !.jmpbuf_head = n + 1]
           e  == [arena[cf] EXCEPT !.frame = gr]
           a  == [arena EXCEPT ![cf] = e]
           t  == [id |-> id, frame |-> cf]
           F(x) == x \in DOMAIN arena' /\ arena'[x].kind = "frame"
           Buf(x) == x \in DOMAIN arena' /\ arena'[x].kind = "jmpbuf"
           O(x) == arena'[x].frame.mark
<1>1. /\ Calls!Running /\ n < MaxBlocks /\ id < MaxJmpBufs /\ arena' = Append(a, Calls!NewJmpBuf)
      /\ next_jmpbuf_id' = id + 1 /\ pending' = pending \cup {t}
      /\ chunk_starts' \in {chunk_starts, chunk_starts \cup {n + 1}}
      /\ UNCHANGED <<current_frame, spoiled, status>>
  BY DEF Calls!Setjmp, Calls!Allocate
<1>2. Calls!TypeOK /\ MarksOK /\ ChainOK /\ BuffersOK /\ IdsOK /\ PendingOK /\ CleanOK
  BY <1>1 DEF CallsInv
<1>3. /\ IsFrame(cf) /\ cf \in DOMAIN arena /\ DOMAIN arena = 1..n /\ n \in Nat
      /\ cf \in Nat /\ cf # 0 /\ cf \in Calls!Address /\ cf <= n /\ MaxBlocks \in Nat
      /\ arena \in Seq(Calls!Block) /\ n + 1 \in Calls!Address /\ id \in Nat /\ id + 1 \in 0..MaxJmpBufs
  <2>1. IsFrame(cf) /\ cf \in DOMAIN arena
    BY <1>2 DEF ChainOK, IsFrame
  <2>2. /\ DOMAIN arena = 1..n /\ n \in Nat /\ cf \in Nat /\ cf # 0 /\ MaxBlocks \in Nat
        /\ cf \in Calls!Address
    BY <1>2, <2>1, ArenaTypes
  <2>3. arena \in Seq(Calls!Block) /\ id \in 0..MaxJmpBufs /\ MaxJmpBufs \in Nat
    BY <1>2 DEF Calls!TypeOK, Calls!BoundsAssumption
  <2> QED BY <1>1, <2>1, <2>2, <2>3 DEF Calls!Address
<1>4. fr \in Calls!Frame /\ arena[cf] \in Calls!Block /\ arena[cf].kind = "frame" /\ fr.mark = cf
      /\ fr.jmpbuf_head \in Calls!Address /\ (fr.jmpbuf_head = Calls!NULL \/ cf < fr.jmpbuf_head)
  BY <1>2, <1>3, ArenaTypes DEF IsFrame, MarksOK
<1>5. Calls!NewJmpBuf = [kind |-> "jmpbuf", id |-> id, frame |-> fr, next |-> fr.jmpbuf_head]
  BY DEF Calls!NewJmpBuf
<1> HIDE DEF fr, n
<1>6. Calls!NewJmpBuf \in Calls!Block /\ Calls!NewJmpBuf.kind = "jmpbuf" /\ Calls!NewJmpBuf.id = id
      /\ Calls!NewJmpBuf.frame = fr /\ Calls!NewJmpBuf.next = fr.jmpbuf_head
  <2>1. Calls!NewJmpBuf.kind = "jmpbuf" /\ Calls!NewJmpBuf.id = id
        /\ Calls!NewJmpBuf.frame = fr /\ Calls!NewJmpBuf.next = fr.jmpbuf_head
    BY <1>5
  <2>2. Calls!NewJmpBuf \in Calls!Block
    BY <1>3, <1>4, <1>5 DEF Calls!Block
  <2> QED BY <2>1, <2>2
<1>7. gr \in Calls!Frame /\ gr.parent = fr.parent /\ gr.mark = cf /\ gr.jmpbuf_head = n + 1
  BY <1>3, <1>4, FrameFields
<1> HIDE DEF gr
<1>8. e \in Calls!Block /\ e.kind = "frame" /\ e.frame = gr
  BY <1>4, <1>7, BlockUpdate
<1> HIDE DEF e
<1>9. /\ a \in Seq(Calls!Block) /\ Len(a) = n /\ a[cf] = e
      /\ \A x \in 1..n : x # cf => a[x] = arena[x]
  BY <1>3, <1>8, SeqUpdate DEF n
<1> HIDE DEF a
<1>10. /\ arena' \in Seq(Calls!Block) /\ Len(arena') = n + 1 /\ DOMAIN arena' = 1..(n + 1)
       /\ arena'[n + 1] = Calls!NewJmpBuf /\ \A x \in 1..n : arena'[x] = a[x]
  BY <1>1, <1>6, <1>9, SeqAppend
<1>11. /\ arena'[cf] = e /\ \A x \in 1..n : x # cf => arena'[x] = arena[x]
       /\ \A x \in DOMAIN arena' : x \in 1..n \/ x = n + 1
       /\ \A x \in 1..n : x \in Nat /\ x # n + 1 /\ x < n + 1 /\ x \in DOMAIN arena'
       /\ n + 1 \in DOMAIN arena' /\ cf # n + 1
  BY <1>3, <1>9, <1>10
<1>12. /\ \A x : F(x) <=> IsFrame(x)
       /\ \A x : Buf(x) <=> Calls!IsJmpBuf(x) \/ x = n + 1
       /\ \A x : IsFrame(x) \/ Calls!IsJmpBuf(x) => x \in 1..n
       /\ \A x \in 1..n : Calls!IsJmpBuf(x) => O(x) = Owner(x) /\ arena'[x] = arena[x] /\ x # cf
       /\ O(n + 1) = cf
  BY <1>3, <1>4, <1>6, <1>8, <1>10, <1>11 DEF IsFrame, Calls!IsJmpBuf, Owner
<1>13. \A x \in 1..n : cf < x => Calls!IsJmpBuf(x) /\ Owner(x) = cf
  BY <1>1, <1>3, BehindCurrent
<1>14. Calls!TypeOK'
  <2>1. pending' \subseteq [id : Nat, frame : Calls!Address]
    BY <1>1, <1>2, <1>3 DEF Calls!TypeOK
  <2> HIDE DEF t
  <2> QED BY <1>1, <1>2, <1>3, <1>10, <2>1 DEF Calls!TypeOK
<1> HIDE DEF t
<1>15. t.id = id /\ t.frame = cf
  BY DEF t
<1>16. MarksOK'
  <2> SUFFICES ASSUME NEW f \in DOMAIN arena', F(f)
               PROVE  /\ arena'[f].frame.mark = f
                      /\ arena'[f].frame.jmpbuf_head = Calls!NULL \/ f < arena'[f].frame.jmpbuf_head
    BY DEF MarksOK, IsFrame
  <2> HIDE DEF F, Buf, O, cf
  <2>1. CASE f = cf
    BY <1>3, <1>7, <1>8, <1>11, <2>1
  <2>2. CASE f # cf
    BY <1>2, <1>3, <1>11, <1>12, <2>2 DEF MarksOK
  <2> QED BY <2>1, <2>2
<1>17. ChainOK'
  <2> SUFFICES /\ F(cf)
               /\ \A f \in DOMAIN arena' : F(f) =>
                    /\ f <= cf /\ arena'[f].frame.parent < f
                    /\ arena'[f].frame.parent = Calls!NULL \/ F(arena'[f].frame.parent)
                    /\ \A g \in DOMAIN arena' : F(g) /\ g < f => g <= arena'[f].frame.parent
    BY <1>1 DEF ChainOK, IsFrame
  <2> HIDE DEF F, Buf, O
  <2>1. ASSUME NEW f \in DOMAIN arena', F(f)
        PROVE  IsFrame(f) /\ f \in DOMAIN arena /\ arena'[f].frame.parent = arena[f].frame.parent
    <3>1. IsFrame(f) /\ f \in DOMAIN arena
      BY <1>3, <1>12, <2>1
    <3>2. CASE f = cf
      BY <1>7, <1>8, <1>11, <3>1, <3>2 DEF fr
    <3>3. CASE f # cf
      BY <1>3, <1>11, <3>1, <3>3
    <3> QED BY <3>1, <3>2, <3>3
  <2> QED BY <1>2, <1>3, <1>12, <2>1 DEF ChainOK
<1>18. BuffersOK'
  <2> SUFFICES ASSUME NEW c \in DOMAIN arena', Buf(c)
               PROVE  /\ F(O(c)) /\ O(c) < c
                      /\ \A x \in (O(c) + 1)..c : Buf(x) /\ O(x) = O(c)
                      /\ arena'[c].frame.parent = arena'[O(c)].frame.parent
                      /\ arena'[c].frame.jmpbuf_head = arena'[c].next
                      /\ arena'[c].next = Calls!NULL \/ O(c) < arena'[c].next
                      /\ arena'[c].id < next_jmpbuf_id'
                      /\ IF Buf(c + 1) THEN arena'[c + 1].next = c
                         ELSE arena'[O(c)].frame.jmpbuf_head = c
    BY DEF BuffersOK, IsFrame, Calls!IsJmpBuf, Owner
  <2> HIDE DEF F, Buf, O, cf, id
  <2>1. CASE c = n + 1
    <3>1. O(c) = cf /\ F(cf) /\ cf < c
      BY <1>3, <1>12, <2>1
    <3>2. ASSUME NEW x \in (cf + 1)..(n + 1) PROVE Buf(x) /\ O(x) = cf
      <4>1. CASE x = n + 1
        BY <1>12, <4>1
      <4>2. CASE x # n + 1
        <5>1. x \in 1..n /\ cf < x
          BY <1>3, <4>2
        <5> QED BY <1>12, <1>13, <5>1
      <4> QED BY <4>1, <4>2
    <3>3. ~Buf(c + 1)
      <4>1. n + 2 \notin DOMAIN arena' /\ c + 1 = n + 2
        BY <1>3, <1>10, <2>1
      <4> QED BY <4>1 DEF Buf
    <3>4. /\ arena'[c].frame.parent = arena'[cf].frame.parent
          /\ arena'[c].frame.jmpbuf_head = arena'[c].next
          /\ arena'[c].next = Calls!NULL \/ cf < arena'[c].next
          /\ arena'[c].id = id /\ arena'[cf].frame.jmpbuf_head = c
      BY <1>4, <1>6, <1>7, <1>8, <1>10, <1>11, <2>1
    <3>5. arena'[c].id < next_jmpbuf_id'
      BY <1>1, <1>3, <3>4
    <3> QED BY <2>1, <3>1, <3>2, <3>3, <3>4, <3>5
  <2>2. CASE c # n + 1
    <3> DEFINE h == Owner(c)
    <3>1. /\ Calls!IsJmpBuf(c) /\ c \in 1..n /\ O(c) = h /\ arena'[c] = arena[c] /\ c \in Nat
          /\ c \in DOMAIN arena
      BY <1>3, <1>11, <1>12, <2>2
    <3>2. /\ IsFrame(h) /\ h < c
          /\ \A x \in (h + 1)..c : Calls!IsJmpBuf(x) /\ Owner(x) = h
          /\ arena[c].frame.parent = arena[h].frame.parent
          /\ arena[c].frame.jmpbuf_head = arena[c].next
          /\ arena[c].next = Calls!NULL \/ h < arena[c].next
          /\ arena[c].id < id
          /\ IF Calls!IsJmpBuf(c + 1) THEN arena[c + 1].next = c
             ELSE arena[h].frame.jmpbuf_head = c
      BY <1>2, <3>1 DEF BuffersOK, id
    <3>3. h \in 1..n /\ h \in Nat /\ h \in DOMAIN arena
      BY <1>3, <1>11, <1>12, <3>2
    <3>4. arena[c].id \in Nat
      BY <1>2, <3>1, ArenaTypes DEF Calls!IsJmpBuf
    <3> HIDE DEF h
    <3>5. \A x \in (h + 1)..c : Buf(x) /\ O(x) = h
      BY <1>12, <3>2
    <3>6. arena'[h].frame.parent = arena[h].frame.parent
      BY <1>7, <1>8, <1>11, <3>3 DEF fr
    <3>7. arena'[c].id < next_jmpbuf_id'
      BY <1>1, <1>3, <3>1, <3>2, <3>4
    <3>8. IF Buf(c + 1) THEN arena'[c + 1].next = c ELSE arena'[h].frame.jmpbuf_head = c
      <4>1. CASE c = n
        <5>1. c + 1 = n + 1 /\ Buf(c + 1) /\ ~Calls!IsJmpBuf(c + 1)
          BY <1>11, <1>12, <4>1
        <5>2. cf < c
          BY <1>3, <1>12, <3>1, <4>1
        <5>3. h = cf
          BY <1>13, <3>1, <5>2 DEF h
        <5>4. fr.jmpbuf_head = c
          BY <3>2, <5>1, <5>3 DEF fr
        <5> QED BY <1>6, <1>10, <5>1, <5>4
      <4>2. CASE c # n /\ Calls!IsJmpBuf(c + 1)
        <5>1. Buf(c + 1) /\ arena'[c + 1] = arena[c + 1]
          BY <1>12, <4>2
        <5> QED BY <3>2, <4>2, <5>1
      <4>3. CASE c # n /\ ~Calls!IsJmpBuf(c + 1)
        <5>1. c + 1 \in 1..n
          BY <1>3, <3>1, <4>3
        <5>2. ~Buf(c + 1)
          BY <1>11, <1>12, <4>3, <5>1
        <5>3. ~(cf < c + 1)
          BY <1>13, <4>3, <5>1
        <5>4. h # cf
          BY <1>3, <3>1, <3>2, <3>3, <5>3
        <5> QED BY <1>11, <3>2, <3>3, <4>3, <5>2, <5>4
      <4> QED BY <4>1, <4>2, <4>3
    <3>9. F(h)
      BY <1>12, <3>2
    <3> QED BY <3>1, <3>2, <3>5, <3>6, <3>7, <3>8, <3>9
  <2> QED BY <2>1, <2>2
<1>19. \A c \in DOMAIN arena : Calls!IsJmpBuf(c) => arena[c].id \in Nat /\ arena[c].id < id
  BY <1>2, ArenaTypes DEF BuffersOK, Calls!IsJmpBuf
<1>20. IdsOK'
  <2> SUFFICES ASSUME NEW c \in DOMAIN arena', NEW d \in DOMAIN arena', Buf(c), Buf(d),
                      arena'[c].id = arena'[d].id
               PROVE  c = d
    BY DEF IdsOK, Calls!IsJmpBuf
  <2> HIDE DEF F, Buf, O, id
  <2>1. arena'[n + 1].id = id
    BY <1>6, <1>10
  <2>2. \A x \in DOMAIN arena' : Buf(x) /\ x # n + 1 =>
          Calls!IsJmpBuf(x) /\ x \in DOMAIN arena /\ arena'[x] = arena[x] /\ arena'[x].id # id
    BY <1>3, <1>12, <1>19
  <2> QED BY <1>2, <2>1, <2>2 DEF IdsOK
<1>21. PendingOK'
  <2> SUFFICES ASSUME NEW s \in pending'
               PROVE  /\ F(s.frame) /\ s.id < id + 1
                      /\ \A c \in DOMAIN arena' : Buf(c) /\ arena'[c].id = s.id => O(c) = s.frame
                      /\ s.frame \notin spoiled =>
                           \E c \in DOMAIN arena' : Buf(c) /\ arena'[c].id = s.id
    BY <1>1 DEF PendingOK, IsFrame, Calls!IsJmpBuf, Owner
  <2> HIDE DEF F, Buf, O, id, cf
  <2>1. Buf(n + 1) /\ arena'[n + 1].id = id /\ O(n + 1) = cf
    BY <1>6, <1>10, <1>12
  <2>2. ASSUME NEW c \in DOMAIN arena', Buf(c), c # n + 1
        PROVE  Calls!IsJmpBuf(c) /\ c \in DOMAIN arena /\ O(c) = Owner(c)
               /\ arena'[c].id = arena[c].id /\ arena'[c].id # id
    BY <1>3, <1>12, <1>19, <2>2
  <2>3. CASE s = t
    <3>1. s.id = id /\ s.frame = cf
      BY <1>15, <2>3
    <3>2. F(cf) /\ id < id + 1
      BY <1>3, <1>12
    <3> QED BY <1>11, <2>1, <2>2, <3>1, <3>2
  <2>4. CASE s \in pending
    <3>1. /\ IsFrame(s.frame) /\ s.id < id
          /\ \A c \in DOMAIN arena : Calls!IsJmpBuf(c) /\ arena[c].id = s.id => Owner(c) = s.frame
          /\ s.frame \notin spoiled => \E c \in DOMAIN arena : Calls!IsJmpBuf(c) /\ arena[c].id = s.id
      BY <1>2, <2>4 DEF PendingOK, id
    <3>2. s.id \in Nat
      BY <1>2, <2>4 DEF Calls!TypeOK
    <3>3. s.id # id /\ s.id < id + 1
      BY <1>3, <3>1, <3>2
    <3>4. \A c \in DOMAIN arena' : Buf(c) /\ arena'[c].id = s.id => O(c) = s.frame
      BY <2>1, <2>2, <3>1, <3>3
    <3>5. \A c \in DOMAIN arena : Calls!IsJmpBuf(c) =>
            c \in DOMAIN arena' /\ Buf(c) /\ arena'[c].id = arena[c].id
      BY <1>3, <1>11, <1>12
    <3> QED BY <1>12, <3>1, <3>3, <3>4, <3>5
  <2> QED BY <1>1, <2>3, <2>4
<1>22. CleanOK'
  <2> SUFFICES ASSUME NEW f \in DOMAIN arena', F(f)
               PROVE  /\ (\A s \in pending' : s.frame # f) => arena'[f].frame.jmpbuf_head = Calls!NULL
                      /\ f \notin spoiled =>
                           IF Buf(f + 1) THEN arena'[f + 1].next = Calls!NULL
                           ELSE arena'[f].frame.jmpbuf_head = Calls!NULL
    BY <1>1 DEF CleanOK, IsFrame, Calls!IsJmpBuf
  <2> HIDE DEF F, Buf, O, cf, id
  <2>1. IsFrame(f) /\ f \in 1..n /\ f \in Nat /\ f \in DOMAIN arena
    BY <1>3, <1>11, <1>12
  <2>2. f \notin spoiled => IF Calls!IsJmpBuf(f + 1) THEN arena[f + 1].next = Calls!NULL
                            ELSE arena[f].frame.jmpbuf_head = Calls!NULL
    BY <1>2, <2>1 DEF CleanOK
  <2>3. CASE f = cf
    <3>1. ~(\A s \in pending' : s.frame # f)
      BY <1>1, <1>15, <2>3
    <3>2. Buf(f + 1)
      <4>1. f + 1 = n + 1 \/ f + 1 \in 1..n
        BY <1>3, <2>1
      <4>2. f + 1 \in 1..n => cf < f + 1
        BY <2>1, <2>3
      <4> QED BY <1>12, <1>13, <4>1, <4>2
    <3>3. CASE f = n
      <4>1. ~Calls!IsJmpBuf(f + 1) /\ f + 1 = n + 1
        BY <1>11, <1>12, <3>3
      <4>2. f \notin spoiled => arena'[f + 1].next = Calls!NULL
        BY <1>6, <1>10, <2>2, <2>3, <4>1 DEF fr
      <4> QED BY <3>1, <3>2, <4>2
    <3>4. CASE f # n
      <4>1. f + 1 \in 1..n /\ cf < f + 1
        BY <1>3, <2>1, <2>3, <3>4
      <4>2. Calls!IsJmpBuf(f + 1) /\ arena'[f + 1] = arena[f + 1]
        BY <1>12, <1>13, <4>1
      <4> QED BY <2>2, <3>1, <3>2, <4>2
    <3> QED BY <3>3, <3>4
  <2>4. CASE f # cf
    <3>1. arena'[f] = arena[f]
      BY <1>11, <2>1, <2>4
    <3>2. f < cf /\ f + 1 # n + 1
      <4>1. f <= cf
        BY <1>2, <2>1 DEF ChainOK, cf
      <4> QED BY <1>3, <2>1, <2>4, <4>1
    <3>3. /\ Buf(f + 1) <=> Calls!IsJmpBuf(f + 1)
          /\ Calls!IsJmpBuf(f + 1) => arena'[f + 1] = arena[f + 1]
      BY <1>12, <3>2
    <3>4. (\A s \in pending' : s.frame # f) => (\A s \in pending : s.frame # f)
      BY <1>1
    <3> QED BY <1>2, <2>1, <2>2, <3>1, <3>3, <3>4 DEF CleanOK
  <2> QED BY <2>3, <2>4
<1> QED BY <1>14, <1>16, <1>17, <1>18, <1>20, <1>21, <1>22 DEF CallsInv

\* Every instruction preserves the invariant; a longjmp that finds nothing or reads what
\* is no longer a buffer stops the thread.
LEMMA CallsKeep ==
  ASSUME Calls!BoundsAssumption, CallsInv, [Calls!Next]_(Calls!vars)
  PROVE  CallsInv'
<1>1. CASE Calls!PushFunction
  BY <1>1, PushFunctionStep
<1>2. CASE Calls!Return
  BY <1>2, ReturnStep
<1>3. CASE Calls!Setjmp
  BY <1>3, SetjmpStep
<1>4. CASE \E s \in pending : Calls!LongjmpFound(s.id)
  BY <1>4, LongjmpFoundStep
<1>5. CASE \E s \in pending : Calls!LongjmpFatal(s.id)
  <2>1. /\ status' = "fatal"
        /\ UNCHANGED <<arena, chunk_starts, current_frame, next_jmpbuf_id, pending, spoiled>>
    BY <1>5 DEF Calls!LongjmpFatal
  <2> QED BY <2>1 DEF CallsInv, Calls!TypeOK, Calls!Running
<1>6. CASE \E s \in pending : Calls!LongjmpUndefined(s.id) \/ Calls!LongjmpFreed(s.id)
  <2>1. /\ status' = "undefined"
        /\ UNCHANGED <<arena, chunk_starts, current_frame, next_jmpbuf_id, pending, spoiled>>
    BY <1>6 DEF Calls!LongjmpUndefined, Calls!LongjmpFreed
  <2> QED BY <2>1 DEF CallsInv, Calls!TypeOK, Calls!Running
<1>7. CASE Calls!Stopped \/ UNCHANGED Calls!vars
  <2>1. UNCHANGED <<arena, chunk_starts, current_frame, next_jmpbuf_id, pending, spoiled, status>>
    BY <1>7 DEF Calls!Stopped, Calls!vars
  <2>2. Calls!TypeOK'
    BY <2>1 DEF CallsInv, Calls!TypeOK
  <2>3. CASE Calls!Running
    <3>1. MarksOK /\ ChainOK /\ BuffersOK /\ IdsOK /\ PendingOK /\ CleanOK
      BY <2>3 DEF CallsInv
    <3>2. MarksOK' /\ ChainOK'
      BY <2>1, <3>1 DEF MarksOK, ChainOK, IsFrame
    <3>3. BuffersOK' /\ IdsOK'
      BY <2>1, <3>1 DEF BuffersOK, IdsOK, IsFrame, Calls!IsJmpBuf, Owner
    <3>4. PendingOK' /\ CleanOK'
      BY <2>1, <3>1 DEF PendingOK, CleanOK, IsFrame, Calls!IsJmpBuf, Owner
    <3> QED BY <2>2, <3>2, <3>3, <3>4 DEF CallsInv
  <2>4. CASE ~Calls!Running
    BY <2>1, <2>2, <2>4 DEF CallsInv, Calls!Running
  <2> QED BY <2>3, <2>4
<1> QED BY <1>1, <1>2, <1>3, <1>4, <1>5, <1>6, <1>7 DEF Calls!Next

\* The invariant holds of a thread.
LEMMA CallStackInvariant ==
  ASSUME Calls!BoundsAssumption
  PROVE  Calls!Spec => []CallsInv
<1>1. Calls!Init => CallsInv
  BY CallsInitially
<1>2. CallsInv /\ [Calls!Next]_(Calls!vars) => CallsInv'
  BY CallsKeep
<1> QED BY <1>1, <1>2, PTL DEF Calls!Spec

\* The blocks of the arena, the ids and the lists keep their types.
THEOREM CallStackTypes ==
  ASSUME Calls!BoundsAssumption
  PROVE  Calls!Spec => []Calls!TypeOK
<1>1. CallsInv => Calls!TypeOK
  BY DEF CallsInv
<1> QED BY <1>1, CallStackInvariant, PTL

\* Whatever is called, returned from and jumped out of, every frame of the stack is in
\* memory that is still allocated, and a reset to its mark gives up only its callees.
THEOREM StackAllocated ==
  ASSUME Calls!BoundsAssumption
  PROVE  Calls!Spec => []Calls!FramesAllocated
<1>1. ASSUME CallsInv PROVE Calls!FramesAllocated
  <2> SUFFICES ASSUME Calls!Running
               PROVE  /\ current_frame # Calls!NULL
                      /\ \A f \in Calls!Stack :
                           /\ f \in DOMAIN arena /\ arena[f].kind = "frame"
                           /\ arena[f].frame.parent < f
                           /\ arena[f].frame.mark \in f..Len(arena)
                           /\ \A g \in Calls!Stack : g > f => arena[f].frame.mark < g
    BY DEF Calls!FramesAllocated
  <2>1. Calls!TypeOK /\ MarksOK /\ ChainOK
    BY <1>1 DEF CallsInv
  <2>2. Calls!Stack = {f \in DOMAIN arena : IsFrame(f)}
    BY <1>1, StackIsFrames
  <2>3. DOMAIN arena = 1..Len(arena) /\ Len(arena) \in Nat
    BY <2>1, ArenaTypes
  <2>4. current_frame # Calls!NULL
    BY <2>1, <2>3 DEF ChainOK, IsFrame, Calls!NULL
  <2>5. ASSUME NEW f \in Calls!Stack
        PROVE  /\ f \in DOMAIN arena /\ arena[f].kind = "frame"
               /\ arena[f].frame.parent < f
               /\ arena[f].frame.mark \in f..Len(arena)
               /\ \A g \in Calls!Stack : g > f => arena[f].frame.mark < g
    <3>1. f \in DOMAIN arena /\ IsFrame(f)
      BY <2>2
    <3>2. arena[f].frame.mark = f /\ arena[f].frame.parent < f
      BY <2>1, <3>1 DEF MarksOK, ChainOK
    <3>3. f \in f..Len(arena)
      BY <2>3, <3>1
    <3>4. \A g \in Calls!Stack : g > f => f < g
      BY <2>2, <2>3, <3>1
    <3> QED BY <3>1, <3>2, <3>3, <3>4 DEF IsFrame
  <2> QED BY <2>4, <2>5
<1> QED BY <1>1, CallStackInvariant, PTL

\* A longjmp that is found lands in the frame that called setjmp, although the lists of
\* frames that were returned to lead to buffers of others; it is found as long as no frame
\* of the stack was returned or jumped to after its setjmps, and not refused unless its own
\* frame was.
THEOREM LongjmpLands ==
  ASSUME Calls!BoundsAssumption
  PROVE  Calls!Spec => []Calls!LongjmpLandsRight
<1>1. ASSUME CallsInv PROVE Calls!LongjmpLandsRight
  <2> SUFFICES ASSUME Calls!Running, NEW s \in pending
               PROVE  /\ \A found \in Calls!Search(s.id) :
                           /\ found.f = s.frame
                           /\ arena[found.buf].frame.parent = arena[s.frame].frame.parent
                      /\ spoiled \cap Calls!Stack = {} => Calls!Search(s.id) # {}
                      /\ s.frame \notin spoiled => ~Calls!SearchFails(s.id)
    BY DEF Calls!LongjmpLandsRight
  <2>1. BuffersOK
    BY <1>1 DEF CallsInv
  <2>2. ASSUME NEW found \in Calls!Search(s.id)
        PROVE  /\ found.f = s.frame
               /\ arena[found.buf].frame.parent = arena[s.frame].frame.parent
    <3>1. /\ found.f = s.frame /\ Owner(found.buf) = s.frame
          /\ found.buf \in DOMAIN arena /\ Calls!IsJmpBuf(found.buf)
      BY <1>1, FoundRight
    <3> QED BY <2>1, <3>1 DEF BuffersOK
  <2>3. spoiled \cap Calls!Stack = {} => Calls!Search(s.id) # {}
    BY <1>1, PendingFound
  <2>4. s.frame \notin spoiled => ~Calls!SearchFails(s.id)
    BY <1>1, PendingNotRefused
  <2> QED BY <2>2, <2>3, <2>4
<1> QED BY <1>1, CallStackInvariant, PTL

-----------------------------------------------------------------------------
(* HeapStack.                                                               *)

\* The operators of FiniteSetsExt are the same in the instances.
LEMMA GuestMinMax == \A S : Guest!Min(S) = Min(S) /\ Guest!Max(S) = Max(S)
BY DEF Guest!Min, Guest!Max, Min, Max

\* A saved stack top is at or above the stack of the frame that saved it, so that
\* restoring it can only give memory back, unless an alloca has wrapped.
SavedAbove ==
  ~wrapped =>
    \A i \in DOMAIN frames : \A v \in frames[i].saved : frames[i].memory_stack_top <= v

\* The inductive invariant: no frame can be brought back (Return, Stackrestore) to a
\* top that mmap has passed, and no bit is set where the next mmap extends the heap.
GuestInv ==
  /\ Guest!TypeOK /\ Guest!PagesHeldOnce /\ Guest!MappedBelowEnd
  /\ Guest!HeapBelowStack /\ Guest!FramesNested /\ SavedAbove

FrameData == [memory_stack_top : Guest!Tops, saved : SUBSET Guest!Tops]

-----------------------------------------------------------------------------
(* Pages and lengths.                                                       *)

\* The pages of a rounded length, and the page at which an address in memory is.
LEMMA PageCount ==
  ASSUME Guest!LayoutAssumption, NEW len \in Nat
  PROVE  /\ Guest!AlignUp(len, PageSize) \in Nat /\ len <= Guest!AlignUp(len, PageSize)
         /\ Guest!AlignUp(len, PageSize) % PageSize = 0
         /\ Guest!AlignUp(len, PageSize) \div PageSize \in Nat
         /\ Guest!AlignUp(len, PageSize) \div PageSize = (len + PageSize - 1) \div PageSize
<1>1. PageSize \in Nat /\ PageSize # 0
  BY DEF Guest!LayoutAssumption
<1>2. Guest!AlignUp(len, PageSize) = ((len + PageSize - 1) \div PageSize) * PageSize
  BY DEF Guest!AlignUp, Guest!AlignDown
<1>3. len + PageSize - 1 \in Nat
  BY <1>1
<1>4. (len + PageSize - 1) \div PageSize \in Nat
  BY <1>1, <1>3, DivMod
<1> QED BY <1>1, <1>2, <1>4, RoundUp

\* heap_end is at a page between the first of the heap and the last of memory.
LEMMA LastPage ==
  ASSUME Guest!LayoutAssumption, Guest!TypeOK
  PROVE  /\ Guest!first_page \in Nat /\ Guest!last_page \in Nat /\ Guest!first_page <= Guest!last_page
         /\ GuestSize \div PageSize \in Nat /\ Guest!last_page <= GuestSize \div PageSize
<1>1. /\ PageSize \in Nat /\ PageSize # 0 /\ HeapStart \in Nat /\ GuestSize \in Nat
      /\ heap_end \in Nat /\ HeapStart <= heap_end /\ heap_end <= GuestSize
  BY DEF Guest!LayoutAssumption, Guest!TypeOK
<1>2. HeapStart \div PageSize \in Nat /\ heap_end \div PageSize \in Nat
      /\ GuestSize \div PageSize \in Nat
  BY <1>1, DivMod
<1>3. HeapStart \div PageSize <= heap_end \div PageSize
      /\ heap_end \div PageSize <= GuestSize \div PageSize
  BY <1>1, DivMono
<1> QED BY <1>2, <1>3 DEF Guest!first_page, Guest!last_page

\* A page is touched by a range exactly if it lies between the page of the first byte
\* and the rounded end: munmap clears the bits of all of them and of no other.
LEMMA UnmappedIsTouched ==
  ASSUME Guest!LayoutAssumption, Guest!TypeOK, NEW addr_p \in Nat, NEW len \in Nat, len # 0
  PROVE  Guest!Unmapped(addr_p, len) = Guest!Touched(addr_p, len)
<1> DEFINE begin == addr_p \div PageSize
           end   == Guest!AlignUp(addr_p + len, PageSize) \div PageSize
<1>1. PageSize \in Nat /\ PageSize # 0
  BY DEF Guest!LayoutAssumption
<1>2. /\ Guest!first_page \in Nat /\ Guest!last_page \in Nat /\ Guest!first_page <= Guest!last_page
      /\ GuestSize \div PageSize \in Nat /\ Guest!last_page <= GuestSize \div PageSize
  BY LastPage
<1>3. begin \in Nat /\ end \in Nat
      /\ end = (addr_p + len + PageSize - 1) \div PageSize
  <2>1. addr_p + len \in Nat
    OBVIOUS
  <2> QED BY <1>1, <2>1, DivMod, PageCount
<1>4. ASSUME NEW p \in Nat
      PROVE  /\ begin <= p <=> addr_p < PageSize * p + PageSize
             /\ p < end <=> PageSize * p < addr_p + len
  <2>1. p + 1 \in Nat /\ PageSize * (p + 1) = PageSize * p + PageSize
        /\ PageSize * p \in Nat
    BY <1>1
  <2>2. p + 1 <= begin <=> PageSize * (p + 1) <= addr_p
    BY <1>1, <2>1, DivAtLeast
  <2>3. addr_p + len + PageSize - 1 \in Nat
    BY <1>1
  <2>4. p + 1 <= end <=> PageSize * (p + 1) <= addr_p + len + PageSize - 1
    BY <1>1, <1>3, <2>1, <2>3, DivAtLeast
  <2> HIDE DEF begin, end
  <2> QED BY <1>1, <1>3, <2>1, <2>2, <2>4
<1>5. Guest!Unmapped(addr_p, len) = {p \in Nat : Guest!first_page <= p /\ p < Guest!last_page
                                                 /\ begin <= p /\ p < end}
  <2>1. Guest!Unmapped(addr_p, len) = Guest!Max({begin, Guest!first_page})..(Guest!Min({end, Guest!last_page}) - 1)
    BY DEF Guest!Unmapped
  <2> HIDE DEF begin, end
  <2>2. /\ Guest!Max({begin, Guest!first_page}) = IF begin <= Guest!first_page THEN Guest!first_page ELSE begin
        /\ Guest!Min({end, Guest!last_page}) = IF end <= Guest!last_page THEN end ELSE Guest!last_page
    <3>1. begin \in Int /\ Guest!first_page \in Int /\ end \in Int /\ Guest!last_page \in Int
      BY <1>2, <1>3
    <3> QED BY <3>1, MinMaxOfTwo, GuestMinMax, Zenon
  <2> DEFINE lo == Guest!Max({begin, Guest!first_page})
             hi == Guest!Min({end, Guest!last_page})
  <2>3. lo \in Nat /\ hi \in Nat
    BY <1>2, <1>3, <2>2
  <2>4. ASSUME NEW p \in Nat
        PROVE  (lo <= p /\ p < hi) <=> (/\ Guest!first_page <= p /\ p < Guest!last_page
                                       /\ begin <= p /\ p < end)
    BY <1>2, <1>3, <2>2
  <2>5. Guest!Unmapped(addr_p, len) = lo..(hi - 1)
    BY <2>1
  <2> HIDE DEF lo, hi
  <2>6. lo..(hi - 1) = {p \in Nat : lo <= p /\ p < hi}
    BY <2>3
  <2> QED BY <2>4, <2>5, <2>6
<1> HIDE DEF begin, end
<1>6. ASSUME NEW p \in Nat, Guest!first_page <= p, p < Guest!last_page
      PROVE  (begin <= p /\ p < end)
               <=> \E b \in addr_p..(addr_p + len - 1) : b \div PageSize = p
  <2>1. PageSize * p \in Nat
    BY <1>1
  <2>2. ASSUME begin <= p, p < end
        PROVE  \E b \in addr_p..(addr_p + len - 1) : b \div PageSize = p
    <3> DEFINE b == IF addr_p <= PageSize * p THEN PageSize * p ELSE addr_p
    <3>1. addr_p < PageSize * p + PageSize /\ PageSize * p < addr_p + len
      BY <1>4, <2>2
    <3>2. b \in addr_p..(addr_p + len - 1) /\ b \in Nat
          /\ PageSize * p <= b /\ b < PageSize * p + PageSize
      BY <1>1, <2>1, <3>1
    <3> HIDE DEF b
    <3>3. b \div PageSize = p
      BY <1>1, <3>2, DivUnique
    <3> QED BY <3>2, <3>3
  <2>3. ASSUME NEW b \in addr_p..(addr_p + len - 1), b \div PageSize = p
        PROVE  begin <= p /\ p < end
    <3>1. b \in Nat /\ addr_p <= b /\ b < addr_p + len
      OBVIOUS
    <3>2. b % PageSize \in 0..(PageSize - 1) /\ b = PageSize * p + (b % PageSize)
      BY <1>1, <2>3, <3>1, DivMod
    <3>3. addr_p < PageSize * p + PageSize /\ PageSize * p < addr_p + len
      BY <1>1, <2>1, <3>1, <3>2
    <3> QED BY <1>4, <3>3
  <2> QED BY <2>2, <2>3
<1>7. \A p : p \in Guest!Touched(addr_p, len)
               <=> p \in Nat /\ Guest!first_page <= p /\ p < Guest!last_page
                     /\ \E b \in addr_p..(addr_p + len - 1) : b \div PageSize = p
  BY <1>2 DEF Guest!Touched, Guest!Pages
<1> QED BY <1>5, <1>6, <1>7

-----------------------------------------------------------------------------
(* The steps.                                                               *)

\* mmap gives out n pages from s, none of which is mapped: the bits and what the guest
\* holds still agree.
LEMMA FoundHeldOnce ==
  ASSUME Guest!LayoutAssumption, Guest!TypeOK, Guest!PagesHeldOnce,
         NEW s \in Nat, NEW n \in Nat, Guest!first_page <= s, s + n <= GuestSize \div PageSize,
         Guest!PagesFrom(s, n) \cap mapped_pages = {}, Guest!Found(s, n)
  PROVE  /\ mapped_pages' \subseteq Guest!Pages /\ owners' \in [Guest!Pages -> Nat]
         /\ Guest!PagesHeldOnce'
<1>1. Guest!first_page \in Nat /\ GuestSize \div PageSize \in Nat
  BY LastPage
<1>2. Guest!PagesFrom(s, n) \subseteq Guest!Pages /\ \A p \in Guest!PagesFrom(s, n) : Guest!first_page <= p
  BY <1>1 DEF Guest!PagesFrom, Guest!Pages
<1>3. mapped_pages' = mapped_pages \cup Guest!PagesFrom(s, n)
      /\ owners' = [p \in Guest!Pages |-> owners[p] + IF p \in Guest!PagesFrom(s, n) THEN 1 ELSE 0]
  BY DEF Guest!Found
<1>4. owners \in [Guest!Pages -> Nat] /\ mapped_pages \subseteq Guest!Pages
  BY DEF Guest!TypeOK
<1>5. owners' \in [Guest!Pages -> Nat]
  BY <1>3, <1>4
<1>6. ASSUME NEW p \in Guest!Pages
      PROVE  owners'[p] = IF p >= Guest!first_page /\ p \in mapped_pages' THEN 1 ELSE 0
  <2>1. owners[p] = IF p >= Guest!first_page /\ p \in mapped_pages THEN 1 ELSE 0
    BY DEF Guest!PagesHeldOnce
  <2>2. p \in Nat
    BY <1>1 DEF Guest!Pages
  <2>3. owners'[p] = owners[p] + IF p \in Guest!PagesFrom(s, n) THEN 1 ELSE 0
    BY <1>3
  <2> QED BY <1>1, <1>2, <1>3, <2>1, <2>2, <2>3
<1>7. Guest!first_page' = Guest!first_page /\ Guest!Pages' = Guest!Pages
  BY DEF Guest!first_page, Guest!Pages
<1> QED BY <1>2, <1>3, <1>4, <1>5, <1>6, <1>7 DEF Guest!PagesHeldOnce

\* A frame with one of its fields replaced.
LEMMA FrameUpdate ==
  ASSUME NEW f \in FrameData, NEW x
  PROVE  /\ [f EXCEPT !.saved = x] = [memory_stack_top |-> f.memory_stack_top, saved |-> x]
         /\ [f EXCEPT !.memory_stack_top = x] = [memory_stack_top |-> x, saved |-> f.saved]
BY DEF FrameData

\* A step that only changes the top frame keeps the others as they are.
LEMMA TopFrameReplaced ==
  ASSUME GuestInv, NEW f \in FrameData, frames' = [frames EXCEPT ![Len(frames)] = f]
  PROVE  /\ frames' \in Seq(FrameData) /\ frames' # <<>> /\ DOMAIN frames' = 1..Len(frames)
         /\ frames'[Len(frames)] = f
         /\ \A i \in 1..Len(frames) : i # Len(frames) => frames'[i] = frames[i]
<1>1. frames \in Seq(FrameData) /\ frames # <<>>
  BY DEF GuestInv, Guest!TypeOK, FrameData
<1> DEFINE n == Len(frames)
<1>2. n \in Nat \ {0} /\ n \in DOMAIN frames /\ DOMAIN frames = 1..n
  BY <1>1
<1>3. /\ frames' \in Seq(FrameData) /\ Len(frames') = n /\ DOMAIN frames' = 1..n
      /\ frames'[n] = f /\ \A i \in 1..n : i # n => frames'[i] = frames[i]
  BY <1>1, <1>2, SeqUpdate
<1> HIDE DEF n
<1>4. frames' # <<>>
  BY <1>2, <1>3
<1> QED BY <1>3, <1>4, Zenon DEF n

\* What it leaves of the order of the stack tops.
LEMMA FramesKept ==
  ASSUME Guest!LayoutAssumption, GuestInv, ~fatal, ~wrapped, NEW f \in FrameData,
         frames' = [frames EXCEPT ![Len(frames)] = f],
         f.memory_stack_top <= Guest!current_frame.memory_stack_top \/
           f.memory_stack_top \in Guest!current_frame.saved,
         \A v \in f.saved : f.memory_stack_top <= v
                            /\ v \in Guest!current_frame.saved \cup {Guest!current_frame.memory_stack_top},
         UNCHANGED heap_end,
         fatal' \/ heap_end <= f.memory_stack_top
  PROVE  Guest!HeapBelowStack' /\ Guest!FramesNested' /\ SavedAbove'
<1> DEFINE n == Len(frames)
<1>1. frames \in Seq(FrameData) /\ frames # <<>> /\ heap_end \in Nat
  BY DEF GuestInv, Guest!TypeOK, FrameData, Guest!LayoutAssumption
<1>2. n \in Nat \ {0} /\ DOMAIN frames = 1..n /\ n \in DOMAIN frames
      /\ Guest!current_frame = frames[n]
  BY <1>1 DEF Guest!current_frame
<1>3. /\ frames' \in Seq(FrameData) /\ DOMAIN frames' = 1..n /\ frames' # <<>>
      /\ frames'[n] = f /\ \A i \in 1..n : i # n => frames'[i] = frames[i]
  BY TopFrameReplaced
<1>4. \A i \in 1..n : /\ frames[i].memory_stack_top \in Nat /\ frames[i].saved \subseteq Nat
                      /\ frames'[i].memory_stack_top \in Nat /\ frames'[i].saved \subseteq Nat
  <2>1. Guest!Tops \subseteq Nat
    BY DEF Guest!Tops, Guest!LayoutAssumption
  <2>2. \A i \in 1..n : frames[i] \in FrameData /\ frames'[i] \in FrameData
    <3> HIDE DEF n
    <3> QED BY <1>1, <1>2, <1>3
  <2> QED BY <2>1, <2>2 DEF FrameData
<1> HIDE DEF n
<1>5. Guest!HeapBelowStack'
  <2> SUFFICES ASSUME ~fatal', NEW i \in DOMAIN frames'
               PROVE  heap_end' <= frames'[i].memory_stack_top
    BY DEF Guest!HeapBelowStack
  <2> QED BY <1>2, <1>3 DEF GuestInv, Guest!HeapBelowStack
<1>6. SavedAbove'
  <2> SUFFICES ASSUME NEW i \in DOMAIN frames', NEW v \in frames'[i].saved
               PROVE  frames'[i].memory_stack_top <= v
    BY DEF SavedAbove
  <2> QED BY <1>2, <1>3 DEF GuestInv, SavedAbove
<1>7. Guest!FramesNested'
  <2> SUFFICES ASSUME NEW i \in DOMAIN frames', NEW j \in DOMAIN frames', i < j,
                      NEW t \in frames'[j].saved \cup {frames'[j].memory_stack_top}
               PROVE  t <= frames'[i].memory_stack_top
    BY DEF Guest!FramesNested
  <2>1. i \in 1..n /\ j \in 1..n /\ i # n /\ frames'[i] = frames[i]
    BY <1>2, <1>3
  <2>2. \A u \in frames[j].saved \cup {frames[j].memory_stack_top} :
          u <= frames[i].memory_stack_top
    BY <1>2, <2>1 DEF GuestInv, Guest!FramesNested
  <2>3. CASE j # n
    BY <1>3, <2>1, <2>2, <2>3
  <2>4. CASE j = n
    <3>1. frames'[j] = f /\ Guest!current_frame = frames[j]
      BY <1>2, <1>3, <2>4
    <3>2. f.memory_stack_top <= frames[i].memory_stack_top
      <4>1. f.memory_stack_top \in Nat /\ frames[j].memory_stack_top \in Nat
            /\ frames[i].memory_stack_top \in Nat
            /\ frames[j].memory_stack_top <= frames[i].memory_stack_top
        BY <1>4, <2>1, <2>2, <3>1
      <4>2. CASE f.memory_stack_top <= Guest!current_frame.memory_stack_top
        BY <3>1, <4>1, <4>2
      <4>3. CASE f.memory_stack_top \in Guest!current_frame.saved
        BY <2>2, <3>1, <4>3
      <4> QED BY <4>2, <4>3
    <3> QED BY <2>1, <2>2, <3>1, <3>2
  <2> QED BY <2>3, <2>4
<1> QED BY <1>5, <1>6, <1>7

\* pn_executor_init establishes the invariant.
LEMMA GuestInitially ==
  ASSUME Guest!LayoutAssumption, Guest!OperandsAssumption, Guest!Init
  PROVE  GuestInv
<1>1. /\ PageSize \in Nat /\ PageSize # 0 /\ HeapStart \in Nat /\ GuestSize \in Nat
      /\ HeapStart % PageSize = 0 /\ HeapStart <= GuestSize /\ Word \in Nat /\ GuestSize < Word
  BY DEF Guest!LayoutAssumption
<1>2. /\ mapped_pages = 0..(Guest!first_page - 1) /\ heap_end = HeapStart
      /\ frames = <<[memory_stack_top |-> GuestSize, saved |-> {}]>>
      /\ owners = [p \in Guest!Pages |-> 0] /\ fatal = FALSE /\ wrapped = FALSE
  BY DEF Guest!Init
<1>3. /\ Guest!first_page \in Nat /\ GuestSize \div PageSize \in Nat
      /\ Guest!first_page <= GuestSize \div PageSize /\ Guest!last_page = Guest!first_page
  BY <1>1, <1>2, DivMod, DivMono DEF Guest!first_page, Guest!last_page
<1>4. frames \in Seq(FrameData) /\ frames # <<>> /\ DOMAIN frames = {1}
      /\ frames[1].memory_stack_top = GuestSize /\ frames[1].saved = {}
  <2>1. [memory_stack_top |-> GuestSize, saved |-> {}] \in FrameData
    BY <1>1 DEF FrameData, Guest!Tops
  <2> QED BY <1>2, <2>1
<1>5. Guest!TypeOK
  <2>1. mapped_pages \subseteq Guest!Pages /\ owners \in [Guest!Pages -> Nat]
    BY <1>2, <1>3 DEF Guest!Pages
  <2>2. heap_end \in HeapStart..GuestSize /\ heap_end % PageSize = 0
    BY <1>1, <1>2
  <2>3. fatal \in BOOLEAN /\ wrapped \in BOOLEAN
    BY <1>2
  <2> QED BY <1>4, <2>1, <2>2, <2>3 DEF Guest!TypeOK, FrameData
<1>6. Guest!PagesHeldOnce
  BY <1>2, <1>3 DEF Guest!PagesHeldOnce, Guest!Pages
<1>7. Guest!MappedBelowEnd
  BY <1>2, <1>3 DEF Guest!MappedBelowEnd
<1>8. Guest!HeapBelowStack /\ Guest!FramesNested /\ SavedAbove
  BY <1>1, <1>2, <1>4 DEF Guest!HeapBelowStack, Guest!FramesNested, SavedAbove
<1> QED BY <1>5, <1>6, <1>7, <1>8 DEF GuestInv

\* mmap in a hole of the heap.
LEMMA MmapInHoleStep ==
  ASSUME Guest!LayoutAssumption, Guest!OperandsAssumption, GuestInv, NEW len \in MapSizes,
         Guest!MmapInHole(len)
  PROVE  GuestInv'
<1> DEFINE pages == Guest!AlignUp(len, PageSize) \div PageSize
           s     == Guest!Min(Guest!FreeRuns(pages))
<1>1. len \in Nat /\ pages \in Nat
  BY PageCount DEF Guest!OperandsAssumption
<1>2. /\ Guest!first_page \in Nat /\ Guest!last_page \in Nat
      /\ GuestSize \div PageSize \in Nat /\ Guest!last_page <= GuestSize \div PageSize
  BY LastPage DEF GuestInv
<1>3. Guest!FreeRuns(pages) # {} /\ Guest!Found(s, pages)
      /\ UNCHANGED <<heap_end, frames, wrapped, fatal>>
  BY DEF Guest!MmapInHole
<1> HIDE DEF pages
<1>4. Guest!FreeRuns(pages) \in SUBSET Nat
  BY <1>1, <1>2 DEF Guest!FreeRuns
<1>5. s \in Guest!FreeRuns(pages)
  BY <1>3, <1>4, GuestMinMax, MinIn
<1> HIDE DEF s
<1>6. /\ s \in Nat /\ Guest!first_page <= s /\ s + pages <= Guest!last_page
      /\ Guest!PagesFrom(s, pages) \cap mapped_pages = {}
  BY <1>1, <1>2, <1>5 DEF Guest!FreeRuns
<1>7. s + pages <= GuestSize \div PageSize
  BY <1>1, <1>2, <1>6
<1>8. mapped_pages' \subseteq Guest!Pages /\ owners' \in [Guest!Pages -> Nat] /\ Guest!PagesHeldOnce'
  BY <1>1, <1>3, <1>6, <1>7, FoundHeldOnce DEF GuestInv
<1>9. Guest!TypeOK'
  BY <1>3, <1>8 DEF GuestInv, Guest!TypeOK, Guest!Pages, Guest!Tops
<1>10. Guest!MappedBelowEnd'
  <2>1. Guest!last_page' = Guest!last_page
    BY <1>3 DEF Guest!last_page
  <2>2. mapped_pages' = mapped_pages \cup Guest!PagesFrom(s, pages)
    BY <1>3 DEF Guest!Found
  <2>3. \A p \in Guest!PagesFrom(s, pages) : p < Guest!last_page
    BY <1>1, <1>2, <1>6 DEF Guest!PagesFrom
  <2> QED BY <2>1, <2>2, <2>3 DEF GuestInv, Guest!MappedBelowEnd
<1>11. Guest!HeapBelowStack' /\ Guest!FramesNested' /\ SavedAbove'
  BY <1>3 DEF GuestInv, Guest!HeapBelowStack, Guest!FramesNested, SavedAbove
<1> QED BY <1>8, <1>9, <1>10, <1>11 DEF GuestInv

\* mmap at the end of the heap: the stack of every frame is at or above the one that
\* mmap compares with.
LEMMA MmapAtEndStep ==
  ASSUME Guest!LayoutAssumption, Guest!OperandsAssumption, GuestInv, NEW len \in MapSizes,
         Guest!MmapAtEnd(len)
  PROVE  GuestInv'
<1> DEFINE pages == Guest!AlignUp(len, PageSize) \div PageSize
           more  == Guest!AlignUp(len, PageSize)
<1>1. len \in Nat /\ pages \in Nat /\ more \in Nat /\ more % PageSize = 0
  BY PageCount DEF Guest!OperandsAssumption
<1>2. /\ Guest!first_page \in Nat /\ Guest!last_page \in Nat /\ Guest!first_page <= Guest!last_page
      /\ GuestSize \div PageSize \in Nat
  BY LastPage DEF GuestInv
<1>3. /\ PageSize \in Nat /\ PageSize # 0 /\ GuestSize \in Nat /\ HeapStart \in Nat
      /\ heap_end \in HeapStart..GuestSize /\ heap_end % PageSize = 0 /\ ~fatal
  BY DEF Guest!LayoutAssumption, GuestInv, Guest!TypeOK, Guest!MmapAtEnd
<1>4. /\ heap_end' = heap_end + more /\ Guest!Found(Guest!last_page, pages)
      /\ UNCHANGED <<frames, wrapped, fatal>>
      /\ ~(heap_end + more > GuestSize)
      /\ ~(heap_end + more > Guest!current_frame.memory_stack_top)
  BY DEF Guest!MmapAtEnd, Guest!OutOfHeap
<1>5. heap_end' \in HeapStart..GuestSize /\ heap_end' % PageSize = 0
      /\ Guest!last_page' = Guest!last_page + pages
  <2>1. heap_end \in Nat
    BY <1>3
  <2>2. (heap_end + more) % PageSize = 0
        /\ (heap_end + more) \div PageSize = (heap_end \div PageSize) + (more \div PageSize)
    <3> HIDE DEF more
    <3> QED BY <1>1, <1>3, <2>1, DivSum
  <2> HIDE DEF more
  <2>3. heap_end' \in HeapStart..GuestSize
    BY <1>1, <1>3, <1>4
  <2> QED BY <1>4, <2>2, <2>3 DEF Guest!last_page, more
<1>6. Guest!last_page + pages <= GuestSize \div PageSize
  <2>1. heap_end' \in Nat /\ heap_end' <= GuestSize
    BY <1>3, <1>5
  <2>2. heap_end' \div PageSize <= GuestSize \div PageSize
    BY <1>3, <2>1, DivMono
  <2> QED BY <1>5, <2>2 DEF Guest!last_page
<1> HIDE DEF pages, more
<1>7. Guest!PagesFrom(Guest!last_page, pages) \cap mapped_pages = {}
  <2>1. \A p \in mapped_pages : p < Guest!last_page /\ p \in Int
    BY DEF GuestInv, Guest!MappedBelowEnd, Guest!TypeOK, Guest!Pages
  <2> QED BY <1>1, <1>2, <2>1 DEF Guest!PagesFrom
<1>8. mapped_pages' \subseteq Guest!Pages /\ owners' \in [Guest!Pages -> Nat] /\ Guest!PagesHeldOnce'
  BY <1>1, <1>2, <1>4, <1>6, <1>7, FoundHeldOnce DEF GuestInv
<1>9. Guest!TypeOK'
  BY <1>4, <1>5, <1>8 DEF GuestInv, Guest!TypeOK, Guest!Pages, Guest!Tops
<1>10. Guest!MappedBelowEnd'
  <2>1. mapped_pages' = mapped_pages \cup Guest!PagesFrom(Guest!last_page, pages)
    BY <1>4 DEF Guest!Found
  <2>2. \A p \in Guest!PagesFrom(Guest!last_page, pages) : p < Guest!last_page + pages
    BY <1>1, <1>2 DEF Guest!PagesFrom
  <2>3. \A p \in mapped_pages : p < Guest!last_page /\ p \in Int
    BY DEF GuestInv, Guest!MappedBelowEnd, Guest!TypeOK, Guest!Pages
  <2>4. \A p \in mapped_pages : p < Guest!last_page + pages
    BY <1>1, <1>2, <2>3
  <2> QED BY <1>5, <2>1, <2>2, <2>4 DEF Guest!MappedBelowEnd
<1>11. Guest!HeapBelowStack'
  <2> SUFFICES ASSUME ~wrapped, NEW i \in DOMAIN frames
               PROVE  heap_end' <= frames[i].memory_stack_top
    BY <1>4 DEF Guest!HeapBelowStack
  <2>1. /\ Len(frames) \in DOMAIN frames /\ DOMAIN frames = 1..Len(frames)
        /\ Len(frames) \in Nat /\ i \in 1..Len(frames)
        /\ \A j \in DOMAIN frames : frames[j] \in FrameData
    <3>1. frames \in Seq(FrameData) /\ frames # <<>>
      BY DEF GuestInv, Guest!TypeOK, FrameData
    <3> QED BY <1>4, <3>1
  <2>2. frames[Len(frames)].memory_stack_top \in Int /\ frames[i].memory_stack_top \in Int
    BY <1>3, <2>1 DEF FrameData, Guest!Tops
  <2>3. frames[Len(frames)].memory_stack_top <= frames[i].memory_stack_top
    <3>1. CASE i = Len(frames)
      BY <2>2, <3>1
    <3>2. CASE i < Len(frames)
      BY <2>1, <3>2 DEF GuestInv, Guest!FramesNested
    <3> QED BY <2>1, <3>1, <3>2
  <2>4. heap_end' <= frames[Len(frames)].memory_stack_top /\ heap_end' \in Int
    BY <1>1, <1>3, <1>4, <2>2 DEF Guest!current_frame
  <2> QED BY <2>2, <2>3, <2>4
<1>12. Guest!FramesNested' /\ SavedAbove'
  BY <1>4 DEF GuestInv, Guest!FramesNested, SavedAbove
<1> QED BY <1>8, <1>9, <1>10, <1>11, <1>12 DEF GuestInv

\* munmap clears the bits of the pages the guest gives up and of no other.
LEMMA MunmapStep ==
  ASSUME Guest!LayoutAssumption, Guest!OperandsAssumption, GuestInv,
         NEW addr_p \in 0..(GuestSize - 1), NEW len \in MapSizes, Guest!Munmap(addr_p, len)
  PROVE  GuestInv'
<1>1. addr_p \in Nat /\ len \in Nat /\ len # 0
  BY DEF Guest!OperandsAssumption, Guest!LayoutAssumption
<1>2. Guest!Unmapped(addr_p, len) = Guest!Touched(addr_p, len)
  BY <1>1, UnmappedIsTouched DEF GuestInv
<1>3. /\ mapped_pages' = mapped_pages \ Guest!Touched(addr_p, len)
      /\ owners' = [p \in Guest!Pages |-> IF p \in Guest!Touched(addr_p, len) THEN 0 ELSE owners[p]]
      /\ UNCHANGED <<heap_end, frames, wrapped, fatal>>
  BY <1>2 DEF Guest!Munmap
<1>4. Guest!TypeOK'
  BY <1>3 DEF GuestInv, Guest!TypeOK, Guest!Pages, Guest!Tops
<1>5. Guest!PagesHeldOnce'
  <2> SUFFICES ASSUME NEW p \in Guest!Pages
               PROVE  owners'[p] = IF p >= Guest!first_page /\ p \in mapped_pages' THEN 1 ELSE 0
    BY DEF Guest!PagesHeldOnce, Guest!Pages, Guest!first_page
  <2>1. owners'[p] = IF p \in Guest!Touched(addr_p, len) THEN 0 ELSE owners[p]
    BY <1>3
  <2> QED BY <1>3, <2>1 DEF GuestInv, Guest!PagesHeldOnce
<1>6. Guest!MappedBelowEnd'
  BY <1>3 DEF GuestInv, Guest!MappedBelowEnd, Guest!last_page
<1>7. Guest!HeapBelowStack' /\ Guest!FramesNested' /\ SavedAbove'
  BY <1>3 DEF GuestInv, Guest!HeapBelowStack, Guest!FramesNested, SavedAbove
<1> QED BY <1>4, <1>5, <1>6, <1>7 DEF GuestInv

\* alloca, stacksave and stackrestore replace the top frame by one that is below it, or
\* at a top that it has saved.
LEMMA TopFrameStep ==
  ASSUME Guest!LayoutAssumption, Guest!OperandsAssumption, GuestInv,
         \/ \E size \in AllocaSizes, alignment \in Alignments :
              Guest!Alloca(size, alignment) \/ Guest!AllocaFatal(size, alignment)
         \/ Guest!Stacksave
         \/ \E value \in Guest!current_frame.saved : Guest!Stackrestore(value)
  PROVE  GuestInv'
<1> DEFINE n   == Len(frames)
           above == Guest!current_frame.memory_stack_top
<1>1. frames \in Seq(FrameData) /\ frames # <<>>
  BY DEF GuestInv, Guest!TypeOK, FrameData
<1>2. n \in Nat \ {0} /\ DOMAIN frames = 1..n /\ Guest!current_frame = frames[n]
  BY <1>1 DEF Guest!current_frame
<1>3. Guest!current_frame \in FrameData
  BY <1>1, <1>2
<1>4. /\ above \in Guest!Tops /\ Guest!current_frame.saved \subseteq Guest!Tops
      /\ Guest!current_frame = [memory_stack_top |-> above, saved |-> Guest!current_frame.saved]
  BY <1>3 DEF FrameData
<1>5. ~wrapped => \A v \in Guest!current_frame.saved : above <= v
  BY <1>2 DEF GuestInv, SavedAbove
<1>6. /\ Guest!Tops \subseteq Nat /\ heap_end \in Nat /\ Word \in Nat
  BY DEF Guest!LayoutAssumption, GuestInv, Guest!TypeOK, Guest!Tops
<1>7. ~fatal /\ (~wrapped => heap_end <= above)
  <2>1. ~fatal
    BY DEF Guest!Alloca, Guest!AllocaFatal, Guest!Stacksave, Guest!Stackrestore
  <2> QED BY <1>2, <2>1 DEF GuestInv, Guest!HeapBelowStack
<1>8. /\ UNCHANGED <<mapped_pages, heap_end, owners>>
      /\ fatal' = fatal \/ fatal' = TRUE
      /\ wrapped' = wrapped \/ wrapped' = TRUE
  <2>1. ASSUME NEW size \in AllocaSizes, NEW alignment \in Alignments,
               Guest!Alloca(size, alignment) \/ Guest!AllocaFatal(size, alignment)
        PROVE  wrapped' = wrapped \/ wrapped' = TRUE
    <3>1. wrapped' = (wrapped \/ size > Guest!current_frame.memory_stack_top) /\ wrapped \in BOOLEAN
      BY <2>1 DEF Guest!Alloca, Guest!AllocaFatal, Guest!Lower, GuestInv, Guest!TypeOK
    <3> QED BY <3>1, Zenon
  <2> QED BY <2>1 DEF Guest!Alloca, Guest!AllocaFatal, Guest!Stacksave, Guest!Stackrestore
<1> DEFINE NewTop ==
      \E f \in FrameData :
        /\ frames' = [frames EXCEPT ![Len(frames)] = f]
        /\ ~wrapped' =>
             /\ f.memory_stack_top <= above \/ f.memory_stack_top \in Guest!current_frame.saved
             /\ \A v \in f.saved : f.memory_stack_top <= v
                                   /\ v \in Guest!current_frame.saved \cup {above}
             /\ fatal' \/ heap_end <= f.memory_stack_top
<1>9. NewTop
  <2>1. ASSUME NEW size \in AllocaSizes, NEW alignment \in Alignments,
               Guest!Alloca(size, alignment) \/ Guest!AllocaFatal(size, alignment)
        PROVE  NewTop
    <3> DEFINE low   == Guest!Lowered(size, alignment)
               below == IF above - size < 0 THEN above - size + Word ELSE above - size
               f     == [memory_stack_top |-> low, saved |-> Guest!current_frame.saved]
    <3>1. /\ size \in Nat /\ size < Word /\ alignment \in Nat /\ alignment # 0 /\ above \in Nat
          /\ above < Word
      BY <1>4, <1>6 DEF Guest!OperandsAssumption, Guest!LayoutAssumption, Guest!Tops
    <3>2. low \in 0..(Word - 1) /\ (size <= above => low \in 0..above)
      <4>1. below \in 0..(Word - 1) /\ (size <= above => below <= above)
        BY <1>6, <3>1
      <4>2. low = Guest!AlignDown(below, alignment)
        BY DEF Guest!Lowered
      <4> HIDE DEF below, low
      <4>3. low \in 0..below
        BY <3>1, <4>1, <4>2, RoundDown DEF Guest!AlignDown
      <4> QED BY <1>6, <3>1, <4>1, <4>3
    <3>3. /\ frames' = [frames EXCEPT ![Len(frames)].memory_stack_top = low]
          /\ fatal' \/ heap_end <= low
          /\ wrapped' = (wrapped \/ size > above)
      BY <2>1 DEF Guest!Alloca, Guest!AllocaFatal, Guest!Lower
    <3> HIDE DEF low
    <3>4. f \in FrameData
      BY <1>4, <1>6, <3>2 DEF FrameData, Guest!Tops
    <3>5. frames' = [frames EXCEPT ![Len(frames)] = f]
      <4>1. [frames[n] EXCEPT !.memory_stack_top = low] = f
        BY <1>2, <1>3, FrameUpdate
      <4> QED BY <3>3, <4>1
    <3>6. f.memory_stack_top = low /\ f.saved = Guest!current_frame.saved
      OBVIOUS
    <3>7. ASSUME ~wrapped'
          PROVE  low <= above /\ \A v \in Guest!current_frame.saved : low <= v
      <4>1. ~wrapped /\ ~(size > above)
        BY <3>3, <3>7, Zenon
      <4> QED BY <1>4, <1>5, <1>6, <3>1, <3>2, <4>1
    <3> HIDE DEF f
    <3> QED BY <3>3, <3>4, <3>5, <3>6, <3>7
  <2>2. ASSUME Guest!Stacksave
        PROVE  NewTop
    <3> DEFINE f == [memory_stack_top |-> above, saved |-> Guest!current_frame.saved \cup {above}]
    <3>1. frames' = [frames EXCEPT ![Len(frames)].saved = @ \cup {above}] /\ wrapped' = wrapped
      BY <2>2 DEF Guest!Stacksave
    <3>2. f \in FrameData
      BY <1>4 DEF FrameData
    <3>3. frames' = [frames EXCEPT ![Len(frames)] = f]
      <4>1. [frames[n] EXCEPT !.saved = @ \cup {above}] = f
        BY <1>2, <1>3, FrameUpdate
      <4> QED BY <3>1, <4>1
    <3>4. f.memory_stack_top = above /\ f.saved = Guest!current_frame.saved \cup {above}
      OBVIOUS
    <3>5. above <= above
      BY <1>4, <1>6
    <3> HIDE DEF f
    <3> QED BY <1>5, <1>7, <3>1, <3>2, <3>3, <3>4, <3>5
  <2>3. ASSUME NEW value \in Guest!current_frame.saved, Guest!Stackrestore(value)
        PROVE  NewTop
    <3> DEFINE f == [memory_stack_top |-> value,
                     saved |-> {v \in Guest!current_frame.saved : v > value}]
    <3>1. frames' = [frames EXCEPT ![Len(frames)] = f] /\ wrapped' = wrapped
      BY <2>3 DEF Guest!Stackrestore
    <3>2. f \in FrameData
      BY <1>4 DEF FrameData
    <3>3. f.memory_stack_top = value /\ f.saved = {v \in Guest!current_frame.saved : v > value}
      OBVIOUS
    <3>4. ~wrapped =>
            heap_end <= value /\ \A v \in Guest!current_frame.saved : v > value => value <= v
      BY <1>4, <1>5, <1>6, <1>7
    <3> HIDE DEF f
    <3> QED BY <3>1, <3>2, <3>3, <3>4
  <2> QED BY <2>1, <2>2, <2>3
<1>10. frames' \in Seq(FrameData) /\ frames' # <<>>
       /\ Guest!HeapBelowStack' /\ Guest!FramesNested' /\ SavedAbove'
  <2>1. frames' \in Seq(FrameData) /\ frames' # <<>>
    BY <1>9, TopFrameReplaced
  <2>2. CASE wrapped'
    BY <2>1, <2>2 DEF Guest!HeapBelowStack, Guest!FramesNested, SavedAbove
  <2>3. CASE ~wrapped'
    <3>1. ~wrapped
      BY <1>8, <2>3
    <3> QED BY <1>7, <1>8, <1>9, <2>1, <2>3, <3>1, FramesKept
  <2> QED BY <2>2, <2>3
<1>11. Guest!TypeOK'
  <2>1. fatal' \in BOOLEAN /\ wrapped' \in BOOLEAN
    BY <1>8 DEF GuestInv, Guest!TypeOK
  <2> QED BY <1>8, <1>10, <2>1 DEF GuestInv, Guest!TypeOK, FrameData, Guest!Pages, Guest!Tops
<1>12. Guest!PagesHeldOnce' /\ Guest!MappedBelowEnd'
  BY <1>8 DEF GuestInv, Guest!PagesHeldOnce, Guest!MappedBelowEnd, Guest!Pages, Guest!first_page,
     Guest!last_page
<1> QED BY <1>10, <1>11, <1>12 DEF GuestInv

\* A called function starts at its caller's stack top, and a return goes back to it.
LEMMA CallStep ==
  ASSUME Guest!LayoutAssumption, GuestInv, Guest!PushFunction \/ Guest!Return
  PROVE  GuestInv'
<1> DEFINE n == Len(frames)
<1>1. frames \in Seq(FrameData) /\ frames # <<>>
  BY DEF GuestInv, Guest!TypeOK, FrameData
<1>2. n \in Nat \ {0} /\ DOMAIN frames = 1..n /\ Guest!current_frame = frames[n]
      /\ \A i \in 1..n : frames[i] \in FrameData
  BY <1>1 DEF Guest!current_frame
<1>3. \A i \in 1..n : frames[i].memory_stack_top \in Nat
  BY <1>2 DEF FrameData, Guest!Tops, Guest!LayoutAssumption
<1>4. UNCHANGED <<mapped_pages, heap_end, owners, wrapped, fatal>> /\ ~fatal
  BY DEF Guest!PushFunction, Guest!Return
<1>5. ASSUME ~wrapped
      PROVE  /\ \A i, j \in 1..n : i < j =>
                  \A t \in frames[j].saved \cup {frames[j].memory_stack_top} :
                    t <= frames[i].memory_stack_top
             /\ \A i \in 1..n : heap_end <= frames[i].memory_stack_top
             /\ \A i \in 1..n : \A v \in frames[i].saved : frames[i].memory_stack_top <= v
  BY <1>2, <1>4, <1>5 DEF GuestInv, Guest!FramesNested, Guest!HeapBelowStack, SavedAbove
<1>6. /\ frames' \in Seq(FrameData) /\ frames' # <<>>
      /\ Guest!HeapBelowStack' /\ Guest!FramesNested' /\ SavedAbove'
  <2>1. CASE Guest!PushFunction
    <3> DEFINE f == [memory_stack_top |-> frames[n].memory_stack_top, saved |-> {}]
    <3>1. f \in FrameData /\ [Guest!current_frame EXCEPT !.saved = {}] = f
      <4>1. n \in 1..n /\ Guest!current_frame \in FrameData
        BY <1>2
      <4>2. f \in FrameData
        BY <1>2, <4>1 DEF FrameData
      <4> QED BY <1>2, <4>1, <4>2, FrameUpdate
    <3>2. frames' = Append(frames, f)
      BY <2>1, <3>1 DEF Guest!PushFunction
    <3>3. f.memory_stack_top = frames[n].memory_stack_top /\ f.saved = {}
      OBVIOUS
    <3> HIDE DEF f
    <3>4. /\ frames' \in Seq(FrameData) /\ Len(frames') = n + 1 /\ DOMAIN frames' = 1..(n + 1)
          /\ frames'[n + 1] = f /\ \A i \in 1..n : frames'[i] = frames[i]
      BY <1>1, <3>1, <3>2, SeqAppend
    <3> HIDE DEF n
    <3>5. frames' # <<>>
      BY <1>2, <3>4
    <3>6. Guest!HeapBelowStack'
      BY <1>2, <1>4, <1>5, <3>3, <3>4 DEF Guest!HeapBelowStack
    <3>7. SavedAbove'
      BY <1>2, <1>4, <1>5, <3>3, <3>4 DEF SavedAbove
    <3>8. Guest!FramesNested'
      <4> SUFFICES ASSUME ~wrapped, NEW i \in 1..(n + 1), NEW j \in 1..(n + 1), i < j,
                          NEW t \in frames'[j].saved \cup {frames'[j].memory_stack_top}
                   PROVE  t <= frames'[i].memory_stack_top
        BY <1>4, <3>4 DEF Guest!FramesNested
      <4>1. i \in 1..n /\ frames'[i] = frames[i]
        BY <1>2, <3>4
      <4>2. CASE j \in 1..n
        BY <1>5, <3>4, <4>1, <4>2
      <4>3. CASE j = n + 1
        <5>1. t = frames[n].memory_stack_top
          BY <3>3, <3>4, <4>3
        <5>2. CASE i = n
          BY <1>3, <4>1, <5>1, <5>2
        <5>3. CASE i < n
          BY <1>2, <1>5, <4>1, <5>1, <5>3
        <5> QED BY <1>2, <4>1, <5>2, <5>3
      <4> QED BY <1>2, <4>2, <4>3
    <3> QED BY <3>4, <3>5, <3>6, <3>7, <3>8
  <2>2. CASE Guest!Return
    <3>1. n > 1 /\ frames' = SubSeq(frames, 1, n - 1) /\ n - 1 \in 0..Len(frames)
      BY <1>2, <2>2 DEF Guest!Return
    <3>2. /\ frames' \in Seq(FrameData) /\ Len(frames') = n - 1
          /\ DOMAIN frames' = 1..(n - 1) /\ \A i \in 1..(n - 1) : frames'[i] = frames[i]
      BY <1>1, <3>1, SeqPrefix
    <3> HIDE DEF n
    <3>3. frames' # <<>>
      BY <1>2, <3>1, <3>2
    <3>4. \A i \in 1..(n - 1) : i \in 1..n
      BY <1>2
    <3>5. Guest!HeapBelowStack' /\ SavedAbove'
      BY <1>4, <1>5, <3>2, <3>4 DEF Guest!HeapBelowStack, SavedAbove
    <3>6. Guest!FramesNested'
      BY <1>4, <1>5, <3>2, <3>4 DEF Guest!FramesNested
    <3> QED BY <3>2, <3>3, <3>5, <3>6
  <2> QED BY <2>1, <2>2
<1>7. Guest!TypeOK'
  BY <1>4, <1>6 DEF GuestInv, Guest!TypeOK, FrameData, Guest!Pages, Guest!Tops
<1>8. Guest!PagesHeldOnce' /\ Guest!MappedBelowEnd'
  BY <1>4 DEF GuestInv, Guest!PagesHeldOnce, Guest!MappedBelowEnd, Guest!Pages, Guest!first_page,
     Guest!last_page
<1> QED BY <1>6, <1>7, <1>8 DEF GuestInv

\* Every step keeps the invariant.
LEMMA GuestKeeps ==
  ASSUME Guest!LayoutAssumption, Guest!OperandsAssumption, GuestInv, [Guest!Next]_(Guest!vars)
  PROVE  GuestInv'
<1>1. ASSUME NEW len \in MapSizes, Guest!MmapInHole(len) PROVE GuestInv'
  BY <1>1, MmapInHoleStep
<1>2. ASSUME NEW len \in MapSizes, Guest!MmapAtEnd(len) PROVE GuestInv'
  BY <1>2, MmapAtEndStep
<1>3. ASSUME NEW len \in MapSizes, Guest!MmapFatal(len) PROVE GuestInv'
  <2>1. UNCHANGED <<mapped_pages, heap_end, frames, owners, wrapped>> /\ fatal' = TRUE
    BY <1>3 DEF Guest!MmapFatal
  <2>2. Guest!TypeOK'
    <3>1. fatal' \in BOOLEAN
      BY <2>1
    <3> QED BY <2>1, <3>1 DEF GuestInv, Guest!TypeOK, Guest!Pages, Guest!Tops
  <2>3. Guest!HeapBelowStack'
    BY <2>1 DEF Guest!HeapBelowStack
  <2>4. Guest!PagesHeldOnce' /\ Guest!MappedBelowEnd' /\ Guest!FramesNested' /\ SavedAbove'
    BY <2>1 DEF GuestInv, Guest!PagesHeldOnce, Guest!MappedBelowEnd, Guest!FramesNested, SavedAbove,
                Guest!Pages, Guest!first_page, Guest!last_page
  <2> QED BY <2>2, <2>3, <2>4 DEF GuestInv
<1>4. ASSUME NEW addr_p \in 0..(GuestSize - 1), NEW len \in MapSizes, Guest!Munmap(addr_p, len)
      PROVE  GuestInv'
  BY <1>4, MunmapStep
<1>5. CASE \/ \E size \in AllocaSizes, alignment \in Alignments :
                Guest!Alloca(size, alignment) \/ Guest!AllocaFatal(size, alignment)
           \/ Guest!Stacksave
           \/ \E value \in Guest!current_frame.saved : Guest!Stackrestore(value)
  BY <1>5, TopFrameStep
<1>6. CASE Guest!PushFunction \/ Guest!Return
  BY <1>6, CallStep
<1>7. CASE UNCHANGED Guest!vars
  BY <1>7 DEF Guest!vars, GuestInv, Guest!TypeOK, Guest!PagesHeldOnce, Guest!MappedBelowEnd,
     Guest!HeapBelowStack,
              Guest!FramesNested, SavedAbove, Guest!Pages, Guest!Tops, Guest!first_page,
              Guest!last_page
<1>8. CASE Guest!Ended
  BY <1>7, <1>8 DEF Guest!Ended
<1> QED BY <1>1, <1>2, <1>3, <1>4, <1>5, <1>6, <1>7, <1>8 DEF Guest!Next

\* The inductive invariant holds in every state the heap and the stack can be in.
LEMMA HeapStackInvariant ==
  ASSUME Guest!LayoutAssumption, Guest!OperandsAssumption
  PROVE  Guest!Spec => []GuestInv
<1>1. Guest!Init => GuestInv
  BY GuestInitially
<1>2. GuestInv /\ [Guest!Next]_(Guest!vars) => GuestInv'
  BY GuestKeeps
<1> QED BY <1>1, <1>2, PTL DEF Guest!Spec

\* Types: heap_end stays at a page boundary between heap_start and the end of memory,
\* and the bits that mmap sets and munmap clears are those of pages of memory.
THEOREM HeapStackTypes ==
  ASSUME Guest!LayoutAssumption, Guest!OperandsAssumption
  PROVE  Guest!Spec => []Guest!TypeOK
<1>1. Guest!Spec => []GuestInv
  BY HeapStackInvariant
<1>2. GuestInv => Guest!TypeOK
  BY DEF GuestInv
<1> QED BY <1>1, <1>2, PTL

\* mmap never hands out a page of a mapping that the guest still holds, and the search
\* of the next mmap sees every page that is mapped.
THEOREM MappingsApart ==
  ASSUME Guest!LayoutAssumption, Guest!OperandsAssumption
  PROVE  Guest!Spec => [](Guest!PagesHeldOnce /\ Guest!MappedBelowEnd)
<1>1. Guest!Spec => []GuestInv
  BY HeapStackInvariant
<1>2. GuestInv => Guest!PagesHeldOnce /\ Guest!MappedBelowEnd
  BY DEF GuestInv
<1> QED BY <1>1, <1>2, PTL

\* The heap and the stack never overlap, whichever frame is returned to and whichever
\* top is restored, nor do the stacks of a function and its callers, as long as no
\* alloca was of more than lies below the stack top.
THEOREM StackApart ==
  ASSUME Guest!LayoutAssumption, Guest!OperandsAssumption
  PROVE  Guest!Spec => [](Guest!HeapBelowStack /\ Guest!FramesNested)
<1>1. Guest!Spec => []GuestInv
  BY HeapStackInvariant
<1>2. GuestInv => Guest!HeapBelowStack /\ Guest!FramesNested
  BY DEF GuestInv
<1> QED BY <1>1, <1>2, PTL

-----------------------------------------------------------------------------
(* FileSystem.                                                              *)

\* The operators of FiniteSetsExt are the same in the instances.
LEMMA DiskMin == \A S : Disk!Min(S) = Min(S)
BY DEF Disk!Min, Min

HostFile == [file : Files \cup (-1)..2, offset : 0..MaxOffset]

\* A descriptor of the host without a file is Closed.
HostTableSound == \A h \in Disk!HostFds : host[h].file = -1 => host[h] = Disk!Closed

\* A descriptor whose close failed is still mapped.
UnsureMapped == \A fd \in unsure : fd_map[fd] # -1

\* A host descriptor that open lost is none that the guest can reach, other than through a
\* descriptor whose close failed.
LeakedApart == ~misused => \A fd \in Disk!Fds \ unsure : fd_map[fd] \notin leaked

\* The inductive invariant: closing a descriptor of the guest can neither close a file
\* behind another one nor one that was lost before.
FilesInv ==
  /\ Disk!TypeOK /\ HostTableSound /\ UnsureMapped
  /\ Disk!MapsApart /\ LeakedApart /\ Disk!LostOnlyWhenFull

-----------------------------------------------------------------------------
(* The calls by what they change.                                           *)

\* A call that only answers, or ends the interpreter.
Quiet == UNCHANGED <<access, fd_map, host, leaked, unsure>>

\* A successful read, write or seek of fd.
Moved(fd, offset) ==
  /\ fd \in Disk!Fds /\ fd_map[fd] # -1 /\ offset \in 0..MaxOffset
  /\ access \/ fd_map[fd] <= 2
  /\ host[fd_map[fd]] # Disk!Closed
  /\ Disk!MoveTo(fd, offset)

\* A close that succeeds.
ClosedFd(fd) ==
  /\ fd \in Disk!Fds /\ fd_map[fd] # -1
  /\ host' = IF access THEN [host EXCEPT ![fd_map[fd]] = Disk!Closed] ELSE host
  /\ fd_map' = [fd_map EXCEPT ![fd] = -1]
  /\ answer' = <<"close", fd>>
  /\ unsure' = unsure \ {fd}
  /\ UNCHANGED <<access, leaked, alive>>

\* A close that fails, and has closed or not.
FailedClose(fd) ==
  /\ fd \in Disk!Fds /\ fd_map[fd] # -1 /\ access
  /\ host' = host \/ host' = [host EXCEPT ![fd_map[fd]] = Disk!Closed]
  /\ answer' = Disk!Error
  /\ unsure' = unsure \cup {fd}
  /\ UNCHANGED <<access, fd_map, leaked, alive>>

FreeHost  == {h \in Disk!HostFds : host[h] = Disk!Closed}
FreeGuest == {fd \in Disk!Fds : fd_map[fd] = -1}

\* An open for which the host has a descriptor, and the guest one or none.
Opened(file) ==
  /\ access /\ FreeHost # {} /\ FreeGuest # {}
  /\ host' = [host EXCEPT ![Disk!Min(FreeHost)] = [file |-> file, offset |-> 0]]
  /\ fd_map' = [fd_map EXCEPT ![Disk!Min(FreeGuest)] = Disk!Min(FreeHost)]
  /\ answer' = <<"open", Disk!Min(FreeGuest)>>
  /\ UNCHANGED <<access, leaked, unsure, alive>>

Lost(file) ==
  /\ access /\ FreeHost # {} /\ FreeGuest = {}
  /\ host' = [host EXCEPT ![Disk!Min(FreeHost)] = [file |-> file, offset |-> 0]]
  /\ leaked' = leaked \cup {Disk!Min(FreeHost)}
  /\ answer' = Disk!Error
  /\ UNCHANGED <<access, fd_map, unsure, alive>>

\* What a call that succeeds changes.
Changes ==
  \/ \E fd \in Disk!Fds, offset \in 0..MaxOffset : Moved(fd, offset) /\ (~misused' => fd \notin unsure)
  \/ \E fd \in Disk!Fds : ClosedFd(fd) /\ (~misused' => fd \notin unsure)
  \/ \E fd \in Disk!Fds : FailedClose(fd) /\ (~misused' => fd \notin unsure)
  \/ \E file \in Files : Opened(file) \/ Lost(file)

\* Every step of the file system is one of these; the guest misuses a descriptor at
\* the earliest when there is one whose close failed.
Effect ==
  /\ looked_up' \in BOOLEAN /\ alive' \in BOOLEAN /\ misused' \in BOOLEAN
  /\ misused => misused'
  /\ misused' => misused \/ unsure # {}
  /\ \/ Quiet /\ (\/ answer' = answer \/ answer' = Disk!Error \/ (\E fd : answer' = <<"look", fd>>)
                  \/ answer' = <<"look">> \/ misused')
     \/ Changes

\* The calls on a descriptor are of these kinds.
LEMMA UseEffect ==
  ASSUME Disk!FdsAssumption, FilesInv, NEW fd, Disk!Use(fd)
  PROVE  Effect
<1>1. access \in BOOLEAN /\ alive \in BOOLEAN /\ looked_up \in BOOLEAN /\ misused \in BOOLEAN
  BY DEF FilesInv, Disk!TypeOK
<1>2. /\ misused' \in BOOLEAN /\ (misused => misused') /\ (misused' => misused \/ unsure # {})
      /\ ~misused' => ~misused /\ fd \notin unsure
  BY <1>1 DEF Disk!Use
<1>3. ASSUME NEW call, Disk!Answer(call), looked_up' \in BOOLEAN,
             call = Disk!Error \/ call = <<"look", fd>>
      PROVE  Effect
  BY <1>1, <1>2, <1>3 DEF Disk!Answer, Effect, Quiet
<1>4. ASSUME Disk!BadBuffer PROVE Effect
  BY <1>2, <1>4 DEF Disk!BadBuffer, Effect, Quiet
<1>5. ASSUME Disk!BadFd(fd) PROVE Effect
  BY <1>3, <1>5 DEF Disk!BadFd
<1>6. MaxOffset \in Nat
  BY DEF Disk!FdsAssumption
<1>7. ASSUME Disk!Close(fd) PROVE Effect
  <2>1. CASE Disk!BadFd(fd) \/ Disk!BadBuffer
    BY <1>4, <1>5, <2>1
  <2>2. CASE ClosedFd(fd) /\ looked_up' = FALSE
    <3>1. Changes
      BY <1>2, <2>2 DEF Changes, ClosedFd
    <3> QED BY <1>1, <1>2, <2>2, <3>1 DEF Effect, ClosedFd
  <2>3. CASE FailedClose(fd) /\ looked_up' = FALSE
    <3>1. Changes
      BY <1>2, <2>3 DEF Changes, FailedClose
    <3> QED BY <1>1, <1>2, <2>3, <3>1 DEF Effect, FailedClose
  <2> QED BY <1>7, <2>1, <2>2, <2>3 DEF Disk!Close, Disk!IsOpen, ClosedFd, FailedClose
<1>8. ASSUME Disk!Look(fd) PROVE Effect
  BY <1>3, <1>4, <1>5, <1>8 DEF Disk!Look
<1>9. ASSUME Disk!IsOpen(fd), access \/ fd_map[fd] <= 2, Disk!HostOpen(fd),
             NEW offset \in 0..MaxOffset, Disk!MoveTo(fd, offset)
      PROVE  Effect
  <2>1. Changes
    BY <1>2, <1>9 DEF Changes, Moved, Disk!IsOpen, Disk!HostOpen
  <2> QED BY <1>1, <1>2, <1>9, <2>1 DEF Effect, Disk!MoveTo
<1>10. ASSUME Disk!IsOpen(fd)
       PROVE  /\ host[fd_map[fd]] \in HostFile /\ host[fd_map[fd]].offset \in 0..MaxOffset
              /\ fd_map[fd] \in Disk!HostFds
  BY <1>10 DEF Disk!IsOpen, FilesInv, Disk!TypeOK, HostFile
<1>11. ASSUME NEW count \in 0..MaxOffset, Disk!Read(fd, count) PROVE Effect
  <2>1. CASE Disk!BadFd(fd) \/ Disk!BadBuffer \/ (Disk!Answer(Disk!Error) /\ looked_up' = FALSE)
    BY <1>3, <1>4, <1>5, <2>1
  <2>2. CASE /\ Disk!IsOpen(fd) /\ (access \/ fd_map[fd] = 0) /\ Disk!HostOpen(fd)
             /\ host[fd_map[fd]].offset + count <= MaxOffset
             /\ Disk!MoveTo(fd, host[fd_map[fd]].offset + count)
    <3>1. host[fd_map[fd]].offset + count \in 0..MaxOffset
      BY <1>6, <1>10, <2>2
    <3> QED BY <1>9, <2>2, <3>1
  <2> QED BY <1>11, <2>1, <2>2 DEF Disk!Read
<1>12. ASSUME NEW count \in 0..MaxOffset, Disk!Write(fd, count) PROVE Effect
  <2>1. CASE Disk!BadFd(fd) \/ Disk!BadBuffer \/ (Disk!Answer(Disk!Error) /\ looked_up' = FALSE)
    BY <1>3, <1>4, <1>5, <2>1
  <2>2. CASE /\ Disk!IsOpen(fd) /\ (access \/ fd_map[fd] \in {1, 2})
             /\ Disk!MoveTo(fd, host[fd_map[fd]].offset)
    <3>1. CASE Disk!HostOpen(fd)
      BY <1>9, <1>10, <2>2, <3>1
    <3>2. CASE ~Disk!HostOpen(fd)
      <4>1. misused'
        BY <1>2, <2>2, <3>2 DEF FilesInv, Disk!MapsApart, Disk!IsOpen
      <4>2. host' = host
        <5> DEFINE h == fd_map[fd]
                   z == [host[h] EXCEPT !.offset = host[h].offset]
        <5>1. h \in Disk!HostFds /\ host[h] \in HostFile /\ host \in [Disk!HostFds -> HostFile]
          BY <1>10, <2>2 DEF FilesInv, Disk!TypeOK, HostFile
        <5>2. z = host[h]
          BY <5>1 DEF HostFile
        <5>3. host' = [host EXCEPT ![h] = z]
          BY <2>2 DEF Disk!MoveTo
        <5> HIDE DEF z, h
        <5> QED BY <5>1, <5>2, <5>3
      <4> QED BY <1>1, <1>2, <2>2, <4>1, <4>2 DEF Effect, Quiet, Disk!MoveTo
    <3> QED BY <3>1, <3>2
  <2>3. CASE /\ Disk!IsOpen(fd) /\ (access \/ fd_map[fd] \in {1, 2}) /\ Disk!HostOpen(fd)
             /\ host[fd_map[fd]].offset + count <= MaxOffset
             /\ Disk!MoveTo(fd, host[fd_map[fd]].offset + count)
    <3>1. host[fd_map[fd]].offset + count \in 0..MaxOffset
      BY <1>6, <1>10, <2>3
    <3> QED BY <1>9, <2>3, <3>1
  <2> QED BY <1>12, <2>1, <2>2, <2>3 DEF Disk!Write
<1>13. ASSUME NEW offset \in 0..MaxOffset, Disk!Seek(fd, offset) PROVE Effect
  BY <1>3, <1>4, <1>5, <1>9, <1>13 DEF Disk!Seek
<1> QED BY <1>7, <1>8, <1>11, <1>12, <1>13 DEF Disk!Use

\* So are the calls on a path.
LEMMA StepEffect ==
  ASSUME Disk!FdsAssumption, FilesInv, [Disk!Next]_(Disk!vars)
  PROVE  Effect
<1>1. access \in BOOLEAN /\ alive \in BOOLEAN /\ looked_up \in BOOLEAN /\ misused \in BOOLEAN
  BY DEF FilesInv, Disk!TypeOK
<1>2. CASE UNCHANGED Disk!vars
  BY <1>1, <1>2 DEF Disk!vars, Effect, Quiet
<1>3. CASE Disk!Name
  <2>1. misused' = misused
    BY <1>3 DEF Disk!Name
  <2>2. ASSUME NEW call, Disk!Answer(call), looked_up' \in BOOLEAN,
               call = Disk!Error \/ call = <<"look">>
        PROVE  Effect
    BY <1>1, <2>1, <2>2 DEF Disk!Answer, Effect, Quiet
  <2>3. ASSUME Disk!BadBuffer PROVE Effect
    BY <1>1, <2>1, <2>3 DEF Disk!BadBuffer, Effect, Quiet
  <2>4. ASSUME NEW file \in Files, Disk!Open(file) PROVE Effect
    <3>1. CASE Disk!BadBuffer \/ (Disk!Answer(Disk!Error) /\ looked_up' \in BOOLEAN)
      BY <2>2, <2>3, <3>1
    <3>2. CASE (Opened(file) \/ Lost(file)) /\ looked_up' = TRUE
      <4>1. Changes
        BY <3>2 DEF Changes
      <4> QED BY <1>1, <2>1, <3>2, <4>1 DEF Effect, Opened, Lost
    <3> QED BY <2>4, <3>1, <3>2 DEF Disk!Open, Opened, Lost, FreeHost, FreeGuest
  <2>5. ASSUME Disk!LookUp \/ Disk!GetCwd \/ Disk!Stat PROVE Effect
    BY <1>1, <2>2, <2>3, <2>5 DEF Disk!LookUp, Disk!GetCwd, Disk!Stat
  <2> QED BY <1>3, <2>4, <2>5 DEF Disk!Name
<1> QED BY <1>2, <1>3, UseEffect DEF Disk!Next

-----------------------------------------------------------------------------
(* The invariant.                                                           *)

\* An open file of the host is not Closed.
LEMMA OpenFile ==
  ASSUME Disk!FdsAssumption, NEW file \in Files \cup 0..2, NEW offset \in 0..MaxOffset
  PROVE  /\ [file |-> file, offset |-> offset] \in HostFile
         /\ [file |-> file, offset |-> offset] # Disk!Closed
         /\ file # -1
<1>1. file \in Nat /\ MaxOffset \in Nat
  BY DEF Disk!FdsAssumption
<1>2. file # -1 /\ file \in Files \cup (-1)..2
  BY <1>1
<1> QED BY <1>2 DEF HostFile, Disk!Closed

\* pn_executor_init establishes the invariant.
LEMMA FilesInitially ==
  ASSUME Disk!FdsAssumption, Disk!Init
  PROVE  FilesInv
<1>1. /\ MaxFds \in Nat /\ MaxFds >= 3 /\ MaxHostFds \in Nat /\ MaxHostFds >= 3
      /\ MaxOffset \in Nat
  BY DEF Disk!FdsAssumption
<1>2. /\ fd_map = [fd \in Disk!Fds |-> IF fd <= 2 THEN fd ELSE -1]
      /\ host = [h \in Disk!HostFds |-> IF h <= 2 THEN [file |-> h, offset |-> 0] ELSE Disk!Closed]
      /\ leaked = {} /\ unsure = {} /\ misused = FALSE /\ alive = TRUE /\ looked_up = FALSE
      /\ access \in AccessSettings
  BY DEF Disk!Init
<1>3. Disk!Closed \in HostFile /\ Disk!Closed.file = -1
  BY <1>1 DEF Disk!Closed, HostFile
<1>4. ASSUME NEW h \in Disk!HostFds
      PROVE  /\ host[h] \in HostFile /\ (host[h].file = -1 => host[h] = Disk!Closed)
             /\ host[h] # Disk!Closed <=> h <= 2
  <2>1. CASE h <= 2
    <3>1. h \in Files \cup 0..2 /\ 0 \in 0..MaxOffset
      BY <1>1, <2>1 DEF Disk!HostFds
    <3>2. host[h] = [file |-> h, offset |-> 0]
      BY <1>2, <2>1
    <3>3. host[h] \in HostFile /\ host[h] # Disk!Closed /\ h # -1
      BY <3>1, <3>2, OpenFile
    <3> QED BY <2>1, <3>2, <3>3
  <2>2. CASE ~(h <= 2)
    BY <1>2, <1>3, <2>2
  <2> QED BY <2>1, <2>2
<1>5. Disk!TypeOK
  <2>1. access \in BOOLEAN /\ alive \in BOOLEAN /\ looked_up \in BOOLEAN
    BY <1>2 DEF Disk!FdsAssumption
  <2>2. fd_map \in [Disk!Fds -> Disk!HostFds \cup {-1}]
    BY <1>1, <1>2 DEF Disk!Fds, Disk!HostFds
  <2>3. host \in [Disk!HostFds -> HostFile]
    BY <1>2, <1>4
  <2> QED BY <1>2, <2>1, <2>2, <2>3 DEF Disk!TypeOK, HostFile
<1>6. HostTableSound /\ UnsureMapped /\ LeakedApart
  BY <1>2, <1>4 DEF HostTableSound, UnsureMapped, LeakedApart
<1>7. Disk!MapsApart
  BY <1>1, <1>2, <1>4 DEF Disk!MapsApart, Disk!HostOpen, Disk!Fds, Disk!HostFds
<1>8. Disk!LostOnlyWhenFull
  <2>1. {h \in Disk!HostFds : host[h] # Disk!Closed} = 0..2
    BY <1>1, <1>4 DEF Disk!HostFds
  <2>2. ASSUME NEW h \in 0..2 PROVE h \in Disk!Fds /\ fd_map[h] = h
    BY <1>1, <1>2 DEF Disk!Fds
  <2> QED BY <1>2, <2>1, <2>2 DEF Disk!LostOnlyWhenFull
<1> QED BY <1>5, <1>6, <1>7, <1>8 DEF FilesInv

\* The host's lowest free descriptor, and the guest's.
LEMMA LowestFree ==
  ASSUME Disk!FdsAssumption, Disk!TypeOK
  PROVE  /\ FreeHost # {} => Disk!Min(FreeHost) \in Disk!HostFds /\ host[Disk!Min(FreeHost)] = Disk!Closed
         /\ FreeGuest # {} => Disk!Min(FreeGuest) \in Disk!Fds /\ fd_map[Disk!Min(FreeGuest)] = -1
<1>1. FreeHost \in SUBSET Nat /\ FreeGuest \in SUBSET Nat
  BY DEF FreeHost, FreeGuest, Disk!HostFds, Disk!Fds, Disk!FdsAssumption
<1>2. FreeHost # {} => Disk!Min(FreeHost) \in FreeHost
  BY <1>1, DiskMin, MinIn
<1>3. FreeGuest # {} => Disk!Min(FreeGuest) \in FreeGuest
  BY <1>1, DiskMin, MinIn
<1> QED BY <1>2, <1>3 DEF FreeHost, FreeGuest

\* A position of a host descriptor moves: its file stays.
LEMMA MovedHost ==
  ASSUME Disk!FdsAssumption, FilesInv, NEW fd \in Disk!Fds, NEW offset \in 0..MaxOffset,
         Moved(fd, offset)
  PROVE  /\ fd_map[fd] \in Disk!HostFds /\ host' \in [Disk!HostFds -> HostFile]
         /\ host'[fd_map[fd]].file = host[fd_map[fd]].file
         /\ host'[fd_map[fd]].offset = offset
         /\ host'[fd_map[fd]] # Disk!Closed /\ host'[fd_map[fd]].file # -1
         /\ \A h \in Disk!HostFds : h # fd_map[fd] => host'[h] = host[h]
<1> DEFINE h == fd_map[fd]
           f == [file |-> host[h].file, offset |-> offset]
<1>1. h \in Disk!HostFds /\ host[h] # Disk!Closed /\ h # -1
  BY DEF Moved, FilesInv, Disk!TypeOK
<1>2. host \in [Disk!HostFds -> HostFile] /\ host[h] \in HostFile
  BY <1>1 DEF FilesInv, Disk!TypeOK, HostFile
<1>3. host[h].file # -1 /\ host[h].file \in Files \cup 0..2
  BY <1>1, <1>2 DEF FilesInv, HostTableSound, HostFile
<1>4. f \in HostFile /\ f # Disk!Closed
  BY <1>3, OpenFile
<1>5. [host[h] EXCEPT !.offset = offset] = f
  BY <1>2 DEF HostFile
<1>6. host' = [host EXCEPT ![h] = f]
  BY <1>5 DEF Moved, Disk!MoveTo
<1>7. f.file = host[h].file /\ f.offset = offset
  OBVIOUS
<1> HIDE DEF f
<1> QED BY <1>1, <1>2, <1>3, <1>4, <1>6, <1>7

\* Every call keeps the types, and loses no host descriptor but as open does.
LEMMA EffectKeepsTables ==
  ASSUME Disk!FdsAssumption, FilesInv, Effect
  PROVE  /\ Disk!TypeOK' /\ HostTableSound' /\ UnsureMapped'
         /\ access' => \A g \in Disk!HostFds :
              host'[g] # Disk!Closed => g \in leaked' \/ \E gd \in Disk!Fds : fd_map'[gd] = g
<1> DEFINE Kept == /\ HostTableSound' /\ UnsureMapped'
                   /\ access' => \A g \in Disk!HostFds :
                        host'[g] # Disk!Closed => g \in leaked' \/ \E gd \in Disk!Fds : fd_map'[gd] = g
<1>1. /\ access \in BOOLEAN /\ alive \in BOOLEAN /\ fd_map \in [Disk!Fds -> Disk!HostFds \cup {-1}]
      /\ host \in [Disk!HostFds -> HostFile] /\ leaked \subseteq Disk!HostFds /\ unsure \subseteq Disk!Fds
  BY DEF FilesInv, Disk!TypeOK, HostFile
<1>2. -1 \notin Disk!HostFds /\ MaxOffset \in Nat
  BY DEF Disk!HostFds, Disk!FdsAssumption
<1>3. looked_up' \in BOOLEAN /\ alive' \in BOOLEAN /\ misused' \in BOOLEAN
  BY DEF Effect
<1>4. /\ HostTableSound /\ UnsureMapped
      /\ access => \A g \in Disk!HostFds :
           host[g] # Disk!Closed => g \in leaked \/ \E gd \in Disk!Fds : fd_map[gd] = g
  BY DEF FilesInv, Disk!LostOnlyWhenFull
<1>5. Disk!Closed \in HostFile /\ Disk!Closed.file = -1
  BY <1>2 DEF Disk!Closed, HostFile
<1>6. ASSUME access' = access, host' \in [Disk!HostFds -> HostFile],
             fd_map' \in [Disk!Fds -> Disk!HostFds \cup {-1}], leaked' \subseteq Disk!HostFds,
             unsure' \subseteq Disk!Fds
      PROVE  Disk!TypeOK'
  BY <1>1, <1>3, <1>6 DEF Disk!TypeOK, HostFile, Disk!Fds, Disk!HostFds
<1>7. ASSUME Quiet PROVE Disk!TypeOK' /\ Kept
  BY <1>1, <1>4, <1>6, <1>7 DEF Quiet, HostTableSound, UnsureMapped
<1>8. ASSUME NEW fd \in Disk!Fds, NEW offset \in 0..MaxOffset, Moved(fd, offset)
      PROVE  Disk!TypeOK' /\ Kept
  <2> DEFINE h == fd_map[fd]
  <2>1. /\ h \in Disk!HostFds /\ host' \in [Disk!HostFds -> HostFile]
        /\ host'[h] # Disk!Closed /\ host'[h].file # -1
        /\ \A g \in Disk!HostFds : g # h => host'[g] = host[g]
    BY <1>8, MovedHost
  <2>2. UNCHANGED <<access, fd_map, leaked, unsure>> /\ host[h] # Disk!Closed
    BY <1>8 DEF Moved, Disk!MoveTo
  <2>3. Kept
    BY <1>4, <2>1, <2>2 DEF HostTableSound, UnsureMapped
  <2> QED BY <1>1, <1>6, <2>1, <2>2, <2>3
<1>9. ASSUME NEW fd \in Disk!Fds, ClosedFd(fd) PROVE Disk!TypeOK' /\ Kept
  <2> DEFINE h == fd_map[fd]
  <2>1. /\ host' = IF access THEN [host EXCEPT ![h] = Disk!Closed] ELSE host
        /\ fd_map' = [fd_map EXCEPT ![fd] = -1] /\ unsure' = unsure \ {fd}
        /\ UNCHANGED <<access, leaked>> /\ h \in Disk!HostFds
    BY <1>1, <1>9 DEF ClosedFd
  <2>2. host' \in [Disk!HostFds -> HostFile] /\ fd_map' \in [Disk!Fds -> Disk!HostFds \cup {-1}]
    BY <1>1, <1>5, <2>1
  <2>3. \A g \in Disk!Fds : g # fd => fd_map'[g] = fd_map[g]
    BY <1>1, <2>1
  <2>4. \A g \in Disk!HostFds : /\ g # h => host'[g] = host[g]
                                /\ host'[h] = IF access THEN Disk!Closed ELSE host[h]
    BY <1>1, <2>1
  <2>5. HostTableSound'
    BY <1>4, <2>1, <2>4 DEF HostTableSound
  <2>6. UnsureMapped'
    BY <1>1, <1>4, <2>1, <2>3 DEF UnsureMapped
  <2>7. ASSUME access, NEW g \in Disk!HostFds, host'[g] # Disk!Closed
        PROVE  g \in leaked' \/ \E gd \in Disk!Fds : fd_map'[gd] = g
    <3>1. g # h /\ host[g] # Disk!Closed
      BY <2>4, <2>7
    <3> QED BY <1>4, <2>1, <2>3, <2>7, <3>1
  <2> QED BY <1>1, <1>6, <2>1, <2>2, <2>5, <2>6, <2>7
<1>10. ASSUME NEW fd \in Disk!Fds, FailedClose(fd) PROVE Disk!TypeOK' /\ Kept
  <2> DEFINE h == fd_map[fd]
  <2>1. /\ host' = host \/ host' = [host EXCEPT ![h] = Disk!Closed]
        /\ unsure' = unsure \cup {fd} /\ UNCHANGED <<access, fd_map, leaked>>
        /\ h \in Disk!HostFds /\ h # -1
    BY <1>1, <1>10 DEF FailedClose
  <2>2. host' \in [Disk!HostFds -> HostFile]
    BY <1>1, <1>5, <2>1
  <2>3. \A g \in Disk!HostFds : host'[g] = host[g] \/ host'[g] = Disk!Closed
    BY <1>1, <2>1
  <2>4. HostTableSound' /\ UnsureMapped'
    BY <1>4, <2>1, <2>3 DEF HostTableSound, UnsureMapped
  <2> QED BY <1>1, <1>4, <1>6, <2>1, <2>2, <2>3, <2>4
<1>11. ASSUME NEW file \in Files, Opened(file) \/ Lost(file) PROVE Disk!TypeOK' /\ Kept
  <2> DEFINE h == Disk!Min(FreeHost)
             d == Disk!Min(FreeGuest)
             f == [file |-> file, offset |-> 0]
  <2>1. h \in Disk!HostFds /\ (Opened(file) => d \in Disk!Fds /\ fd_map[d] = -1)
    BY <1>11, LowestFree DEF Opened, Lost, FilesInv
  <2>2. f \in HostFile /\ f # Disk!Closed /\ f.file # -1
    BY <1>2, OpenFile
  <2>3. /\ host' = [host EXCEPT ![h] = f] /\ UNCHANGED <<access, unsure>>
        /\ \/ d \in Disk!Fds /\ fd_map[d] = -1 /\ fd_map' = [fd_map EXCEPT ![d] = h] /\ leaked' = leaked
           \/ fd_map' = fd_map /\ leaked' = leaked \cup {h}
    BY <1>11, <2>1 DEF Opened, Lost
  <2> HIDE DEF h, d, f
  <2>4. /\ host' \in [Disk!HostFds -> HostFile] /\ leaked' \subseteq Disk!HostFds
        /\ fd_map' \in [Disk!Fds -> Disk!HostFds \cup {-1}]
    BY <1>1, <2>1, <2>2, <2>3
  <2>5. \A g \in Disk!HostFds : g # h => host'[g] = host[g]
    BY <1>1, <2>3
  <2>6. \A gd \in Disk!Fds : fd_map[gd] # -1 => fd_map'[gd] = fd_map[gd]
    BY <1>1, <2>3
  <2>7. leaked \subseteq leaked' /\ (h \in leaked' \/ \E gd \in Disk!Fds : fd_map'[gd] = h)
    BY <1>1, <2>3
  <2>8. HostTableSound'
    BY <1>1, <1>4, <2>1, <2>2, <2>3, <2>5 DEF HostTableSound
  <2>9. UnsureMapped'
    BY <1>1, <1>4, <2>3, <2>6 DEF UnsureMapped
  <2>10. ASSUME access, NEW g \in Disk!HostFds, host'[g] # Disk!Closed
         PROVE  g \in leaked' \/ \E gd \in Disk!Fds : fd_map'[gd] = g
    <3>1. CASE g = h
      BY <2>7, <3>1
    <3>2. CASE g # h
      <4>1. g \in leaked \/ \E gd \in Disk!Fds : fd_map[gd] = g
        BY <1>4, <2>5, <2>10, <3>2
      <4> QED BY <1>2, <2>6, <2>7, <4>1
    <3> QED BY <3>1, <3>2
  <2> QED BY <1>1, <1>6, <2>3, <2>4, <2>8, <2>9, <2>10
<1> QED BY <1>7, <1>8, <1>9, <1>10, <1>11 DEF Effect, Changes

\* As long as the guest uses no descriptor whose close failed, the others stay apart.
LEMMA EffectKeepsApart ==
  ASSUME Disk!FdsAssumption, FilesInv, Effect, ~misused'
  PROVE  /\ \A fd, gd \in Disk!Fds \ unsure' : fd_map'[fd] # -1 /\ fd_map'[fd] = fd_map'[gd] => fd = gd
         /\ \A fd \in Disk!Fds \ unsure' : fd_map'[fd] # -1 => host'[fd_map'[fd]] # Disk!Closed
         /\ \A fd \in Disk!Fds \ unsure' : fd_map'[fd] \notin leaked'
         /\ access' => \A h \in leaked' : host'[h] # Disk!Closed
<1> DEFINE Apart ==
         /\ \A fd, gd \in Disk!Fds \ unsure' : fd_map'[fd] # -1 /\ fd_map'[fd] = fd_map'[gd] => fd = gd
         /\ \A fd \in Disk!Fds \ unsure' : fd_map'[fd] # -1 => host'[fd_map'[fd]] # Disk!Closed
         /\ \A fd \in Disk!Fds \ unsure' : fd_map'[fd] \notin leaked'
         /\ access' => \A h \in leaked' : host'[h] # Disk!Closed
<1>1. /\ access \in BOOLEAN /\ fd_map \in [Disk!Fds -> Disk!HostFds \cup {-1}]
      /\ host \in [Disk!HostFds -> HostFile] /\ leaked \subseteq Disk!HostFds /\ unsure \subseteq Disk!Fds
  BY DEF FilesInv, Disk!TypeOK, HostFile
<1>2. -1 \notin Disk!HostFds
  BY DEF Disk!HostFds, Disk!FdsAssumption
<1>3. ~misused
  BY DEF Effect
<1>4. /\ \A fd, gd \in Disk!Fds \ unsure : fd_map[fd] # -1 /\ fd_map[fd] = fd_map[gd] => fd = gd
      /\ \A fd \in Disk!Fds \ unsure : fd_map[fd] # -1 => host[fd_map[fd]] # Disk!Closed
      /\ \A fd \in Disk!Fds \ unsure : fd_map[fd] \notin leaked
      /\ access => \A h \in leaked : host[h] # Disk!Closed
  BY <1>3 DEF FilesInv, Disk!MapsApart, Disk!HostOpen, LeakedApart, Disk!LostOnlyWhenFull
<1>5. ASSUME Quiet PROVE Apart
  BY <1>4, <1>5 DEF Quiet
<1>6. ASSUME NEW fd \in Disk!Fds, NEW offset \in 0..MaxOffset, Moved(fd, offset) PROVE Apart
  <2>1. /\ host'[fd_map[fd]] # Disk!Closed
        /\ \A g \in Disk!HostFds : g # fd_map[fd] => host'[g] = host[g]
    BY <1>6, MovedHost
  <2>2. UNCHANGED <<access, fd_map, leaked, unsure>>
    BY <1>6 DEF Moved, Disk!MoveTo
  <2>3. \A g \in Disk!HostFds : host[g] # Disk!Closed => host'[g] # Disk!Closed
    BY <2>1
  <2> QED BY <1>1, <1>4, <2>2, <2>3
<1>7. ASSUME NEW fd \in Disk!Fds, ClosedFd(fd) \/ FailedClose(fd), fd \notin unsure PROVE Apart
  <2> DEFINE h == fd_map[fd]
  <2>1. /\ UNCHANGED <<access, leaked>> /\ h \in Disk!HostFds /\ h # -1 /\ h \notin leaked
        /\ \A g \in Disk!HostFds : g # h => host'[g] = host[g]
        /\ \A g \in Disk!Fds : g # fd => fd_map'[g] = fd_map[g]
        /\ unsure \ {fd} \subseteq unsure' /\ (fd \notin unsure' => fd_map'[fd] = -1)
    BY <1>1, <1>4, <1>7 DEF ClosedFd, FailedClose
  <2>2. \A g \in Disk!Fds \ unsure' : g # fd => g \in Disk!Fds \ unsure /\ fd_map[g] # h
    BY <1>4, <1>7, <2>1
  <2> HIDE DEF h
  <2> QED BY <1>1, <1>2, <1>4, <2>1, <2>2
<1>8. ASSUME NEW file \in Files, Opened(file) \/ Lost(file) PROVE Apart
  <2> DEFINE h == Disk!Min(FreeHost)
             d == Disk!Min(FreeGuest)
             f == [file |-> file, offset |-> 0]
  <2>1. /\ h \in Disk!HostFds /\ host[h] = Disk!Closed
        /\ Opened(file) => d \in Disk!Fds /\ fd_map[d] = -1
    BY <1>8, LowestFree DEF Opened, Lost, FilesInv
  <2>2. f # Disk!Closed
    BY OpenFile DEF Disk!FdsAssumption
  <2>3. /\ host' = [host EXCEPT ![h] = f] /\ UNCHANGED <<access, unsure>> /\ access
        /\ \/ d \in Disk!Fds /\ fd_map[d] = -1 /\ fd_map' = [fd_map EXCEPT ![d] = h] /\ leaked' = leaked
           \/ fd_map' = fd_map /\ leaked' = leaked \cup {h}
    BY <1>8, <2>1 DEF Opened, Lost
  <2> HIDE DEF h, d, f
  <2>4. host'[h] # Disk!Closed /\ \A g \in Disk!HostFds : g # h => host'[g] = host[g]
    BY <1>1, <2>1, <2>2, <2>3
  <2>5. h \notin leaked /\ \A g \in Disk!Fds \ unsure : fd_map[g] # h
    BY <1>2, <1>4, <2>1, <2>3
  <2>6. CASE d \in Disk!Fds /\ fd_map[d] = -1 /\ fd_map' = [fd_map EXCEPT ![d] = h] /\ leaked' = leaked
    <3>1. fd_map'[d] = h /\ \A g \in Disk!Fds : g # d => fd_map'[g] = fd_map[g]
      BY <1>1, <2>6
    <3> QED BY <1>1, <1>4, <2>1, <2>3, <2>4, <2>5, <2>6, <3>1
  <2>7. CASE fd_map' = fd_map /\ leaked' = leaked \cup {h}
    BY <1>1, <1>4, <2>1, <2>3, <2>4, <2>5, <2>7
  <2> QED BY <2>3, <2>6, <2>7
<1> QED BY <1>5, <1>6, <1>7, <1>8 DEF Effect, Changes

\* Every call keeps the invariant.
LEMMA EffectKeeps ==
  ASSUME Disk!FdsAssumption, FilesInv, Effect
  PROVE  FilesInv'
<1>1. /\ Disk!TypeOK' /\ HostTableSound' /\ UnsureMapped'
      /\ access' => \A g \in Disk!HostFds :
           host'[g] # Disk!Closed => g \in leaked' \/ \E gd \in Disk!Fds : fd_map'[gd] = g
  BY EffectKeepsTables
<1>2. Disk!MapsApart' /\ LeakedApart'
  BY EffectKeepsApart DEF Disk!MapsApart, Disk!HostOpen, LeakedApart
<1>3. ~misused' => (access' => \A h \in leaked' : host'[h] # Disk!Closed)
  BY EffectKeepsApart
<1>4. Disk!LostOnlyWhenFull'
  BY <1>1, <1>3 DEF Disk!LostOnlyWhenFull
<1> QED BY <1>1, <1>2, <1>4 DEF FilesInv

\* The inductive invariant holds in every state of the file system.
LEMMA FileSystemInvariant ==
  ASSUME Disk!FdsAssumption
  PROVE  Disk!Spec => []FilesInv
<1>1. Disk!Init => FilesInv
  BY FilesInitially
<1>2. FilesInv /\ [Disk!Next]_(Disk!vars) => FilesInv'
  BY StepEffect, EffectKeeps
<1> QED BY <1>1, <1>2, PTL DEF Disk!Spec

\* The types of the tables and of what the calls return.
THEOREM FileSystemTypes ==
  ASSUME Disk!FdsAssumption
  PROVE  Disk!Spec => []Disk!TypeOK
<1>1. Disk!Spec => []FilesInv
  BY FileSystemInvariant
<1>2. FilesInv => Disk!TypeOK
  BY DEF FilesInv
<1> QED BY <1>1, <1>2, PTL

\* No two descriptors of the guest share one of the host and each leads to one that is
\* open, as long as the guest leaves one whose close failed alone; and the host's
\* descriptors that no guest descriptor leads to are those that
\* pn_filesystem_filename_open lost when the guest's table was full.
THEOREM DescriptorsApart ==
  ASSUME Disk!FdsAssumption
  PROVE  Disk!Spec => [](Disk!MapsApart /\ Disk!LostOnlyWhenFull)
<1>1. Disk!Spec => []FilesInv
  BY FileSystemInvariant
<1>2. FilesInv => Disk!MapsApart /\ Disk!LostOnlyWhenFull
  BY DEF FilesInv
<1> QED BY <1>1, <1>2, PTL

-----------------------------------------------------------------------------
(* What a step may do.                                                      *)

\* Without --filesystem-access a call changes at most the position of a standard
\* descriptor.
LEMMA StandardStep ==
  ASSUME Disk!FdsAssumption, FilesInv, Effect, ~access
  PROVE  /\ \A h \in Disk!HostFds : host'[h].file = host[h].file
         /\ \A h \in Disk!HostFds \ 0..2 : host'[h] = host[h]
<1>1. ASSUME NEW fd \in Disk!Fds, NEW offset \in 0..MaxOffset, Moved(fd, offset)
      PROVE  /\ \A h \in Disk!HostFds : host'[h].file = host[h].file
             /\ \A h \in Disk!HostFds \ 0..2 : host'[h] = host[h]
  <2>1. /\ fd_map[fd] \in Disk!HostFds /\ host'[fd_map[fd]].file = host[fd_map[fd]].file
        /\ \A h \in Disk!HostFds : h # fd_map[fd] => host'[h] = host[h]
    BY <1>1, MovedHost
  <2>2. fd_map[fd] \in 0..2
    <3>1. fd_map[fd] <= 2
      BY <1>1 DEF Moved
    <3> QED BY <2>1, <3>1 DEF Disk!HostFds, Disk!FdsAssumption
  <2> QED BY <2>1, <2>2
<1>2. ASSUME Quiet \/ \E fd \in Disk!Fds : ClosedFd(fd)
      PROVE  host' = host
  BY <1>2 DEF Quiet, ClosedFd
<1>3. (\A file \in Files : ~Opened(file) /\ ~Lost(file)) /\ \A fd \in Disk!Fds : ~FailedClose(fd)
  BY DEF Opened, Lost, FailedClose
<1> QED BY <1>1, <1>2, <1>3 DEF Effect, Changes

\* The access option is kept: without it no file of the host is opened, closed or
\* replaced, and only the standard descriptors are read and written.
THEOREM AccessRespected ==
  ASSUME Disk!FdsAssumption
  PROVE  Disk!Spec => Disk!StandardOnly
<1>1. Disk!Spec => []FilesInv
  BY FileSystemInvariant
<1> DEFINE Step == ~access => /\ \A h \in Disk!HostFds : host'[h].file = host[h].file
                              /\ \A h \in Disk!HostFds \ 0..2 : host'[h] = host[h]
<1>2. FilesInv /\ [Disk!Next]_(Disk!vars) => [Step]_(Disk!vars)
  BY StepEffect, StandardStep
<1> QED BY <1>1, <1>2, PTL DEF Disk!Spec, Disk!StandardOnly

-----------------------------------------------------------------------------
(* The two tables implement the one of FdTable.                             *)

\* What a guest descriptor leads to: the refinement mapping of Disk!Guest.
Table == [fd \in Disk!Fds |-> IF fd_map[fd] = -1 THEN Disk!Closed
                              ELSE IF fd \in unsure THEN Disk!Unsure ELSE host[fd_map[fd]]]

\* A descriptor of the guest is free exactly if it is not mapped, and the guest knows what
\* it leads to unless its close failed.
LEMMA TableOpen ==
  ASSUME Disk!FdsAssumption, FilesInv, ~misused
  PROVE  /\ \A fd \in Disk!Fds : Table[fd] = Disk!Closed <=> fd_map[fd] = -1
         /\ \A fd \in Disk!Fds : fd_map[fd] # -1 /\ fd \notin unsure =>
              Table[fd] # Disk!Unsure /\ Table[fd] = host[fd_map[fd]]
<1>1. Disk!Closed # Disk!Unsure
  BY DEF Disk!Closed, Disk!Unsure
<1>2. -2 \notin Files
  BY DEF Disk!FdsAssumption
<1>3. Disk!Unsure.file = -2
  BY DEF Disk!Unsure
<1>4. ASSUME NEW fd \in Disk!Fds, fd_map[fd] # -1, fd \notin unsure
      PROVE  Table[fd] = host[fd_map[fd]] /\ Table[fd] # Disk!Closed /\ Table[fd] # Disk!Unsure
  <2>1. Table[fd] = host[fd_map[fd]] /\ fd_map[fd] \in Disk!HostFds
    BY <1>4 DEF Table, FilesInv, Disk!TypeOK
  <2>2. host[fd_map[fd]].file # -2
    BY <1>2, <2>1 DEF FilesInv, Disk!TypeOK
  <2>3. host[fd_map[fd]] # Disk!Closed
    BY <1>4 DEF FilesInv, Disk!MapsApart, Disk!HostOpen
  <2> QED BY <1>3, <2>1, <2>2, <2>3
<1> QED BY <1>1, <1>4 DEF Table

\* pn_executor_init opens the standard descriptors.
LEMMA TableInit ==
  ASSUME Disk!FdsAssumption, Disk!Init
  PROVE  Disk!Guest!Init
<1>1. /\ fd_map = [fd \in Disk!Fds |-> IF fd <= 2 THEN fd ELSE -1]
      /\ host = [h \in Disk!HostFds |-> IF h <= 2 THEN [file |-> h, offset |-> 0] ELSE Disk!Closed]
      /\ answer = <<"init">> /\ unsure = {} /\ misused = FALSE
  BY DEF Disk!Init
<1>2. ASSUME NEW fd \in Disk!Fds
      PROVE  Table[fd] = IF fd <= 2 THEN [file |-> fd, offset |-> 0] ELSE Disk!Closed
  <2>1. CASE fd <= 2
    <3>1. fd \in Disk!HostFds /\ fd # -1 /\ fd_map[fd] = fd
      BY <1>1, <2>1 DEF Disk!Fds, Disk!HostFds, Disk!FdsAssumption
    <3> QED BY <1>1, <2>1, <3>1 DEF Table
  <2>2. CASE ~(fd <= 2)
    BY <1>1, <2>2 DEF Table
  <2> QED BY <2>1, <2>2
<1>3. Table = [fd \in Disk!Fds |-> IF fd <= 2 THEN [file |-> fd, offset |-> 0] ELSE Disk!Closed]
  BY <1>2 DEF Table
<1> QED BY <1>1, <1>3 DEF Disk!Guest!Init, Disk!Guest!Fds, Disk!Fds, Table

\* As long as the guest uses no descriptor whose close failed, every call is one step of
\* its table, or changes neither the table nor what the guest sees.
LEMMA TableStep ==
  ASSUME Disk!FdsAssumption, FilesInv, FilesInv', Effect, ~misused'
  PROVE  Disk!Guest!Call \/ UNCHANGED <<Table, answer>>
<1>1. /\ fd_map \in [Disk!Fds -> Disk!HostFds \cup {-1}] /\ host \in [Disk!HostFds -> HostFile]
      /\ fd_map' \in [Disk!Fds -> Disk!HostFds \cup {-1}] /\ host' \in [Disk!HostFds -> HostFile]
  <2>1. Disk!Fds' = Disk!Fds /\ Disk!HostFds' = Disk!HostFds
    BY DEF Disk!Fds, Disk!HostFds
  <2> QED BY <2>1 DEF FilesInv, Disk!TypeOK, HostFile
<1>2. -1 \notin Disk!HostFds /\ ~misused
  BY DEF Disk!HostFds, Disk!FdsAssumption, Effect
<1>3. Table' = [fd \in Disk!Fds |-> IF fd_map'[fd] = -1 THEN Disk!Closed
                                   ELSE IF fd \in unsure' THEN Disk!Unsure ELSE host'[fd_map'[fd]]]
  BY DEF Table, Disk!Fds, Disk!Unsure
<1>4. /\ \A fd \in Disk!Fds : Table[fd] = Disk!Closed <=> fd_map[fd] = -1
      /\ \A fd \in Disk!Fds : fd_map[fd] # -1 /\ fd \notin unsure =>
           Table[fd] # Disk!Unsure /\ Table[fd] = host[fd_map[fd]]
      /\ \A fd, gd \in Disk!Fds \ unsure : fd_map[fd] # -1 /\ fd_map[fd] = fd_map[gd] => fd = gd
      /\ \A fd \in Disk!Fds \ unsure : fd_map[fd] # -1 => host[fd_map[fd]] # Disk!Closed
  BY <1>2, TableOpen DEF FilesInv, Disk!MapsApart, Disk!HostOpen
<1>5. ASSUME NEW fd \in Disk!Fds, fd_map[fd] # -1, fd \notin unsure PROVE fd \in Disk!Guest!Known
  BY <1>4, <1>5 DEF Disk!Guest!Known, Disk!Guest!Fds, Disk!Fds, Table
<1>6. ASSUME Quiet, answer' = answer
      PROVE  UNCHANGED <<Table, answer>>
  BY <1>6 DEF Quiet, Table
<1>7. ASSUME Quiet,
             answer' = Disk!Error \/ (\E fd : answer' = <<"look", fd>>) \/ answer' = <<"look">>
      PROVE  Disk!Guest!Call
  <2>1. Table' = Table
    BY <1>7 DEF Quiet, Table
  <2>2. answer'[1] \in {"error", "look"}
    BY <1>7 DEF Disk!Error
  <2> QED BY <2>1, <2>2 DEF Disk!Guest!Call, Disk!Guest!Fails, Table
<1>8. ASSUME NEW fd \in Disk!Fds, NEW offset \in 0..MaxOffset, Moved(fd, offset), fd \notin unsure
      PROVE  Disk!Guest!Call
  <2> DEFINE h == fd_map[fd]
  <2>1. /\ h \in Disk!HostFds /\ host'[h].file = host[h].file /\ host'[h].offset = offset
        /\ \A g \in Disk!HostFds : g # h => host'[g] = host[g]
    BY <1>8, MovedHost
  <2>2. /\ fd_map' = fd_map /\ unsure' = unsure /\ h # -1 /\ answer' = <<"move", fd>>
        /\ host' = [host EXCEPT ![h].offset = offset]
    BY <1>8 DEF Moved, Disk!MoveTo
  <2>3. Table[fd] = host[h] /\ Table'[fd] = host'[h]
    BY <1>3, <1>4, <1>8, <2>2
  <2>4. \A g \in Disk!Fds : g # fd => Table'[g] = Table[g]
    BY <1>1, <1>3, <1>4, <1>8, <2>1, <2>2 DEF Table
  <2>5. host'[h] = [host[h] EXCEPT !.offset = offset]
    BY <1>1, <2>1, <2>2
  <2>6. Table' = [Table EXCEPT ![fd].offset = Table'[fd].offset]
    <3>1. Table' = [Table EXCEPT ![fd] = [Table[fd] EXCEPT !.offset = Table'[fd].offset]]
      <4> DEFINE u == [Table EXCEPT ![fd] = [Table[fd] EXCEPT !.offset = Table'[fd].offset]]
      <4>1. Table'[fd] = [Table[fd] EXCEPT !.offset = Table'[fd].offset]
        BY <2>1, <2>3, <2>5
      <4>2. DOMAIN u = Disk!Fds /\ DOMAIN Table' = Disk!Fds
        BY <1>3 DEF Table
      <4>3. \A g \in Disk!Fds : Table'[g] = u[g]
        BY <2>4, <4>1 DEF Table
      <4> QED BY <1>3, <4>2, <4>3 DEF Table
    <3> QED BY <3>1
  <2>7. Disk!Guest!Move(fd)
    BY <2>1, <2>2, <2>3, <2>6 DEF Disk!Guest!Move, Table
  <2> QED BY <1>5, <1>8, <2>2, <2>7 DEF Disk!Guest!Call
<1>9. ASSUME NEW fd \in Disk!Fds, ClosedFd(fd) \/ FailedClose(fd), fd \notin unsure
      PROVE  Disk!Guest!Call
  <2> DEFINE h == fd_map[fd]
             e == IF ClosedFd(fd) THEN Disk!Closed ELSE Disk!Unsure
  <2>1. h \in Disk!HostFds /\ h # -1 /\ fd \in Disk!Guest!Known
    BY <1>1, <1>5, <1>9 DEF ClosedFd, FailedClose
  <2>2. /\ \A g \in Disk!HostFds : g # h => host'[g] = host[g]
        /\ \A g \in Disk!Fds : g # fd => fd_map'[g] = fd_map[g] /\ (g \in unsure' <=> g \in unsure)
        /\ IF ClosedFd(fd) THEN fd_map'[fd] = -1 /\ answer' = <<"close", fd>>
           ELSE fd_map'[fd] # -1 /\ fd \in unsure' /\ answer' = Disk!Error
    BY <1>1, <1>9, <2>1 DEF ClosedFd, FailedClose
  <2> HIDE DEF h
  <2>3. ASSUME NEW g \in Disk!Fds PROVE Table'[g] = IF g = fd THEN e ELSE Table[g]
    <3>1. CASE g = fd
      BY <1>3, <2>2, <3>1
    <3>2. CASE g # fd
      <4>1. fd_map[g] # -1 /\ g \notin unsure => fd_map[g] # h
        BY <1>4, <1>9, <2>1, <3>2 DEF h
      <4> QED BY <1>1, <1>3, <2>2, <3>2, <4>1 DEF Table
    <3> QED BY <3>1, <3>2
  <2>4. Table' = [Table EXCEPT ![fd] = e]
    <3> HIDE DEF e
    <3> QED BY <1>3, <2>3 DEF Table
  <2>5. CASE ClosedFd(fd)
    <3>1. Disk!Guest!Close(fd)
      BY <2>2, <2>4, <2>5 DEF Disk!Guest!Close, Table
    <3> QED BY <2>1, <3>1 DEF Disk!Guest!Call
  <2>6. CASE ~ClosedFd(fd)
    <3>1. answer'[1] = "error"
      BY <2>2, <2>6 DEF Disk!Error
    <3>2. Disk!Guest!CloseFails(fd)
      BY <2>4, <2>6, <3>1 DEF Disk!Guest!CloseFails, Table
    <3> QED BY <2>1, <3>2 DEF Disk!Guest!Call
  <2> QED BY <2>5, <2>6
<1>10. ASSUME NEW file \in Files, Opened(file)
       PROVE  Disk!Guest!Call
  <2> DEFINE h == Disk!Min(FreeHost)
             d == Disk!Min(FreeGuest)
             f == [file |-> file, offset |-> 0]
  <2>1. h \in Disk!HostFds /\ host[h] = Disk!Closed /\ d \in Disk!Fds /\ fd_map[d] = -1
    BY <1>10, LowestFree DEF Opened, FilesInv
  <2>2. /\ host' = [host EXCEPT ![h] = f] /\ fd_map' = [fd_map EXCEPT ![d] = h]
        /\ answer' = <<"open", d>> /\ FreeGuest # {} /\ unsure' = unsure
    BY <1>10 DEF Opened
  <2>3. f.offset = 0 /\ d \notin unsure
    BY <2>1 DEF FilesInv, UnsureMapped
  <2>4. Disk!Guest!Free = FreeGuest
    BY <1>4 DEF Disk!Guest!Free, Disk!Guest!Fds, Disk!Fds, FreeGuest, Table
  <2> HIDE DEF h, d, f
  <2>5. ASSUME NEW g \in Disk!Fds PROVE Table'[g] = IF g = d THEN f ELSE Table[g]
    <3>1. CASE g = d
      <4>1. fd_map'[g] = h /\ h # -1 /\ host'[h] = f
        BY <1>1, <1>2, <2>1, <2>2, <3>1
      <4> QED BY <1>3, <2>2, <2>3, <3>1, <4>1
    <3>2. CASE g # d
      <4>1. fd_map'[g] = fd_map[g] /\ (fd_map[g] # -1 /\ g \notin unsure => fd_map[g] # h)
        BY <1>1, <1>4, <2>1, <2>2, <3>2
      <4>2. \A e \in Disk!HostFds : e # h => host'[e] = host[e]
        BY <1>1, <2>1, <2>2
      <4> QED BY <1>1, <1>3, <2>2, <3>2, <4>1, <4>2 DEF Table
    <3> QED BY <3>1, <3>2
  <2>6. Table'[d] = f /\ Table' = [Table EXCEPT ![d] = f]
    BY <1>3, <2>1, <2>5 DEF Table
  <2>7. Table' = [Table EXCEPT ![d] = Table'[d]]
    BY <2>6
  <2>8. Disk!Guest!Min(Disk!Guest!Free) = d
    BY <2>4 DEF Disk!Guest!Min, Disk!Min, d
  <2>9. Disk!Guest!Open
    BY <2>2, <2>3, <2>4, <2>6, <2>7, <2>8 DEF Disk!Guest!Open, Table
  <2> QED BY <2>9 DEF Disk!Guest!Call
<1>11. ASSUME NEW file \in Files, Lost(file)
       PROVE  Disk!Guest!Call
  <2> DEFINE h == Disk!Min(FreeHost)
  <2>1. h \in Disk!HostFds /\ host[h] = Disk!Closed
    BY <1>11, LowestFree DEF Lost, FilesInv
  <2>2. /\ host' = [host EXCEPT ![h] = [file |-> file, offset |-> 0]]
        /\ fd_map' = fd_map /\ answer' = Disk!Error /\ unsure' = unsure
    BY <1>11 DEF Lost
  <2> HIDE DEF h
  <2>3. \A fd \in Disk!Fds \ unsure : fd_map[fd] # -1 => fd_map[fd] # h
    BY <1>4, <2>1
  <2>4. \A g \in Disk!HostFds : g # h => host'[g] = host[g]
    BY <1>1, <2>1, <2>2
  <2>5. Table' = Table
    BY <1>1, <1>3, <2>2, <2>3, <2>4 DEF Table
  <2>6. answer'[1] \in {"error", "look"}
    BY <2>2 DEF Disk!Error
  <2> QED BY <2>5, <2>6 DEF Disk!Guest!Call, Disk!Guest!Fails, Table
<1> QED BY <1>6, <1>7, <1>8, <1>9, <1>10, <1>11 DEF Effect, Changes

\* A step of the file system is one of the guest's table.
LEMMA TableSteps ==
  ASSUME Disk!FdsAssumption, FilesInv, FilesInv', Effect
  PROVE  [Disk!Guest!Next]_<<Table, answer, misused>>
<1>1. misused \in BOOLEAN /\ misused' \in BOOLEAN
  BY DEF FilesInv, Disk!TypeOK
<1>2. CASE misused'
  <2>1. CASE misused
    BY <1>1, <1>2, <2>1 DEF Disk!Guest!Next
  <2>2. CASE ~misused
    <3>1. PICK fd \in unsure : TRUE
      BY <1>2, <2>2 DEF Effect
    <3>2. fd \in Disk!Fds /\ fd_map[fd] # -1
      BY <3>1 DEF FilesInv, Disk!TypeOK, UnsureMapped
    <3>3. Table[fd] = Disk!Unsure
      BY <3>1, <3>2 DEF Table
    <3>4. Disk!Guest!Misuse
      BY <3>2, <3>3 DEF Disk!Guest!Misuse, Disk!Guest!Fds, Disk!Fds, Table
    <3> QED BY <1>1, <1>2, <3>4 DEF Disk!Guest!Next
  <2> QED BY <2>1, <2>2
<1>3. CASE ~misused'
  <2>1. ~misused
    BY <1>3 DEF Effect
  <2>2. Disk!Guest!Call \/ UNCHANGED <<Table, answer>>
    BY <1>3, TableStep
  <2> QED BY <1>1, <1>3, <2>1, <2>2 DEF Disk!Guest!Next
<1> QED BY <1>2, <1>3

\* pn_filesystem.h implements a table of descriptors as a guest expects it: an open takes
\* the lowest free one, a call on one descriptor leaves the others alone, and a call that
\* fails changes nothing, other than a close, after which the guest has to leave the
\* descriptor alone.
THEOREM FileSystemImplementsFdTable ==
  ASSUME Disk!FdsAssumption
  PROVE  Disk!Spec => Disk!ImplementsFdTable
<1>1. Disk!Spec => []FilesInv
  BY FileSystemInvariant
<1>2. Disk!Init => Disk!Guest!Init
  BY TableInit
<1>3. FilesInv /\ FilesInv' /\ [Disk!Next]_(Disk!vars) => [Disk!Guest!Next]_<<Table, answer, misused>>
  BY StepEffect, TableSteps
<1> QED BY <1>1, <1>2, <1>3, PTL DEF Disk!Spec, Disk!ImplementsFdTable, Disk!Guest!Spec, Table

-----------------------------------------------------------------------------
(* EventLoop: whatever the other thread does, the event that creates the    *)
(* application and the one that asks for its interface take turns.          *)

\* A list of two elements at most, from e on.
LEMMA ChainOfTwo ==
  ASSUME Loop!LoopAssumption, NEW links, NEW e, NEW end, NEW x, NEW y,
         x = IF e = end \/ e = Loop!NULL THEN e ELSE links[e],
         y = IF x = end \/ x = Loop!NULL THEN x ELSE links[x],
         y = end \/ y = Loop!NULL
  PROVE  /\ Loop!ChainSet(links, e, end) = {e, x, y} \ {end, Loop!NULL}
         /\ Loop!Chain(links, e, end)[MaxEvents] = y
<1> DEFINE rec(g) == [k \in 0..MaxEvents |->
                        IF k = 0 THEN e
                        ELSE IF g[k - 1] = end \/ g[k - 1] = Loop!NULL THEN g[k - 1]
                        ELSE links[g[k - 1]]]
           f     == [k \in 0..MaxEvents |-> IF k = 0 THEN e ELSE IF k = 1 THEN x ELSE y]
           at    == CHOOSE g : g = rec(g)
           chain == Loop!Chain(links, e, end)
<1>1. MaxEvents \in Nat /\ MaxEvents >= 2
  BY DEF Loop!LoopAssumption
<1>2. ASSUME NEW k \in 0..MaxEvents
      PROVE  f[k] = IF k = 0 THEN e
                    ELSE IF f[k - 1] = end \/ f[k - 1] = Loop!NULL THEN f[k - 1]
                    ELSE links[f[k - 1]]
  <2>1. CASE k = 0
    BY <1>1, <2>1
  <2>2. CASE k = 1
    <3>1. f[0] = e /\ f[1] = x
      BY <1>1
    <3> QED BY <2>2, <3>1
  <2>3. CASE k > 1
    <3>1. k - 1 \in 0..MaxEvents /\ k - 1 # 0 /\ k # 1 /\ k # 0
      BY <1>1, <2>3
    <3>2. f[k] = y /\ (k - 1 = 1 => f[k - 1] = x) /\ (k - 1 # 1 => f[k - 1] = y)
      BY <3>1
    <3> HIDE DEF f
    <3> QED BY <3>1, <3>2
  <2> QED BY <2>1, <2>2, <2>3, <1>1
<1>3. f = rec(f)
  <2>1. f = [k \in 0..MaxEvents |-> f[k]]
    OBVIOUS
  <2> HIDE DEF f
  <2> QED BY <1>2, <2>1
<1>4. at = rec(at)
  <2> HIDE DEF f, rec
  <2> QED BY <1>3
<1>5. \A k \in 0..MaxEvents : at[k] = IF k = 0 THEN e
                    ELSE IF at[k - 1] = end \/ at[k - 1] = Loop!NULL THEN at[k - 1]
                    ELSE links[at[k - 1]]
  <2> HIDE DEF at
  <2> QED BY <1>4
<1> HIDE DEF at, f
<1> DEFINE Good == {k \in 0..MaxEvents : at[k] = f[k]}
<1>6. 0 \in Good
  BY <1>1, <1>2, <1>5
<1>7. \A k \in 0..MaxEvents : k < MaxEvents /\ k \in Good => k + 1 \in Good
  <2> SUFFICES ASSUME NEW k \in 0..MaxEvents, k < MaxEvents, at[k] = f[k]
               PROVE  at[k + 1] = f[k + 1] /\ k + 1 \in 0..MaxEvents
    OBVIOUS
  <2>1. k + 1 \in 0..MaxEvents /\ (k + 1) - 1 = k /\ k + 1 # 0
    BY <1>1
  <2> QED BY <1>2, <1>5, <2>1
<1>8. \A k \in 0..MaxEvents : at[k] = f[k]
  BY <1>1, <1>6, <1>7, NatSetUpTo
<1>9. chain = [k \in 0..MaxEvents |-> at[k]]
  BY DEF Loop!Chain, at
<1>10. \A k \in 0..MaxEvents : chain[k] = IF k = 0 THEN e ELSE IF k = 1 THEN x ELSE y
  <2> HIDE DEF chain
  <2> QED BY <1>8, <1>9 DEF f
<1> HIDE DEF chain
<1>11. {chain[k] : k \in 0..MaxEvents} = {e, x, y}
  <2>1. 0 \in 0..MaxEvents /\ 1 \in 0..MaxEvents /\ 2 \in 0..MaxEvents
    BY <1>1
  <2>2. chain[0] = e /\ chain[1] = x /\ chain[2] = y
    BY <1>10, <2>1
  <2> QED BY <1>10, <2>1, <2>2
<1>12. Loop!ChainSet(links, e, end) = {chain[k] : k \in 0..MaxEvents} \ {end, Loop!NULL}
  BY DEF Loop!ChainSet, chain
<1>13. MaxEvents \in 0..MaxEvents /\ MaxEvents # 0 /\ MaxEvents # 1
  BY <1>1
<1> QED BY <1>10, <1>11, <1>12, <1>13 DEF chain

-----------------------------------------------------------------------------
(* The ring.                                                                *)

Links == [Loop!Threads -> Loop!Threads \cup {"none"}]

\* Before the loop starts nothing has moved; then the event thread is alone in the ring or
\* with the other one.
RingInv ==
  /\ next \in Links /\ prev \in Links
  /\ state \in [start : {"RUNNING", "EVENT_LOOP"}, event : {"none", "RUNNING", "IDLE", "fatal"}]
  /\ ~Loop!Started =>
       /\ thread = "start" /\ prev = next
       /\ \/ next["start"] = "start" /\ next["other"] = "none"
          \/ next["start"] = "other" /\ next["other"] = "start"
  /\ Loop!Started =>
       /\ state["start"] = "EVENT_LOOP"
       /\ \/ next["event"] = "event" /\ next["other"] = "none" /\ thread = "event"
          \/ /\ next["event"] = "other" /\ next["other"] = "event" /\ thread \in {"event", "other"}
             /\ prev["event"] = "other" /\ prev["other"] = "event"

\* Before the loop starts the ring is as pn_executor_init, and thread_create, left it.
LEMMA RingInitially == ASSUME Loop!Init PROVE RingInv
<1>1. next \in Links
  BY DEF Loop!Init, Links, Loop!Threads
<1>2. prev = next
  BY DEF Loop!Init
<1>3. \/ next["start"] = "start" /\ next["other"] = "none"
      \/ next["start"] = "other" /\ next["other"] = "start"
  BY DEF Loop!Init, Loop!Threads
<1>4. state = [start |-> "RUNNING", event |-> "none"] /\ thread = "start"
  BY DEF Loop!Init
<1> QED BY <1>1, <1>2, <1>3, <1>4 DEF RingInv, Loop!Started

\* What a turn of the event thread does to its state.
LEMMA HandledState ==
  ASSUME NEW p, NEW table, Loop!HandleNext(p, table)
  PROVE  \E s \in {"RUNNING", "IDLE", "fatal"} : state' = [state EXCEPT !["event"] = s]
BY DEF Loop!HandleNext, Loop!Push, Loop!Rest

\* Every step leaves the ring whole.
LEMMA RingKept == ASSUME RingInv, [Loop!Next]_(Loop!vars) PROVE RingInv'
<1> USE DEF RingInv, Loop!Started, Links, Loop!Threads
<1>1. CASE Loop!PpapiStart
  <2> USE <1>1 DEF Loop!PpapiStart, Loop!Replaced
  <2>1. state["event"] = "none"
    OBVIOUS
  <2>2. state' = [start |-> "EVENT_LOOP", event |-> "RUNNING"] /\ thread' = "event"
    OBVIOUS
  <2>3. CASE next["start"] = "start" /\ next["other"] = "none"
    <3>1. next' \in Links /\ prev' \in Links /\ next'["event"] = "event" /\ next'["other"] = "none"
      BY <2>1, <2>3
    <3> QED BY <2>2, <3>1
  <2>4. CASE next["start"] = "other" /\ next["other"] = "start"
    <3>1. next' \in Links /\ prev' \in Links /\ next'["event"] = "other" /\ next'["other"] = "event"
          /\ prev'["event"] = "other" /\ prev'["other"] = "event"
      BY <2>1, <2>4
    <3> QED BY <2>2, <3>1
  <2> QED BY <2>1, <2>3, <2>4
<1>2. CASE Loop!Yield
  BY <1>2 DEF Loop!Yield
<1>3. CASE Loop!CreateThread
  BY <1>3 DEF Loop!CreateThread
<1>4. CASE Loop!OtherExits
  BY <1>4 DEF Loop!OtherExits
<1>5. CASE (\E value \in {"none", "table"} : Loop!EventReturns(value)) \/ Loop!EventIdle
  <2>1. /\ thread = "event" /\ thread' = next["event"] /\ next' = next /\ prev' = prev
        /\ \E p, table : Loop!HandleNext(p, table)
    BY <1>5 DEF Loop!EventReturns, Loop!EventIdle
  <2>2. PICK s \in {"RUNNING", "IDLE", "fatal"} : state' = [state EXCEPT !["event"] = s]
    BY <2>1, HandledState
  <2>3. state'["event"] = s /\ state'["start"] = state["start"]
        /\ state' \in [start : {"RUNNING", "EVENT_LOOP"},
                       event : {"none", "RUNNING", "IDLE", "fatal"}]
    BY <2>2
  <2> QED BY <2>1, <2>3
<1>6. CASE UNCHANGED Loop!vars
  BY <1>6 DEF Loop!vars
<1> QED BY <1>1, <1>2, <1>3, <1>4, <1>5, <1>6 DEF Loop!Next, Loop!Ended

\* The invariant gives the property.
LEMMA RingSound == ASSUME RingInv PROVE Loop!RingWithoutStart
<1> DEFINE live == {t \in {"event", "other"} : next[t] # "none"}
<1> SUFFICES ASSUME Loop!Started
             PROVE  /\ "event" \in live /\ thread \in live
                    /\ {next[t] : t \in live} = live
                    /\ Loop!Cardinality(live) > 1 => \A t \in live : prev[next[t]] = t
  BY DEF Loop!RingWithoutStart
<1>1. CASE next["event"] = "event" /\ next["other"] = "none" /\ thread = "event"
  <2>1. live = {"event"}
    BY <1>1
  <2>2. Loop!Cardinality(live) = Cardinality(live)
    BY DEF Loop!Cardinality, Cardinality
  <2>3. Loop!Cardinality(live) = 1
    BY <2>1, <2>2, FS_Singleton
  <2> HIDE DEF live
  <2> QED BY <1>1, <2>1, <2>3
<1>2. CASE /\ next["event"] = "other" /\ next["other"] = "event" /\ thread \in {"event", "other"}
           /\ prev["event"] = "other" /\ prev["other"] = "event"
  <2>1. live = {"event", "other"}
    BY <1>2
  <2> HIDE DEF live
  <2> QED BY <1>2, <2>1
<1> QED BY <1>1, <1>2 DEF RingInv

-----------------------------------------------------------------------------
(* The queue.  Event 1 is the one for DidCreate, event 2 asks for an        *)
(* interface.                                                               *)

Kinds == {"DID_CREATE"} \cup Loop!Interfaces

\* The events p, of which there are k.
OfEvents(p, k) ==
  /\ p \in [type : Seq(Kinds), next : [0..k -> -1..2], prev : [0..k -> -1..2],
            free_events : -1..2, current_event : -1..2]
  /\ Len(p.type) = k

\* Only event 1 is there, in the queue.
First(p) ==
  /\ OfEvents(p, 1) /\ p.type[1] = "DID_CREATE"
  /\ p.next[0] = 1 /\ p.next[1] = 0 /\ p.prev[0] = 1 /\ p.prev[1] = 0
  /\ p.free_events = Loop!NULL

\* It is in none of the lists.
Alone(p) ==
  /\ OfEvents(p, 1) /\ p.type[1] = "DID_CREATE"
  /\ p.next[0] = 0 /\ p.prev[0] = 0 /\ p.free_events = Loop!NULL

\* Both are there, the second for interface i.
Both(p, i) == OfEvents(p, 2) /\ p.type[1] = "DID_CREATE" /\ p.type[2] = i

\* Event 1 is queued behind event 2.
Waiting(p, i) ==
  /\ Both(p, i)
  /\ p.next[0] = 2 /\ p.next[2] = 1 /\ p.next[1] = 0
  /\ p.prev[0] = 1 /\ p.prev[1] = 2 /\ p.prev[2] = 0
  /\ p.free_events = Loop!NULL

\* Event 1 is queued; event 2 is in none of the lists.
Asking(p, i) ==
  /\ Both(p, i)
  /\ p.next[0] = 1 /\ p.next[1] = 0 /\ p.prev[0] = 1 /\ p.prev[1] = 0
  /\ p.free_events = Loop!NULL

\* Event 1 is queued, event 2 is free.
Answered(p, i) ==
  /\ Both(p, i)
  /\ p.next[0] = 1 /\ p.next[1] = 0 /\ p.prev[0] = 1 /\ p.prev[1] = 0
  /\ p.free_events = 2 /\ p.next[2] = Loop!NULL

\* Event 1 is in none of the lists, event 2 is free.
Creating(p, i) ==
  /\ Both(p, i)
  /\ p.next[0] = 0 /\ p.prev[0] = 0
  /\ p.free_events = 2 /\ p.next[2] = Loop!NULL

\* Both are free.
Over(p, i) ==
  /\ Both(p, i)
  /\ p.next[0] = 0 /\ p.prev[0] = 0
  /\ p.free_events = 1 /\ p.next[1] = 2 /\ p.next[2] = Loop!NULL

\* pn_event_dequeue takes event 1 from a queue that has no other.
LEMMA DequeueFirst ==
  ASSUME NEW p, First(p)
  PROVE  Alone(Loop!Dequeue(p))
<1> DEFINE q == Loop!Dequeue(p)
<1> USE DEF Loop!Sentinel, Loop!NULL
<1>1. /\ p \in [type : Seq(Kinds), next : [0..1 -> -1..2], prev : [0..1 -> -1..2],
                free_events : -1..2, current_event : -1..2]
      /\ p.next[0] = 1 /\ p.next[1] = 0 /\ p.prev[0] = 1 /\ p.prev[1] = 0
  BY DEF First, OfEvents
<1>2. /\ q = [[p EXCEPT !.next[0] = 0, !.prev[0] = 0] EXCEPT !.next[1] = -1, !.prev[1] = -1]
  BY <1>1 DEF Loop!Dequeue
<1>3. /\ q \in [type : Seq(Kinds), next : [0..1 -> -1..2], prev : [0..1 -> -1..2],
                free_events : -1..2, current_event : -1..2]
  <2>1. q = [p EXCEPT !.next = [p.next EXCEPT ![0] = 0, ![1] = -1],
                      !.prev = [p.prev EXCEPT ![0] = 0, ![1] = -1]]
    BY <1>1, <1>2
  <2>2. \A f \in [0..1 -> -1..2] : [f EXCEPT ![0] = 0, ![1] = -1] \in [0..1 -> -1..2]
    OBVIOUS
  <2>3. p.next \in [0..1 -> -1..2] /\ p.prev \in [0..1 -> -1..2]
    BY <1>1
  <2> QED BY <1>1, <2>1, <2>2, <2>3
<1>4. q.type = p.type /\ q.free_events = p.free_events /\ q.next[0] = 0 /\ q.prev[0] = 0
  BY <1>1, <1>2
<1> HIDE DEF q
<1> QED BY <1>3, <1>4 DEF First, Alone, OfEvents

\* ... also when event 2 is free.
LEMMA DequeueAnswered ==
  ASSUME NEW i \in Loop!Interfaces, NEW p, Answered(p, i)
  PROVE  Creating(Loop!Dequeue(p), i) /\ Loop!Dequeue(p).current_event = p.current_event
BY DEF Answered, Creating, Both, OfEvents, Loop!Dequeue, Loop!Sentinel, Loop!NULL

\* It takes event 2 when event 1 waits behind it.
LEMMA DequeueWaiting ==
  ASSUME NEW i \in Loop!Interfaces, NEW p, Waiting(p, i)
  PROVE  Asking(Loop!Dequeue(p), i)
BY DEF Waiting, Asking, Both, OfEvents, Loop!Dequeue, Loop!Sentinel, Loop!NULL

\* pn_event_free
LEMMA FreeAsked ==
  ASSUME NEW i \in Loop!Interfaces, NEW p, Asking(p, i)
  PROVE  Answered(Loop!Free(p, 2), i)
BY DEF Answered, Asking, Both, OfEvents, Loop!Free, Loop!NULL

\* The free list is a stack: event 1 comes before event 2.
LEMMA FreeCreated ==
  ASSUME NEW i \in Loop!Interfaces, NEW p, Creating(p, i)
  PROVE  Over(Loop!Free(p, 1), i)
BY DEF Creating, Over, Both, OfEvents, Loop!Free, Loop!NULL

\* Both events are in none of the lists.
Fresh(p, i) ==
  /\ Both(p, i)
  /\ p.next[0] = 0 /\ p.prev[0] = 0
  /\ p.free_events = Loop!NULL

\* Event 2 is queued, event 1 is in none of the lists.
Half(p, i) ==
  /\ Both(p, i)
  /\ p.next[0] = 2 /\ p.next[2] = 0 /\ p.prev[0] = 2 /\ p.prev[2] = 0
  /\ p.free_events = Loop!NULL

\* pn_event_allocate, from the arena and from the free list.
LEMMA AllocateSecond ==
  ASSUME NEW i \in Loop!Interfaces, NEW p, Alone(p)
  PROVE  /\ Loop!Allocate(p, i).event = 2 /\ Fresh(Loop!Allocate(p, i).p, i)
         /\ Loop!Allocate(p, i).p.current_event = p.current_event
<1> DEFINE q == [p EXCEPT !.type = Append(p.type, i), !.next = Loop!Put(p.next, 2, -1),
                          !.prev = Loop!Put(p.prev, 2, -1)]
<1>1. /\ p \in [type : Seq(Kinds), next : [0..1 -> -1..2], prev : [0..1 -> -1..2],
                free_events : -1..2, current_event : -1..2]
      /\ Len(p.type) = 1 /\ p.type[1] = "DID_CREATE"
      /\ p.next[0] = 0 /\ p.prev[0] = 0 /\ p.free_events = -1
  BY DEF Alone, OfEvents, Loop!NULL
<1>2. Loop!Allocate(p, i) = [event |-> 2, p |-> q]
  BY <1>1 DEF Loop!Allocate, Loop!NULL
<1>3. \A f \in [0..1 -> -1..2] : /\ Loop!Put(f, 2, -1) \in [0..2 -> -1..2]
                                 /\ Loop!Put(f, 2, -1)[0] = f[0]
  BY DEF Loop!Put
<1>4. /\ Append(p.type, i) \in Seq(Kinds) /\ Len(Append(p.type, i)) = 2
      /\ Append(p.type, i)[1] = "DID_CREATE" /\ Append(p.type, i)[2] = i
  <2>1. p.type \in Seq(Kinds) /\ i \in Kinds
    BY <1>1 DEF Kinds
  <2> QED BY <1>1, <2>1
<1>5. p.next \in [0..1 -> -1..2] /\ p.prev \in [0..1 -> -1..2]
  BY <1>1
<1>6. /\ q \in [type : Seq(Kinds), next : [0..2 -> -1..2], prev : [0..2 -> -1..2],
                free_events : -1..2, current_event : -1..2]
      /\ q.type = Append(p.type, i) /\ q.next[0] = 0 /\ q.prev[0] = 0
      /\ q.free_events = -1 /\ q.current_event = p.current_event
  BY <1>1, <1>3, <1>4, <1>5
<1> HIDE DEF q
<1>7. Fresh(q, i)
  BY <1>4, <1>6 DEF Fresh, Both, OfEvents, Loop!NULL
<1> QED BY <1>2, <1>6, <1>7

\* The one from the free list gets a new type.
LEMMA AllocateFree ==
  ASSUME NEW i \in Loop!Interfaces, NEW j \in Loop!Interfaces, NEW p, Creating(p, j)
  PROVE  /\ Loop!Allocate(p, i).event = 2 /\ Fresh(Loop!Allocate(p, i).p, i)
         /\ Loop!Allocate(p, i).p.current_event = p.current_event
<1> DEFINE q == [p EXCEPT !.free_events = p.next[2], !.type[2] = i]
<1>1. /\ p \in [type : Seq(Kinds), next : [0..2 -> -1..2], prev : [0..2 -> -1..2],
                free_events : -1..2, current_event : -1..2]
      /\ Len(p.type) = 2 /\ p.type[1] = "DID_CREATE"
      /\ p.next[0] = 0 /\ p.prev[0] = 0 /\ p.free_events = 2 /\ p.next[2] = -1
  BY DEF Creating, Both, OfEvents, Loop!NULL
<1>2. Loop!Allocate(p, i) = [event |-> 2, p |-> q]
  BY <1>1 DEF Loop!Allocate, Loop!NULL
<1>3. LET t == [p.type EXCEPT ![2] = i] IN
      t \in Seq(Kinds) /\ Len(t) = 2 /\ t[1] = "DID_CREATE" /\ t[2] = i
  <2>1. p.type \in Seq(Kinds) /\ i \in Kinds /\ 2 \in DOMAIN p.type /\ 1 \in DOMAIN p.type
    BY <1>1 DEF Kinds
  <2> QED BY <1>1, <2>1, SeqUpdate
<1>4. /\ q \in [type : Seq(Kinds), next : [0..2 -> -1..2], prev : [0..2 -> -1..2],
                free_events : -1..2, current_event : -1..2]
      /\ q.type = [p.type EXCEPT ![2] = i] /\ q.next[0] = 0 /\ q.prev[0] = 0
      /\ q.free_events = -1 /\ q.current_event = p.current_event
  BY <1>1, <1>3
<1> HIDE DEF q
<1>5. Fresh(q, i)
  BY <1>3, <1>4 DEF Fresh, Both, OfEvents, Loop!NULL
<1> QED BY <1>2, <1>4, <1>5

\* pn_event_enqueue
LEMMA EnqueueSecond ==
  ASSUME NEW i \in Loop!Interfaces, NEW p, Fresh(p, i)
  PROVE  Half(Loop!Enqueue(p, 2), i) /\ Loop!Enqueue(p, 2).current_event = p.current_event
BY DEF Fresh, Half, Both, OfEvents, Loop!Enqueue, Loop!Sentinel, Loop!NULL

\* Event 1 follows.
LEMMA EnqueueFirst ==
  ASSUME NEW i \in Loop!Interfaces, NEW p, Half(p, i)
  PROVE  Waiting(Loop!Enqueue(p, 1), i) /\ Loop!Enqueue(p, 1).current_event = p.current_event
BY DEF Waiting, Half, Both, OfEvents, Loop!Enqueue, Loop!Sentinel, Loop!NULL

\* Event 1 goes back behind the one that asks for interface i.
LEMMA PutBackWaits ==
  ASSUME NEW i \in Loop!Interfaces, NEW p,
         Alone(p) \/ \E j \in Loop!Interfaces : Creating(p, j)
  PROVE  Waiting(Loop!PutBack(p, 1, i), i)
<1> DEFINE a == Loop!Allocate(p, i)
<1>1. a.event = 2 /\ Fresh(a.p, i)
  BY AllocateSecond, AllocateFree
<1>2. Half(Loop!EnqueueNew(p, i), i)
  BY <1>1, EnqueueSecond DEF Loop!EnqueueNew
<1> QED BY <1>2, EnqueueFirst DEF Loop!PutBack

\* ppapi_start enqueues event 1.
LEMMA FirstEvent ==
  ASSUME NEW none, none = Loop!NoEvents, NEW p, p = Loop!EnqueueNew(none, "DID_CREATE")
  PROVE  First(p) /\ p.current_event = Loop!NULL
<1> DEFINE zero == [e \in {0} |-> 0]
           made == [e \in 0..1 |-> IF e = 0 THEN 0 ELSE -1]
           ring == [e \in 0..1 |-> IF e = 0 THEN 1 ELSE 0]
           typ  == <<"DID_CREATE">>
           one  == [none EXCEPT !.type = typ, !.next = made, !.prev = made]
<1> USE DEF Loop!Sentinel, Loop!NULL
<1>1. none = [type |-> <<>>, next |-> zero, prev |-> zero,
              free_events |-> -1, current_event |-> -1]
  BY DEF Loop!NoEvents
<1>2. Loop!Put(zero, 1, -1) = made
  BY DEF Loop!Put
<1>3. made[0] = 0 /\ [[made EXCEPT ![1] = 0] EXCEPT ![0] = 1] = ring
  OBVIOUS
<1>4. ring \in [0..1 -> -1..2] /\ ring[0] = 1 /\ ring[1] = 0
  OBVIOUS
<1>5. typ \in Seq(Kinds) /\ Len(typ) = 1 /\ typ[1] = "DID_CREATE"
      /\ Append(<<>>, "DID_CREATE") = typ /\ Len(<<>>) = 0
  BY DEF Kinds
<1> HIDE DEF zero, made, ring, typ
<1>6. Loop!Allocate(none, "DID_CREATE") = [event |-> 1, p |-> one]
  <2>1. none.free_events = -1 /\ none.type = <<>> /\ none.next = zero /\ none.prev = zero
    BY <1>1
  <2>2. Loop!Allocate(none, "DID_CREATE")
          = [event |-> Len(none.type) + 1,
             p |-> [none EXCEPT !.type = Append(none.type, "DID_CREATE"),
                                !.next = Loop!Put(none.next, Len(none.type) + 1, -1),
                                !.prev = Loop!Put(none.prev, Len(none.type) + 1, -1)]]
    BY <2>1 DEF Loop!Allocate
  <2>3. /\ Append(none.type, "DID_CREATE") = typ /\ Len(none.type) + 1 = 1
        /\ Loop!Put(none.next, 1, -1) = made /\ Loop!Put(none.prev, 1, -1) = made
    BY <1>2, <1>5, <2>1
  <2> QED BY <2>2, <2>3
<1>7. one.type = typ /\ one.next = made /\ one.prev = made /\ one.free_events = -1
      /\ one.current_event = -1
      /\ DOMAIN one = {"type", "next", "prev", "free_events", "current_event"}
      /\ one = [x \in DOMAIN one |-> one[x]]
  <2>1. DOMAIN none = {"type", "next", "prev", "free_events", "current_event"}
        /\ none.free_events = -1 /\ none.current_event = -1
    BY <1>1
  <2>2. DOMAIN one = DOMAIN none
    OBVIOUS
  <2>3. one = [x \in DOMAIN one |-> one[x]]
    OBVIOUS
  <2>4. one.type = typ /\ one.next = made /\ one.prev = made /\ one.free_events = -1
        /\ one.current_event = -1
    BY <2>1
  <2> QED BY <2>1, <2>2, <2>3, <2>4
<1> HIDE DEF one
<1>8. p = Loop!Enqueue(one, 1)
  BY <1>6 DEF Loop!EnqueueNew
<1>9. p = [[one EXCEPT !.next[1] = 0, !.prev[1] = 0] EXCEPT !.next[0] = 1, !.prev[0] = 1]
  BY <1>3, <1>7, <1>8 DEF Loop!Enqueue
<1>10. /\ p.type = typ /\ p.next = ring /\ p.prev = ring /\ p.free_events = -1
       /\ p.current_event = -1
       /\ DOMAIN p = {"type", "next", "prev", "free_events", "current_event"}
       /\ p = [x \in DOMAIN p |-> p[x]]
  BY <1>3, <1>7, <1>9
<1>11. p \in [type : Seq(Kinds), next : [0..1 -> -1..2], prev : [0..1 -> -1..2],
              free_events : -1..2, current_event : -1..2]
  BY <1>4, <1>5, <1>10
<1> QED BY <1>4, <1>5, <1>10, <1>11 DEF First, OfEvents

-----------------------------------------------------------------------------
(* The phases of the loop.                                                  *)

V1 == "INSTANCE_1_1"
V0 == "INSTANCE_1_0"

\* What the event thread runs, what is known and was asked of the two interfaces.
InPhase(s, function, known1, known0, asked1, asked0) ==
  /\ state["event"] = s /\ running = function /\ created = 0
  /\ interfaces \in [Loop!Interfaces -> {"unknown", "none", "table"}]
  /\ interfaces[V1] = known1 /\ interfaces[V0] = known0
  /\ asked \in [Loop!Interfaces -> Nat] /\ asked[V1] = asked1 /\ asked[V0] = asked0

NotStarted == InPhase("none", "none", "unknown", "unknown", 0, 0) /\ ppapi = Loop!NoEvents

Initialize ==
  /\ InPhase("RUNNING", "initialize", "unknown", "unknown", 0, 0)
  /\ First(ppapi) /\ ppapi.current_event = Loop!NULL

Waits(i) ==
  /\ IF i = V1 THEN InPhase("IDLE", "none", "unknown", "unknown", 0, 0)
     ELSE InPhase("IDLE", "none", "none", "unknown", 1, 0)
  /\ Waiting(ppapi, i) /\ ppapi.current_event = Loop!NULL

Asks(i) ==
  /\ IF i = V1 THEN InPhase("RUNNING", "get_interface", "unknown", "unknown", 1, 0)
     ELSE InPhase("RUNNING", "get_interface", "none", "unknown", 1, 1)
  /\ Asking(ppapi, i) /\ ppapi.current_event = 2

\* DidCreate has been called, with the table of interface i.
HasTable(i) ==
  /\ interfaces \in [Loop!Interfaces -> {"unknown", "none", "table"}] /\ interfaces[i] = "table"
  /\ asked \in [Loop!Interfaces -> 0..1] /\ created = 1

Creates(i) ==
  /\ state["event"] = "RUNNING" /\ running = "did_create"
  /\ HasTable(i) /\ Creating(ppapi, i) /\ ppapi.current_event = 1

Rests(i) ==
  /\ state["event"] = "IDLE" /\ running = "none"
  /\ HasTable(i) /\ Over(ppapi, i) /\ ppapi.current_event = Loop!NULL

\* The application has no instance interface.
NoInstance ==
  /\ state["event"] = "fatal" /\ running = "none"
  /\ asked \in [Loop!Interfaces -> 0..1] /\ created = 0

EventsInv ==
  \/ NotStarted \/ Initialize \/ NoInstance
  \/ \E i \in Loop!Interfaces : Waits(i) \/ Asks(i) \/ Creates(i) \/ Rests(i)

\* Nothing has happened yet.
LEMMA EventsInitially == ASSUME Loop!Init PROVE NotStarted
BY DEF Loop!Init, NotStarted, InPhase, Loop!Interfaces, V1, V0

\* pn_event_handle_next, when event 2 is the next one.
LEMMA HandleAsk ==
  ASSUME NEW i \in Loop!Interfaces, NEW p, NEW table, RingInv,
         Waiting(p, i), Loop!HandleNext(p, table)
  PROVE  /\ state'["event"] = "RUNNING" /\ running' = "get_interface"
         /\ Asking(ppapi', i) /\ ppapi'.current_event = 2
         /\ asked' = [asked EXCEPT ![i] = @ + 1] /\ created' = created
<1> DEFINE q == Loop!Dequeue(p)
<1>1. p.next[Loop!Sentinel] = 2 /\ 2 # Loop!Sentinel
  BY DEF Waiting, Loop!Sentinel
<1>2. Asking(q, i) /\ q.type[2] = i
  BY DequeueWaiting DEF Asking, Both
<1>3. Loop!Push("get_interface", q, 2) /\ asked' = [asked EXCEPT ![i] = @ + 1] /\ created' = created
  <2> HIDE DEF q
  <2> QED BY <1>1, <1>2 DEF Loop!HandleNext, q
<1>4. ppapi' = [q EXCEPT !.current_event = 2] /\ state'["event"] = "RUNNING"
      /\ running' = "get_interface"
  BY <1>3 DEF Loop!Push, RingInv
<1>5. Asking([q EXCEPT !.current_event = 2], i) /\ [q EXCEPT !.current_event = 2].current_event = 2
  <2> HIDE DEF q
  <2> QED BY <1>2 DEF Asking, Both, OfEvents
<1> QED BY <1>3, <1>4, <1>5

\* When event 1 is the next one: it goes back, it runs, or there is no interface for it.
LEMMA HandleCreate ==
  ASSUME NEW p, NEW q, q = Loop!Dequeue(p), NEW table, RingInv, Loop!HandleNext(p, table),
         p.next[0] = 1, q.type[1] = "DID_CREATE", "current_event" \in DOMAIN q
  PROVE  \/ /\ Loop!Instance(table).ask # "none"
            /\ state'["event"] = "IDLE" /\ running' = "none"
            /\ ppapi' = [Loop!PutBack(q, 1, Loop!Instance(table).ask)
                           EXCEPT !.current_event = Loop!NULL]
            /\ asked' = asked /\ created' = created
         \/ /\ Loop!Instance(table).ask = "none" /\ Loop!Instance(table).found
            /\ state'["event"] = "RUNNING" /\ running' = "did_create"
            /\ ppapi' = [q EXCEPT !.current_event = 1]
            /\ asked' = asked /\ created' = created + 1
         \/ /\ Loop!Instance(table).ask = "none" /\ ~Loop!Instance(table).found
            /\ state'["event"] = "fatal" /\ running' = "none"
            /\ asked' = asked /\ created' = created
<1>1. p.next[Loop!Sentinel] = 1 /\ 1 # Loop!Sentinel /\ q.type[1] \notin Loop!Interfaces
  BY DEF Loop!Sentinel, Loop!Interfaces
<1>2. CASE Loop!Instance(table).ask # "none"
  <2>1. /\ Loop!Rest(Loop!PutBack(q, 1, Loop!Instance(table).ask))
        /\ asked' = asked /\ created' = created
    BY <1>1, <1>2 DEF Loop!HandleNext
  <2> QED BY <1>2, <2>1 DEF Loop!Rest, RingInv
<1>3. CASE Loop!Instance(table).ask = "none" /\ Loop!Instance(table).found
  <2>1. Loop!Push("did_create", q, 1) /\ asked' = asked /\ created' = created + 1
    BY <1>1, <1>3 DEF Loop!HandleNext
  <2> QED BY <1>3, <2>1 DEF Loop!Push, RingInv
<1>4. CASE Loop!Instance(table).ask = "none" /\ ~Loop!Instance(table).found
  <2>1. state' = [state EXCEPT !["event"] = "fatal"] /\ running' = "none"
        /\ asked' = asked /\ created' = created
    BY <1>1, <1>4 DEF Loop!HandleNext
  <2> QED BY <1>4, <2>1 DEF RingInv
<1> QED BY <1>2, <1>3, <1>4

\* The links of the queue do not depend on the event that is handled.
LEMMA SetCurrent ==
  ASSUME NEW i \in Loop!Interfaces, NEW p, NEW e \in -1..2
  PROVE  /\ Waiting(p, i) => Waiting([p EXCEPT !.current_event = e], i)
         /\ Creating(p, i) => Creating([p EXCEPT !.current_event = e], i)
         /\ Over(p, i) => Over([p EXCEPT !.current_event = e], i)
         /\ Both(p, i) => [p EXCEPT !.current_event = e].current_event = e
BY DEF Waiting, Creating, Over, Both, OfEvents

\* Only ppapi_start is possible first.
LEMMA FromNotStarted == ASSUME RingInv, NotStarted, Loop!Next PROVE Initialize'
<1>1. state["event"] = "none" /\ thread = "start"
  BY DEF NotStarted, InPhase, RingInv, Loop!Started
<1>2. Loop!PpapiStart
  BY <1>1 DEF Loop!Next, Loop!Ended, Loop!Yield, Loop!CreateThread, Loop!OtherExits,
              Loop!EventReturns, Loop!EventIdle
<1>3. First(ppapi') /\ ppapi'.current_event = Loop!NULL
  BY <1>2, FirstEvent DEF Loop!PpapiStart, NotStarted
<1>4. state'["event"] = "RUNNING" /\ running' = "initialize"
      /\ UNCHANGED <<interfaces, asked, created>>
  BY <1>2 DEF Loop!PpapiStart
<1> QED BY <1>3, <1>4 DEF NotStarted, Initialize, InPhase

\* A turn of the event thread: its function returns, or it is idle.
Turn ==
  \/ /\ state["event"] = "RUNNING" /\ \E value \in {"none", "table"} : Loop!EventReturns(value)
  \/ /\ state["event"] = "IDLE" /\ Loop!EventIdle

\* A step is a turn of the event thread or none of its business.
LEMMA OtherSteps ==
  ASSUME RingInv, Loop!Next, Loop!Started
  PROVE  \/ UNCHANGED <<state, running, ppapi, interfaces, asked, created>>
         \/ Turn
BY DEF Loop!Next, Loop!PpapiStart, Loop!Yield, Loop!CreateThread, Loop!OtherExits, Loop!Ended,
       Loop!EventReturns, Loop!EventIdle, Loop!Started, RingInv, Turn, Loop!vars

\* After PPP_InitializeModule the question for the newer interface comes first.
LEMMA FromInitialize == ASSUME RingInv, Initialize, Turn PROVE Waits(V1)'
<1>1. PICK value \in {"none", "table"} : Loop!EventReturns(value)
  BY DEF Initialize, InPhase, Turn
<1>2. interfaces' = interfaces /\ Loop!HandleNext(ppapi, interfaces)
  BY <1>1 DEF Loop!EventReturns, Loop!Finish, Initialize, InPhase
<1> DEFINE q == Loop!Dequeue(ppapi)
<1>3. Alone(q)
  BY DequeueFirst DEF Initialize
<1>4. Loop!Instance(interfaces).ask = V1 /\ V1 # "none" /\ V1 \in Loop!Interfaces
  BY DEF Initialize, InPhase, Loop!Instance, V1, Loop!Interfaces
<1>5. /\ state'["event"] = "IDLE" /\ running' = "none"
      /\ ppapi' = [Loop!PutBack(q, 1, V1) EXCEPT !.current_event = Loop!NULL]
      /\ asked' = asked /\ created' = created
  <2>1. ppapi.next[0] = 1 /\ q.type[1] = "DID_CREATE" /\ "current_event" \in DOMAIN q
    BY <1>3 DEF Initialize, First, Alone, OfEvents
  <2> HIDE DEF q
  <2>2. q = Loop!Dequeue(ppapi)
    BY DEF q
  <2> QED BY <1>2, <1>4, <2>1, <2>2, HandleCreate
<1>6. Waiting(Loop!PutBack(q, 1, V1), V1)
  BY <1>3, <1>4, PutBackWaits
<1>7. Waiting(ppapi', V1) /\ ppapi'.current_event = Loop!NULL
  <2>1. Both(Loop!PutBack(q, 1, V1), V1)
    BY <1>6 DEF Waiting
  <2>2. Loop!NULL \in -1..2
    BY DEF Loop!NULL
  <2> QED BY <1>4, <1>5, <1>6, <2>1, <2>2, SetCurrent
<1> QED BY <1>2, <1>5, <1>7 DEF Waits, Initialize, InPhase

\* The question is put.
LEMMA FromWaits ==
  ASSUME RingInv, NEW i \in Loop!Interfaces, Waits(i), Turn
  PROVE  Asks(i)'
<1>1. Loop!EventIdle
  BY DEF Waits, InPhase, Turn
<1>2. interfaces' = interfaces /\ Loop!HandleNext(ppapi, interfaces)
  BY <1>1 DEF Loop!EventIdle, Loop!Finish, Waits
<1>3. /\ state'["event"] = "RUNNING" /\ running' = "get_interface"
      /\ Asking(ppapi', i) /\ ppapi'.current_event = 2
      /\ asked' = [asked EXCEPT ![i] = @ + 1] /\ created' = created
  BY <1>2, HandleAsk DEF Waits
<1>4. i \in {V1, V0} /\ V1 # V0 /\ V1 \in Loop!Interfaces /\ V0 \in Loop!Interfaces
  BY DEF Loop!Interfaces, V1, V0
<1> QED BY <1>2, <1>3, <1>4 DEF Waits, Asks, InPhase

\* With a table DidCreate is called; without one the older interface is asked for, and then
\* the program ends.
LEMMA FromAsks ==
  ASSUME RingInv, NEW i \in Loop!Interfaces, Asks(i), Turn
  PROVE  (i = V1 /\ Waits(V0)') \/ Creates(i)' \/ NoInstance'
<1>1. PICK value \in {"none", "table"} : Loop!EventReturns(value)
  BY DEF Asks, InPhase, Turn
<1> DEFINE p == Loop!Free(ppapi, 2)
           table == [interfaces EXCEPT ![i] = value]
           q == Loop!Dequeue(p)
<1>2. ppapi.type[ppapi.current_event] = i /\ ppapi.current_event = 2 /\ 2 # Loop!NULL
      /\ running = "get_interface"
  BY DEF Asks, Asking, Both, Loop!NULL, InPhase
<1>3. interfaces' = table /\ Loop!HandleNext(p, table)
  BY <1>1, <1>2 DEF Loop!EventReturns, Loop!Finish
<1>4. Answered(p, i)
  BY FreeAsked DEF Asks
<1>5. Creating(q, i)
  BY <1>4, DequeueAnswered
<1>6. i \in {V1, V0} /\ V1 # V0 /\ V1 \in Loop!Interfaces /\ V0 \in Loop!Interfaces
      /\ V0 # "none" /\ V1 # "none"
  BY DEF Loop!Interfaces, V1, V0
<1>7. /\ table \in [Loop!Interfaces -> {"unknown", "none", "table"}]
      /\ table[i] = value /\ \A j \in Loop!Interfaces : j # i => table[j] = interfaces[j]
  BY DEF Asks, InPhase
<1>8. p.next[0] = 1 /\ q.type[1] = "DID_CREATE" /\ "current_event" \in DOMAIN q
  BY <1>4, <1>5 DEF Answered, Creating, Both, OfEvents
<1>9. q = Loop!Dequeue(p)
  OBVIOUS
<1>10. created = 0 /\ asked \in [Loop!Interfaces -> 0..1]
  BY <1>6 DEF Asks, InPhase, Loop!Interfaces, V1, V0
<1> HIDE DEF p, q, table
<1>11. CASE value = "table"
  <2>1. Loop!Instance(table).ask = "none" /\ Loop!Instance(table).found
    BY <1>6, <1>7, <1>11 DEF Loop!Instance, Asks, InPhase, V1, V0
  <2>2. /\ state'["event"] = "RUNNING" /\ running' = "did_create"
        /\ ppapi' = [q EXCEPT !.current_event = 1]
        /\ asked' = asked /\ created' = created + 1
    BY <1>3, <1>8, <1>9, <2>1, HandleCreate
  <2>3. Creating(ppapi', i) /\ ppapi'.current_event = 1
    <3>1. Both(q, i) /\ 1 \in -1..2
      BY <1>5 DEF Creating
    <3> QED BY <1>5, <2>2, <3>1, SetCurrent
  <2> QED BY <1>3, <1>7, <1>10, <1>11, <2>2, <2>3 DEF Creates, HasTable
<1>12. CASE value = "none" /\ i = V1
  <2>1. Loop!Instance(table).ask = V0
    BY <1>6, <1>7, <1>12 DEF Loop!Instance, Asks, InPhase, V1, V0
  <2>2. /\ state'["event"] = "IDLE" /\ running' = "none"
        /\ ppapi' = [Loop!PutBack(q, 1, V0) EXCEPT !.current_event = Loop!NULL]
        /\ asked' = asked /\ created' = created
    BY <1>3, <1>6, <1>8, <1>9, <2>1, HandleCreate
  <2>3. Waiting(Loop!PutBack(q, 1, V0), V0)
    BY <1>5, <1>6, PutBackWaits
  <2>4. Waiting(ppapi', V0) /\ ppapi'.current_event = Loop!NULL
    <3>1. Both(Loop!PutBack(q, 1, V0), V0)
      BY <2>3 DEF Waiting
    <3>2. Loop!NULL \in -1..2
      BY DEF Loop!NULL
    <3> QED BY <1>6, <2>2, <2>3, <3>1, <3>2, SetCurrent
  <2> QED BY <1>3, <1>6, <1>7, <1>12, <2>2, <2>4 DEF Waits, Asks, InPhase
<1>13. CASE value = "none" /\ i = V0
  <2>1. Loop!Instance(table).ask = "none" /\ ~Loop!Instance(table).found
    BY <1>6, <1>7, <1>13 DEF Loop!Instance, Asks, InPhase, V1, V0
  <2>2. /\ state'["event"] = "fatal" /\ running' = "none"
        /\ asked' = asked /\ created' = created
    BY <1>3, <1>8, <1>9, <2>1, HandleCreate
  <2> QED BY <1>10, <2>2 DEF NoInstance
<1> QED BY <1>6, <1>11, <1>12, <1>13

\* When DidCreate returns nothing is left to do.
LEMMA FromCreates ==
  ASSUME RingInv, NEW i \in Loop!Interfaces, Creates(i), Turn
  PROVE  Rests(i)'
<1> DEFINE p == Loop!Free(ppapi, 1)
<1>1. PICK value \in {"none", "table"} : Loop!EventReturns(value)
  BY DEF Creates, Turn
<1>2. ppapi.current_event = 1 /\ 1 # Loop!NULL /\ running = "did_create"
  BY DEF Creates, Loop!NULL
<1>3. interfaces' = interfaces /\ Loop!HandleNext(p, interfaces)
  BY <1>1, <1>2 DEF Loop!EventReturns, Loop!Finish
<1>4. Over(p, i)
  BY FreeCreated DEF Creates
<1> HIDE DEF p
<1>5. Loop!Rest(p) /\ asked' = asked /\ created' = created
  BY <1>3, <1>4 DEF Loop!HandleNext, Over, Loop!Sentinel
<1>6. /\ state'["event"] = "IDLE" /\ running' = "none"
      /\ ppapi' = [p EXCEPT !.current_event = Loop!NULL]
  BY <1>5 DEF Loop!Rest, RingInv
<1>7. Over(ppapi', i) /\ ppapi'.current_event = Loop!NULL
  <2>1. Both(p, i) /\ Loop!NULL \in -1..2
    BY <1>4 DEF Over, Loop!NULL
  <2> QED BY <1>4, <1>6, <2>1, SetCurrent
<1> QED BY <1>3, <1>5, <1>6, <1>7 DEF Creates, Rests, HasTable

\* And so it stays.
LEMMA FromRests ==
  ASSUME RingInv, NEW i \in Loop!Interfaces, Rests(i), Turn
  PROVE  Rests(i)'
<1>1. interfaces' = interfaces /\ Loop!HandleNext(ppapi, interfaces)
  BY DEF Turn, Loop!EventIdle, Loop!Finish, Rests
<1>2. Loop!Rest(ppapi) /\ asked' = asked /\ created' = created
  BY <1>1 DEF Loop!HandleNext, Rests, Over, Loop!Sentinel
<1>3. /\ state'["event"] = "IDLE" /\ running' = "none"
      /\ ppapi' = [ppapi EXCEPT !.current_event = Loop!NULL]
  BY <1>2 DEF Loop!Rest, RingInv
<1>4. Over(ppapi', i) /\ ppapi'.current_event = Loop!NULL
  <2>1. Over(ppapi, i) /\ Both(ppapi, i) /\ Loop!NULL \in -1..2
    BY DEF Rests, Over, Loop!NULL
  <2> QED BY <1>3, <2>1, SetCurrent
<1> QED BY <1>1, <1>2, <1>3, <1>4 DEF Rests, HasTable

\* Every step leads from a phase to a phase.
LEMMA EventsKept == ASSUME RingInv, EventsInv, [Loop!Next]_(Loop!vars) PROVE EventsInv'
<1>1. CASE UNCHANGED <<state, running, ppapi, interfaces, asked, created>>
  BY <1>1 DEF EventsInv, NotStarted, Initialize, NoInstance, Waits, Asks, Creates, Rests,
              InPhase, HasTable
<1>2. CASE Loop!Next /\ ~UNCHANGED <<state, running, ppapi, interfaces, asked, created>>
  <2>1. CASE NotStarted
    BY <1>2, <2>1, FromNotStarted DEF EventsInv
  <2>2. CASE ~NotStarted
    <3>1. Loop!Started
      BY <2>2 DEF EventsInv, Loop!Started, Initialize, NoInstance, Waits, Asks, Creates, Rests,
                  InPhase
    <3>2. Turn
      BY <1>2, <3>1, OtherSteps
    <3>3. ~NoInstance
      BY <3>2 DEF NoInstance, Turn
    <3>4. V1 \in Loop!Interfaces /\ V0 \in Loop!Interfaces
      BY DEF V1, V0, Loop!Interfaces
    <3>5. CASE Initialize
      BY <3>2, <3>4, <3>5, FromInitialize DEF EventsInv
    <3>6. ASSUME NEW i \in Loop!Interfaces, Waits(i) \/ Asks(i) \/ Creates(i) \/ Rests(i)
          PROVE  EventsInv'
      <4>1. \/ Waits(V0)' \/ NoInstance' \/ Asks(i)' \/ Creates(i)' \/ Rests(i)'
        BY <3>2, <3>6, FromWaits, FromAsks, FromCreates, FromRests
      <4> QED BY <3>4, <4>1 DEF EventsInv
    <3> QED BY <2>2, <3>3, <3>5, <3>6 DEF EventsInv
  <2> QED BY <2>1, <2>2
<1>3. UNCHANGED Loop!vars => UNCHANGED <<state, running, ppapi, interfaces, asked, created>>
  BY DEF Loop!vars
<1> QED BY <1>1, <1>2, <1>3

\* The queue has the events Q, in both directions, and the free list F.
Lists(p, Q, F) ==
  /\ Loop!ChainSet(p.next, p.next[0], 0) = Q /\ Loop!Chain(p.next, p.next[0], 0)[MaxEvents] = 0
  /\ Loop!ChainSet(p.prev, p.prev[0], 0) = Q
  /\ Loop!ChainSet(p.next, p.free_events, Loop!NULL) = F

\* What the lists hold in each phase.
LEMMA ListsHold ==
  ASSUME Loop!LoopAssumption, NEW p, NEW i
  PROVE  /\ p = Loop!NoEvents => Lists(p, {}, {})
         /\ First(p) => Lists(p, {1}, {})
         /\ Waiting(p, i) => Lists(p, {1, 2}, {})
         /\ Asking(p, i) => Lists(p, {1}, {})
         /\ Creating(p, i) => Lists(p, {}, {2})
         /\ Over(p, i) => Lists(p, {}, {1, 2})
<1> USE DEF Loop!NULL
<1>1. ASSUME p.free_events = -1
      PROVE  Loop!ChainSet(p.next, p.free_events, -1) = {}
  <2>1. Loop!ChainSet(p.next, -1, -1) = {-1, -1, -1} \ {-1, -1}
    BY ChainOfTwo
  <2> QED BY <1>1, <2>1
<1>2. ASSUME NEW f, f[0] = 0
      PROVE  Loop!ChainSet(f, f[0], 0) = {} /\ Loop!Chain(f, f[0], 0)[MaxEvents] = 0
  <2>1. Loop!ChainSet(f, 0, 0) = {0, 0, 0} \ {0, -1} /\ Loop!Chain(f, 0, 0)[MaxEvents] = 0
    BY ChainOfTwo
  <2> QED BY <1>2, <2>1
<1>3. ASSUME NEW f, f[0] = 1, f[1] = 0
      PROVE  Loop!ChainSet(f, f[0], 0) = {1} /\ Loop!Chain(f, f[0], 0)[MaxEvents] = 0
  <2>1. Loop!ChainSet(f, 1, 0) = {1, 0, 0} \ {0, -1} /\ Loop!Chain(f, 1, 0)[MaxEvents] = 0
    BY <1>3, ChainOfTwo
  <2> QED BY <1>3, <2>1
<1>4. ASSUME NEW f, NEW a \in {1, 2}, NEW b \in {1, 2}, a # b, f[0] = a, f[a] = b, f[b] = 0
      PROVE  Loop!ChainSet(f, f[0], 0) = {1, 2} /\ Loop!Chain(f, f[0], 0)[MaxEvents] = 0
  <2>1. Loop!ChainSet(f, a, 0) = {a, b, 0} \ {0, -1} /\ Loop!Chain(f, a, 0)[MaxEvents] = 0
    BY <1>4, ChainOfTwo
  <2> QED BY <1>4, <2>1
<1>5. ASSUME p.free_events = 2, p.next[2] = -1
      PROVE  Loop!ChainSet(p.next, p.free_events, -1) = {2}
  <2>1. Loop!ChainSet(p.next, 2, -1) = {2, -1, -1} \ {-1, -1}
    BY <1>5, ChainOfTwo
  <2> QED BY <1>5, <2>1
<1>6. ASSUME p.free_events = 1, p.next[1] = 2, p.next[2] = -1
      PROVE  Loop!ChainSet(p.next, p.free_events, -1) = {1, 2}
  <2>1. Loop!ChainSet(p.next, 1, -1) = {1, 2, -1} \ {-1, -1}
    BY <1>6, ChainOfTwo
  <2> QED BY <1>6, <2>1
<1>7. p = Loop!NoEvents => p.next[0] = 0 /\ p.prev[0] = 0 /\ p.free_events = -1
  BY DEF Loop!NoEvents, Loop!Sentinel
<1>8. p = Loop!NoEvents => Lists(p, {}, {})
  BY <1>1, <1>2, <1>7 DEF Lists
<1>9. First(p) => Lists(p, {1}, {})
  BY <1>1, <1>3 DEF Lists, First
<1>10. Waiting(p, i) => Lists(p, {1, 2}, {})
  BY <1>1, <1>4 DEF Lists, Waiting
<1>11. Asking(p, i) => Lists(p, {1}, {})
  BY <1>1, <1>3 DEF Lists, Asking
<1>12. Creating(p, i) => Lists(p, {}, {2})
  BY <1>2, <1>5 DEF Lists, Creating
<1>13. Over(p, i) => Lists(p, {}, {1, 2})
  BY <1>2, <1>6 DEF Lists, Over
<1> QED BY <1>8, <1>9, <1>10, <1>11, <1>12, <1>13

\* The invariant gives the properties.
LEMMA EventsHold ==
  ASSUME Loop!LoopAssumption, EventsInv
  PROVE  Loop!EventsApart /\ Loop!CreatedOnce
<1> DEFINE current == {ppapi.current_event} \ {Loop!NULL}
<1>1. ASSUME NEW Q, NEW F, Lists(ppapi, Q, F), Q \cap F = {}, (Q \cup F) \cap current = {},
             Q \cup F \cup current = DOMAIN ppapi.type
      PROVE  Loop!EventsApart /\ Loop!Queued = Q
  BY <1>1 DEF Lists, Loop!EventsApart, Loop!Queued, Loop!Sentinel
<1>2. \A i : Both(ppapi, i) => DOMAIN ppapi.type = {1, 2}
  BY DEF Both, OfEvents
<1>3. Loop!Interfaces = {V1, V0} /\ V1 # V0
  BY DEF Loop!Interfaces, V1, V0
<1>4. CASE NotStarted
  <2>1. Lists(ppapi, {}, {})
    BY <1>4, ListsHold DEF NotStarted
  <2>2. current = {} /\ DOMAIN ppapi.type = {}
    BY <1>4 DEF NotStarted, Loop!NoEvents
  <2> HIDE DEF current
  <2>3. Loop!EventsApart /\ Loop!Queued = {}
    BY <1>1, <2>1, <2>2
  <2> QED BY <1>3, <1>4, <2>3 DEF NotStarted, InPhase, Loop!CreatedOnce, Loop!Started
<1>5. CASE Initialize
  <2>1. Lists(ppapi, {1}, {})
    BY <1>5, ListsHold DEF Initialize
  <2>2. current = {} /\ DOMAIN ppapi.type = {1}
    BY <1>5 DEF Initialize, First, OfEvents
  <2> HIDE DEF current
  <2>3. Loop!EventsApart /\ Loop!Queued = {1}
    BY <1>1, <2>1, <2>2
  <2> QED BY <1>3, <1>5, <2>3 DEF Initialize, InPhase, Loop!CreatedOnce
<1>6. CASE NoInstance
  BY <1>6 DEF NoInstance, Loop!CreatedOnce, Loop!EventsApart
<1>7. ASSUME NEW i \in Loop!Interfaces, Waits(i) PROVE Loop!EventsApart /\ Loop!CreatedOnce
  <2>1. Lists(ppapi, {1, 2}, {})
    BY <1>7, ListsHold DEF Waits
  <2>2. current = {} /\ DOMAIN ppapi.type = {1, 2}
    BY <1>2, <1>7 DEF Waits, Waiting
  <2> HIDE DEF current
  <2>3. Loop!EventsApart /\ Loop!Queued = {1, 2}
    BY <1>1, <2>1, <2>2
  <2> QED BY <1>3, <1>7, <2>3 DEF Waits, InPhase, Loop!CreatedOnce
<1>8. ASSUME NEW i \in Loop!Interfaces, Asks(i) PROVE Loop!EventsApart /\ Loop!CreatedOnce
  <2>1. Lists(ppapi, {1}, {})
    BY <1>8, ListsHold DEF Asks
  <2>2. current = {2} /\ DOMAIN ppapi.type = {1, 2}
    BY <1>2, <1>8 DEF Asks, Asking, Loop!NULL
  <2> HIDE DEF current
  <2>3. Loop!EventsApart /\ Loop!Queued = {1}
    BY <1>1, <2>1, <2>2
  <2> QED BY <1>3, <1>8, <2>3 DEF Asks, InPhase, Loop!CreatedOnce
<1>9. ASSUME NEW i \in Loop!Interfaces, Creates(i) PROVE Loop!EventsApart /\ Loop!CreatedOnce
  <2>1. Lists(ppapi, {}, {2})
    BY <1>9, ListsHold DEF Creates
  <2>2. current = {1} /\ DOMAIN ppapi.type = {1, 2}
    BY <1>2, <1>9 DEF Creates, Creating, Loop!NULL
  <2> HIDE DEF current
  <2>3. Loop!EventsApart /\ Loop!Queued = {}
    BY <1>1, <2>1, <2>2
  <2> QED BY <1>9, <2>3 DEF Creates, HasTable, Loop!CreatedOnce
<1>10. ASSUME NEW i \in Loop!Interfaces, Rests(i) PROVE Loop!EventsApart /\ Loop!CreatedOnce
  <2>1. Lists(ppapi, {}, {1, 2})
    BY <1>10, ListsHold DEF Rests
  <2>2. current = {} /\ DOMAIN ppapi.type = {1, 2}
    BY <1>2, <1>10 DEF Rests, Over
  <2> HIDE DEF current
  <2>3. Loop!EventsApart /\ Loop!Queued = {}
    BY <1>1, <2>1, <2>2
  <2> QED BY <1>10, <2>3 DEF Rests, HasTable, Loop!CreatedOnce
<1> QED BY <1>4, <1>5, <1>6, <1>7, <1>8, <1>9, <1>10 DEF EventsInv

\* The ring and the phases hold in every behaviour of the loop.
LEMMA LoopInvariant == Loop!Spec => [](RingInv /\ EventsInv)
<1>1. Loop!Init => RingInv /\ EventsInv
  BY RingInitially, EventsInitially DEF EventsInv
<1>2. RingInv /\ EventsInv /\ [Loop!Next]_(Loop!vars) => (RingInv /\ EventsInv)'
  BY RingKept, EventsKept
<1> QED BY <1>1, <1>2, PTL DEF Loop!Spec

-----------------------------------------------------------------------------
\* Whatever part moves, the arena does what its module says or rests.
LEMMA ArenaBehaves == RuntimeSpec => Arena!Spec
<1>1. RuntimeInit => Arena!Init
  BY DEF RuntimeInit
<1>2. [RuntimeNext]_allVars => [Arena!Next]_Arena!vars
  BY DEF RuntimeNext, allVars, arenaVars, Arena!vars, Arena!accounts
<1> QED
  BY <1>1, <1>2, PTL DEF RuntimeSpec, Arena!Spec

\* Whatever part moves, the call stack does what its module says or rests.
LEMMA CallsBehaves == RuntimeSpec => Calls!Spec
<1>1. RuntimeInit => Calls!Init
  BY DEF RuntimeInit
<1>2. [RuntimeNext]_allVars => [Calls!Next]_Calls!vars
  BY DEF RuntimeNext, allVars, callVars, Calls!vars
<1> QED
  BY <1>1, <1>2, PTL DEF RuntimeSpec, Calls!Spec

\* Whatever part moves, the guest's memory does what its module says or rests.
LEMMA GuestBehaves == RuntimeSpec => Guest!Spec
<1>1. RuntimeInit => Guest!Init
  BY DEF RuntimeInit
<1>2. [RuntimeNext]_allVars => [Guest!Next]_Guest!vars
  BY DEF RuntimeNext, allVars, guestVars, Guest!vars
<1> QED
  BY <1>1, <1>2, PTL DEF RuntimeSpec, Guest!Spec

\* Whatever part moves, the file system does what its module says or rests.
LEMMA DiskBehaves == RuntimeSpec => Disk!Spec
<1>1. RuntimeInit => Disk!Init
  BY DEF RuntimeInit
<1>2. [RuntimeNext]_allVars => [Disk!Next]_Disk!vars
  BY DEF RuntimeNext, allVars, fileVars, Disk!vars
<1> QED
  BY <1>1, <1>2, PTL DEF RuntimeSpec, Disk!Spec

\* Whatever part moves, the event loop does what its module says or rests.
LEMMA LoopBehaves == RuntimeSpec => Loop!Spec
<1>1. RuntimeInit => Loop!Init
  BY DEF RuntimeInit, EventsRest
<1>2. [RuntimeNext]_allVars => [Loop!Next]_(Loop!vars)
  BY DEF RuntimeNext, allVars, eventVars, Loop!vars
<1> QED
  BY <1>1, <1>2, PTL DEF RuntimeSpec, Loop!Spec

-----------------------------------------------------------------------------
(* The theorems.                                                            *)

\* pn_allocator.h, for any sizes, alignments and places malloc finds: what clients hold
\* stays apart and inside the used part of a chunk, the block that grows in place is the
\* last one, and total_used is what they hold, until a reset misses the chunk of its mark.
THEOREM ArenaCorrect == RuntimeSpec => []ArenaSafe
<1>1. Arena!Spec => [](Arena!ObjectsSafe /\ Arena!ChunksInBounds)
  BY RuntimeAssumption, Arena!BlocksApart
<1>2. Arena!Spec => [](Arena!LastAllocOnTop /\ Arena!UsedIsHeld)
  BY RuntimeAssumption, Arena!LastBlockAndTotal
<1>3. Arena!ObjectsSafe /\ Arena!ChunksInBounds /\ Arena!LastAllocOnTop /\ Arena!UsedIsHeld
        => ArenaSafe
  BY DEF ArenaSafe
<1> QED
  BY ArenaBehaves, <1>1, <1>2, <1>3, PTL

\* pn_allocator_reset_to_mark finds the chunks of the mark, and each as it was, for every
\* mark that is held, whatever was allocated, grown or reset since; a mark taken behind an
\* empty block at the end of its chunk is left out.
THEOREM MarksCorrect == RuntimeSpec => []MarksRestore
<1>1. Arena!Spec => []Arena!MarksRestore
  BY RuntimeAssumption, Arena!MarksBringBack
<1>2. Arena!MarksRestore => MarksRestore
  BY DEF MarksRestore
<1> QED
  BY ArenaBehaves, <1>1, <1>2, PTL

\* pn_thread_push_function, PN_OPCODE_RET, setjmp and longjmp, at any depth and with any
\* number of buffers: no frame is used after its mark was reset, and longjmp lands where
\* setjmp was called.
THEOREM CallsCorrect == RuntimeSpec => []CallsSafe
<1>1. Calls!BoundsAssumption
  BY RuntimeAssumption
<1>2. Calls!Spec => []Calls!FramesAllocated
  BY <1>1, StackAllocated
<1>3. Calls!Spec => []Calls!LongjmpLandsRight
  BY <1>1, LongjmpLands
<1>4. Calls!FramesAllocated /\ Calls!LongjmpLandsRight => CallsSafe
  BY DEF CallsSafe
<1> QED
  BY CallsBehaves, <1>2, <1>3, <1>4, PTL

\* mmap, munmap, alloca, stacksave, stackrestore, calls and returns, for any page size and
\* memory: no page is handed out twice, and heap and stacks stay apart as long as no alloca
\* was of more than lies below the stack top.
THEOREM GuestCorrect == RuntimeSpec => []GuestMemorySafe
<1>1. Guest!LayoutAssumption /\ Guest!OperandsAssumption
  BY RuntimeAssumption
<1>2. Guest!Spec => [](Guest!PagesHeldOnce /\ Guest!MappedBelowEnd)
  BY <1>1, MappingsApart
<1>3. Guest!Spec => [](Guest!HeapBelowStack /\ Guest!FramesNested)
  BY <1>1, StackApart
<1>4. Guest!PagesHeldOnce /\ Guest!MappedBelowEnd /\ Guest!HeapBelowStack /\ Guest!FramesNested
        => GuestMemorySafe
  BY DEF GuestMemorySafe
<1> QED
  BY GuestBehaves, <1>2, <1>3, <1>4, PTL

\* pn_filesystem.h, for any number of descriptors of the guest and of the host: no two
\* guest descriptors meet in one of the host's, and none of those is lost but to a full
\* table, as long as the guest leaves alone a descriptor whose close has failed.
THEOREM FilesCorrect == RuntimeSpec => []FilesSafe
<1>1. Disk!Spec => [](Disk!MapsApart /\ Disk!LostOnlyWhenFull)
  BY RuntimeAssumption, DescriptorsApart
<1>2. Disk!MapsApart /\ Disk!LostOnlyWhenFull => FilesSafe
  BY DEF FilesSafe
<1> QED
  BY DiskBehaves, <1>1, <1>2, PTL

\* Without --filesystem-access no step opens or closes a file of the host or moves in one
\* that is not a standard stream.
THEOREM AccessCorrect == RuntimeSpec => StandardOnly
<1>1. Disk!Spec => Disk!StandardOnly
  BY RuntimeAssumption, AccessRespected
<1> QED
  BY DiskBehaves, <1>1, PTL DEF StandardOnly

\* The two tables of pn_filesystem.h implement the one table of a guest: open gives the
\* lowest free descriptor, and close and the calls that move touch no other, as long as the
\* guest leaves alone a descriptor whose close has failed.
THEOREM FilesImplement == RuntimeSpec => ImplementsFdTable
<1>1. Disk!Spec => Disk!ImplementsFdTable
  BY RuntimeAssumption, FileSystemImplementsFdTable
<1> QED
  BY DiskBehaves, <1>1, PTL DEF ImplementsFdTable

\* pn_ppapi.h and the event thread, whatever interfaces the guest answers with and whoever's
\* turn it is: each event is queued, free or being handled, the queue is the same in both
\* directions, and the event thread has taken the place of the start thread in the ring,
\* whoever else comes and goes there.
THEOREM EventsCorrect == RuntimeSpec => []EventsSound
<1>1. RingInv /\ EventsInv => EventsSound
  BY RuntimeAssumption, RingSound, EventsHold DEF EventsSound
<1> QED BY LoopBehaves, LoopInvariant, <1>1, PTL

\* DidCreate is called once, after each interface before it was asked for at most once, and
\* the event thread rests for good only then.
THEOREM CreationCorrect == RuntimeSpec => []CreatedOnce
<1>1. EventsInv => CreatedOnce
  BY RuntimeAssumption, EventsHold DEF CreatedOnce
<1> QED BY LoopBehaves, LoopInvariant, <1>1, PTL

=============================================================================
