--------------------------- MODULE AllocatorProofs ---------------------------
(***************************************************************************)
(* Proofs about Allocator: for all sizes, alignments and placements of     *)
(* chunks, the blocks that clients hold stay apart and in memory that has  *)
(* not been freed, and every mark brings back the arena as it was, until a *)
(* reset to a mark whose last block was an empty one at the end of its     *)
(* chunk, which pn_allocator_reset_to_mark does not find.                  *)
(***************************************************************************)
EXTENDS Allocator, CommonLemmas

\* Doubling 1 often enough reaches any number.
LEMMA PowerAtLeast ==
  ASSUME NEW n \in Nat
  PROVE  2^n \in Nat /\ n <= 2^n
<1> DEFINE S == 1..n
<1>1. IsFiniteSet(S) /\ Cardinality(S) = n
  BY FS_Interval
<1>2. IsFiniteSet(SUBSET S) /\ Cardinality(SUBSET S) = 2^n
  BY <1>1, FS_SUBSET
<1>3. 2^n \in Nat
  BY <1>2, FS_CardinalityType
<1> DEFINE f == [x \in S |-> {x}]
<1>4. f \in [S -> SUBSET S] /\ \A x, y \in S : f[x] = f[y] => x = y
  OBVIOUS
<1>5. f \in Injection(S, SUBSET S)
  BY <1>4 DEF Injection, IsInjective
<1>6. Cardinality(S) <= Cardinality(SUBSET S)
  <2> HIDE DEF S, f
  <2> QED BY <1>2, <1>5, FS_Injection
<1> QED BY <1>1, <1>2, <1>3, <1>6

\* pn_next_power_of_two does not return less than it is given.
LEMMA NextPowerAtLeast ==
  ASSUME NEW v \in Nat
  PROVE  NextPowerOfTwo(v) \in Nat /\ v <= NextPowerOfTwo(v)
<1> DEFINE S == {ret \in {2^k : k \in 0..v} : ret >= v}
<1>1. \A k \in 0..v : 2^k \in Nat
  BY PowerAtLeast
<1>2. S \in SUBSET Nat
  BY <1>1
<1>3. 2^v \in S
  BY PowerAtLeast
<1>4. Min(S) \in S
  <2> HIDE DEF S
  <2> QED BY <1>2, <1>3, MinIn
<1>5. Min(S) \in Nat /\ v <= Min(S)
  <2>1. Min(S) \in Nat /\ Min(S) >= v
    BY <1>2, <1>4
  <2> QED BY <2>1
<1> QED BY <1>5 DEF NextPowerOfTwo

-----------------------------------------------------------------------------
(* What the clients hold: the fold of UsedIsHeld.                           *)

UsedBy(S) == FoldSet(LAMBDA o, sum : sum + o.size, 0, S)

Sized(S) == IsFiniteSet(S) /\ \A o \in S : o.size \in Nat

First(s) == CHOOSE x \in s : TRUE

\* g adds up the sizes of the sets of D, element by element.
SumsUp(g, D) ==
  g = [s \in D |-> IF s = {} THEN 0 ELSE g[s \ {First(s)}] + First(s).size]

\* There is such a function for the subsets of a finite set.
LEMMA SumsUpExists ==
  ASSUME NEW S, Sized(S)
  PROVE  \E g \in [SUBSET S -> Nat] : SumsUp(g, SUBSET S)
<1> DEFINE Rank(n) == {s \in SUBSET S : Cardinality(s) <= n}
           Sum(g, n) == \A s \in Rank(n) :
                          g[s] = IF s = {} THEN 0 ELSE g[s \ {First(s)}] + First(s).size
           Good == {n \in Nat : \E g \in [Rank(n) -> Nat] : Sum(g, n)}
<1>1. \A s \in SUBSET S : IsFiniteSet(s) /\ Cardinality(s) \in Nat
                          /\ Cardinality(s) <= Cardinality(S)
  BY FS_Subset, FS_CardinalityType DEF Sized
<1>2. \A s \in SUBSET S : s # {} => First(s) \in s /\ First(s).size \in Nat
                                    /\ s \ {First(s)} \in SUBSET S
  BY DEF Sized, First
<1>3. ASSUME NEW s \in SUBSET S, s # {}
      PROVE  Cardinality(s \ {First(s)}) = Cardinality(s) - 1
  BY <1>1, <1>2, <1>3, FS_RemoveElement
<1>4. 0 \in Good
  <2>1. \A s \in Rank(0) : s = {}
    BY <1>1, FS_EmptySet
  <2> DEFINE g == [s \in Rank(0) |-> 0]
  <2>2. g \in [Rank(0) -> Nat] /\ Sum(g, 0)
    BY <2>1
  <2> QED BY <2>2
<1>5. ASSUME NEW n \in Nat, n \in Good PROVE n + 1 \in Good
  <2>1. PICK g \in [Rank(n) -> Nat] : Sum(g, n)
    BY <1>5
  <2> DEFINE h == [s \in Rank(n + 1) |->
                     IF s = {} THEN 0 ELSE g[s \ {First(s)}] + First(s).size]
  <2>2. ASSUME NEW s \in Rank(n + 1), s # {}
        PROVE  s \ {First(s)} \in Rank(n)
    BY <1>1, <1>2, <1>3, <2>2
  <2>3. h \in [Rank(n + 1) -> Nat]
    BY <1>2, <2>1, <2>2
  <2>4. \A s \in Rank(n) : s \in Rank(n + 1)
    BY <1>1
  <2>5. \A s \in Rank(n) : h[s] = g[s]
    BY <2>1, <2>4
  <2>6. Sum(h, n + 1)
    <3> SUFFICES ASSUME NEW s \in Rank(n + 1)
                 PROVE  h[s] = IF s = {} THEN 0 ELSE h[s \ {First(s)}] + First(s).size
      OBVIOUS
    <3>1. CASE s = {}
      BY <3>1
    <3>2. CASE s # {}
      <4>1. h[s] = g[s \ {First(s)}] + First(s).size
        BY <3>2
      <4>2. h[s \ {First(s)}] = g[s \ {First(s)}]
        BY <2>2, <2>5, <3>2
      <4> HIDE DEF h
      <4> QED BY <3>2, <4>1, <4>2
    <3> QED BY <3>1, <3>2
  <2> HIDE DEF h, Rank, Sum
  <2>7. \E e \in [Rank(n + 1) -> Nat] : Sum(e, n + 1)
    BY <2>3, <2>6
  <2> QED BY <2>7
<1>6. Cardinality(S) \in Good
  <2>1. \A n \in Nat : n \in Good
    <3> HIDE DEF Good
    <3> QED BY <1>4, <1>5, NatSet
  <2> QED BY <1>1, <2>1
<1>7. Rank(Cardinality(S)) = SUBSET S
  BY <1>1
<1>8. PICK g \in [SUBSET S -> Nat] : Sum(g, Cardinality(S))
  BY <1>6, <1>7
<1>9. SumsUp(g, SUBSET S)
  BY <1>7, <1>8 DEF SumsUp
<1> QED BY <1>9

\* The fold is the value of such a function.
LEMMA UsedByIter ==
  ASSUME NEW S, Sized(S)
  PROVE  \E g : SumsUp(g, SUBSET S) /\ UsedBy(S) = g[S]
<1>1. \E g : SumsUp(g, SUBSET S)
  BY SumsUpExists
<1> QED BY <1>1, Zenon DEF UsedBy, FoldSet, MapThenFoldSet, SumsUp, First

\* Two such functions agree where both are defined.
LEMMA SumsUpSame ==
  ASSUME NEW S, NEW T, Sized(S), T \in SUBSET S, NEW g, NEW h,
         SumsUp(g, SUBSET S), SumsUp(h, SUBSET T)
  PROVE  \A s \in SUBSET T : g[s] = h[s]
<1> DEFINE Good == {n \in Nat : \A s \in SUBSET T : Cardinality(s) <= n => g[s] = h[s]}
<1>1. \A s \in SUBSET T : IsFiniteSet(s) /\ Cardinality(s) \in Nat
  BY FS_Subset, FS_CardinalityType DEF Sized
<1>2. \A s \in SUBSET T :
        /\ s = {} => g[s] = 0 /\ h[s] = 0
        /\ s # {} => /\ g[s] = g[s \ {First(s)}] + First(s).size
                     /\ h[s] = h[s \ {First(s)}] + First(s).size
  BY DEF SumsUp
<1>3. ASSUME NEW s \in SUBSET T, s # {}
      PROVE  /\ s \ {First(s)} \in SUBSET T
             /\ Cardinality(s \ {First(s)}) = Cardinality(s) - 1
  <2>1. First(s) \in s
    BY <1>3 DEF First
  <2> QED BY <1>1, <2>1, FS_RemoveElement
<1>4. 0 \in Good
  <2>1. \A s \in SUBSET T : Cardinality(s) <= 0 => s = {}
    BY <1>1, FS_EmptySet
  <2> QED BY <1>2, <2>1
<1>5. ASSUME NEW n \in Nat, n \in Good PROVE n + 1 \in Good
  <2> SUFFICES ASSUME NEW s \in SUBSET T, Cardinality(s) <= n + 1 PROVE g[s] = h[s]
    OBVIOUS
  <2>1. CASE s = {}
    BY <1>2, <2>1
  <2>2. CASE s # {}
    <3>1. Cardinality(s \ {First(s)}) <= n
      BY <1>1, <1>3, <2>2
    <3>2. g[s \ {First(s)}] = h[s \ {First(s)}]
      BY <1>3, <1>5, <2>2, <3>1
    <3> QED BY <1>2, <2>2, <3>2
  <2> QED BY <2>1, <2>2
<1>6. \A n \in Nat : n \in Good
  <2> HIDE DEF Good
  <2> QED BY <1>4, <1>5, NatSet
<1>7. ASSUME NEW s \in SUBSET T PROVE g[s] = h[s]
  <2>1. Cardinality(s) \in Good /\ Cardinality(s) <= Cardinality(s)
    BY <1>1, <1>6
  <2> QED BY <2>1
<1> QED BY <1>7

\* The fold takes its set apart at First.
LEMMA UsedByFirst ==
  ASSUME NEW S, Sized(S)
  PROVE  /\ UsedBy(S) \in Nat
         /\ S = {} => UsedBy(S) = 0
         /\ S # {} => UsedBy(S) = UsedBy(S \ {First(S)}) + First(S).size
<1>1. PICK g : SumsUp(g, SUBSET S) /\ UsedBy(S) = g[S]
  BY UsedByIter
<1>2. PICK e \in [SUBSET S -> Nat] : SumsUp(e, SUBSET S)
  BY SumsUpExists
<1>3. g[S] = e[S]
  BY <1>1, <1>2, SumsUpSame
<1>4. UsedBy(S) \in Nat
  BY <1>1, <1>2, <1>3
<1>5. S = {} => UsedBy(S) = 0
  BY <1>1 DEF SumsUp
<1>6. ASSUME S # {} PROVE UsedBy(S) = UsedBy(S \ {First(S)}) + First(S).size
  <2> DEFINE T == S \ {First(S)}
  <2>1. T \in SUBSET S /\ Sized(T)
    BY FS_Subset DEF Sized
  <2> HIDE DEF T
  <2>2. PICK h : SumsUp(h, SUBSET T) /\ UsedBy(T) = h[T]
    BY <2>1, UsedByIter
  <2>3. g[T] = h[T]
    BY <1>1, <2>1, <2>2, SumsUpSame
  <2>4. g[S] = g[T] + First(S).size
    BY <1>1, <1>6 DEF SumsUp, T
  <2> QED BY <1>1, <2>2, <2>3, <2>4 DEF T
<1> QED BY <1>4, <1>5, <1>6

\* The fold takes its set apart at any element.
LEMMA UsedByRemove ==
  ASSUME NEW S, Sized(S), NEW y \in S
  PROVE  UsedBy(S) = UsedBy(S \ {y}) + y.size
<1> DEFINE Good == {n \in Nat : \A T \in SUBSET S : Cardinality(T) <= n =>
                      \A z \in T : UsedBy(T) = UsedBy(T \ {z}) + z.size}
<1>1. \A T \in SUBSET S : Sized(T) /\ IsFiniteSet(T) /\ Cardinality(T) \in Nat
  BY FS_Subset, FS_CardinalityType DEF Sized
<1>2. 0 \in Good
  <2>1. \A T \in SUBSET S : Cardinality(T) <= 0 => T = {}
    BY <1>1, FS_EmptySet
  <2> QED BY <2>1
<1>3. ASSUME NEW n \in Nat, n \in Good PROVE n + 1 \in Good
  <2> SUFFICES ASSUME NEW T \in SUBSET S, Cardinality(T) <= n + 1, NEW z \in T
               PROVE  UsedBy(T) = UsedBy(T \ {z}) + z.size
    OBVIOUS
  <2> DEFINE x == First(T)
  <2>1. x \in T
    BY DEF First
  <2>2. UsedBy(T) = UsedBy(T \ {x}) + x.size
    BY <1>1, UsedByFirst
  <2>3. CASE z = x
    BY <2>2, <2>3
  <2>4. CASE z # x
    <3> HIDE DEF x
    <3>1. /\ T \ {x} \in SUBSET S /\ T \ {z} \in SUBSET S
          /\ Cardinality(T \ {x}) <= n /\ Cardinality(T \ {z}) <= n
          /\ z \in T \ {x} /\ x \in T \ {z}
      <4>1. /\ T \ {x} \in SUBSET S /\ T \ {z} \in SUBSET S
            /\ z \in T \ {x} /\ x \in T \ {z}
        BY <2>1, <2>4
      <4>2. IsFiniteSet(T) /\ Cardinality(T) \in Nat
        BY <1>1
      <4>3. Cardinality(T \ {x}) = Cardinality(T) - 1
        BY <2>1, <4>2, FS_RemoveElement
      <4>4. Cardinality(T \ {z}) = Cardinality(T) - 1
        BY <4>2, FS_RemoveElement
      <4>5. Cardinality(T) - 1 <= n
        BY <4>2
      <4> QED BY <4>1, <4>3, <4>4, <4>5
    <3>2. UsedBy(T \ {x}) = UsedBy((T \ {x}) \ {z}) + z.size
      BY <1>3, <3>1
    <3>3. UsedBy(T \ {z}) = UsedBy((T \ {z}) \ {x}) + x.size
      BY <1>3, <3>1
    <3>4. (T \ {x}) \ {z} = (T \ {z}) \ {x} /\ (T \ {x}) \ {z} \in SUBSET S
      OBVIOUS
    <3>5. UsedBy((T \ {x}) \ {z}) \in Nat /\ x.size \in Nat /\ z.size \in Nat
      BY <1>1, <2>1, <3>4, UsedByFirst DEF Sized
    <3> DEFINE r == UsedBy((T \ {x}) \ {z})
               a == UsedBy(T)
               b == UsedBy(T \ {z})
               c == UsedBy(T \ {x})
    <3>6. a = c + x.size /\ c = r + z.size /\ b = r + x.size
      BY <2>2, <3>2, <3>3, <3>4, Zenon
    <3>7. r \in Nat
      BY <3>5
    <3> HIDE DEF r, a, b, c
    <3>8. a = b + z.size
      BY <3>5, <3>6, <3>7
    <3> QED BY <3>8 DEF a, b
  <2> QED BY <2>3, <2>4
<1>4. \A n \in Nat : n \in Good
  <2> HIDE DEF Good
  <2> QED BY <1>2, <1>3, NatSet
<1>5. Cardinality(S) \in Good /\ Cardinality(S) <= Cardinality(S) /\ S \in SUBSET S
  BY <1>1, <1>4
<1> QED BY <1>5

\* A block is added to what the clients hold.
LEMMA UsedByAdd ==
  ASSUME NEW S, Sized(S), NEW y, y \notin S, y.size \in Nat
  PROVE  Sized(S \cup {y}) /\ UsedBy(S \cup {y}) = UsedBy(S) + y.size
<1>1. Sized(S \cup {y})
  BY FS_AddElement DEF Sized
<1>2. (S \cup {y}) \ {y} = S /\ y \in S \cup {y}
  OBVIOUS
<1>3. UsedBy(S \cup {y}) = UsedBy((S \cup {y}) \ {y}) + y.size
  BY <1>1, <1>2, UsedByRemove
<1> QED BY <1>1, <1>2, <1>3

-----------------------------------------------------------------------------
(* The inductive invariant.  The arena as it is now is treated as one more  *)
(* mark, behind those that are held: taking a mark and resetting to one     *)
(* then only move what is already known.                                    *)

InBounds(cs) ==
  \A i \in DOMAIN cs : /\ 0 < cs[i].base /\ cs[i].base + HeaderSize <= cs[i].current
                       /\ cs[i].current <= cs[i].end

Apart(cs) ==
  \A i, j \in DOMAIN cs : i # j => cs[i].end <= cs[j].base \/ cs[j].end <= cs[i].base

\* The last allocation is a block at the top of the last chunk, and none in it is behind.
OnTop(m, objs) ==
  /\ m.chunks = <<>> => m.last_alloc = 0 /\ m.current = 0
  /\ m.chunks # <<>> =>
       /\ m.current = m.chunks[Len(m.chunks)].current
       /\ m.chunks[Len(m.chunks)].base + HeaderSize <= m.last_alloc
       /\ m.last_alloc <= m.current
       /\ \A p \in objs : InChunk(p, m.chunks[Len(m.chunks)]) => p.ptr <= m.last_alloc
       /\ \E o \in objs : o.ptr = m.last_alloc /\ o.size = m.current - m.last_alloc

Inside(objs, cs) == \A o \in objs : \E j \in DOMAIN cs : InChunk(o, cs[j])

\* An arena with a mark m and the blocks objs in it.
Sound(m, objs) ==
  /\ InBounds(m.chunks) /\ Apart(m.chunks) /\ OnTop(m, objs) /\ Inside(objs, m.chunks)
  /\ m.total_used = UsedBy(objs)

\* The chunks as have become cs: only the last one was used further, others follow it.
Continues(cs, as) ==
  /\ Len(as) <= Len(cs)
  /\ \A j \in DOMAIN as : /\ as[j].base = cs[j].base /\ as[j].end = cs[j].end
                          /\ as[j].current <= cs[j].current
                          /\ j < Len(as) => as[j] = cs[j]

\* The blocks that there were at the i-th mark.
HeldAt(i) == {o \in objects : o.depth < i}

\* The mark that pn_allocator_mark would take.
Now == [current                |-> IF chunks = <<>> THEN NULL ELSE head_chunk.current,
        last_alloc             |-> last_alloc,
        total_used             |-> total_used,
        internal_fragmentation |-> internal_fragmentation,
        chunks                 |-> chunks]

Disjoint ==
  \A o, p \in objects : o # p => o.ptr + o.size <= p.ptr \/ p.ptr + p.size <= o.ptr

ObjectsOK == IsFiniteSet(objects) /\ \A o \in objects : o.depth <= Len(held)

MarksSound ==
  \A i \in DOMAIN held : /\ Sound(held[i], HeldAt(i)) /\ Continues(chunks, held[i].chunks)
                         /\ \A k \in DOMAIN held : k <= i =>
                              Continues(held[i].chunks, held[k].chunks)

IInv == TypeOK /\ ObjectsOK /\ Disjoint /\ Sound(Now, objects) /\ MarksSound

\* All of it until a reset has missed the chunk of its mark.
ArenaInv == TypeOK /\ total_used = UsedBy(objects) /\ (~astray => IInv)

\* The chunks of a list.
LEMMA ChunkList ==
  ASSUME NEW cs \in Seq(Chunk)
  PROVE  /\ Len(cs) \in Nat /\ DOMAIN cs = 1..Len(cs)
         /\ \A j \in DOMAIN cs : /\ cs[j] \in Chunk /\ cs[j].base \in Nat
                                 /\ cs[j].current \in Nat /\ cs[j].end \in Nat
         /\ cs # <<>> => Len(cs) # 0 /\ Len(cs) \in DOMAIN cs
         /\ cs = <<>> => Len(cs) = 0
<1>1. /\ Len(cs) \in Nat /\ DOMAIN cs = 1..Len(cs) /\ \A j \in DOMAIN cs : cs[j] \in Chunk
      /\ cs # <<>> => Len(cs) # 0
      /\ cs = <<>> => Len(cs) = 0
  OBVIOUS
<1>2. \A c \in Chunk : c.base \in Nat /\ c.current \in Nat /\ c.end \in Nat
  BY DEF Chunk
<1> QED BY <1>1, <1>2

\* Continues is an order.
LEMMA ContinuesOrder ==
  ASSUME NEW a \in Seq(Chunk)
  PROVE  /\ Continues(a, a)
         /\ \A b, c \in Seq(Chunk) : Continues(b, a) /\ Continues(c, b) => Continues(c, a)
<1>1. Len(a) \in Nat /\ DOMAIN a = 1..Len(a) /\ \A j \in DOMAIN a : a[j].current \in Nat
  BY ChunkList
<1>2. Continues(a, a)
  BY <1>1 DEF Continues
<1>3. ASSUME NEW b \in Seq(Chunk), NEW c \in Seq(Chunk), Continues(b, a), Continues(c, b)
      PROVE  Continues(c, a)
  <2>1. /\ Len(b) \in Nat /\ DOMAIN b = 1..Len(b) /\ Len(c) \in Nat /\ DOMAIN c = 1..Len(c)
        /\ \A j \in DOMAIN b : b[j] \in Chunk
        /\ \A j \in DOMAIN c : c[j] \in Chunk
    OBVIOUS
  <2>2. Len(a) <= Len(b) /\ Len(b) <= Len(c)
    BY <1>3 DEF Continues
  <2>3. Len(a) <= Len(c)
    BY <1>1, <2>1, <2>2
  <2>4. ASSUME NEW j \in DOMAIN a
        PROVE  /\ a[j].base = c[j].base /\ a[j].end = c[j].end
               /\ a[j].current <= c[j].current
               /\ j < Len(a) => a[j] = c[j]
    <3>1. j \in DOMAIN b /\ j \in DOMAIN c /\ j \in Nat
      BY <1>1, <2>1, <2>2
    <3>2. /\ a[j].base = b[j].base /\ a[j].end = b[j].end /\ a[j].current <= b[j].current
          /\ j < Len(a) => a[j] = b[j]
      BY <1>3 DEF Continues
    <3>3. /\ b[j].base = c[j].base /\ b[j].end = c[j].end /\ b[j].current <= c[j].current
          /\ j < Len(b) => b[j] = c[j]
      BY <1>3, <3>1 DEF Continues
    <3>4. a[j].current \in Nat /\ b[j].current \in Nat /\ c[j].current \in Nat
      BY <1>1, <2>1, <3>1 DEF Chunk
    <3>5. a[j].current <= c[j].current
      BY <3>2, <3>3, <3>4
    <3>6. j < Len(a) => j < Len(b)
      BY <1>1, <2>1, <2>2, <3>1
    <3> QED BY <3>2, <3>3, <3>5, <3>6
  <2> QED BY <2>3, <2>4 DEF Continues
<1> QED BY <1>2, <1>3

-----------------------------------------------------------------------------
(* Marks.                                                                   *)

\* A chunk with its current replaced.
LEMMA ChunkUpdate ==
  ASSUME NEW c \in Chunk, NEW x \in Nat
  PROVE  LET d == [c EXCEPT !.current = x] IN
         d \in Chunk /\ d.base = c.base /\ d.current = x /\ d.end = c.end
BY DEF Chunk

\* Two chunks with the same fields are the same.
LEMMA ChunkSame ==
  ASSUME NEW c \in Chunk, NEW d \in Chunk,
         c.base = d.base, c.current = d.current, c.end = d.end
  PROVE  c = d
BY DEF Chunk

\* The types of a mark.
LEMMA MarkTypes ==
  ASSUME NEW m \in Mark
  PROVE  /\ m.current \in Nat /\ m.last_alloc \in Nat /\ m.total_used \in Nat
         /\ m.internal_fragmentation \in Nat /\ m.chunks \in Seq(Chunk)
BY DEF Mark

\* The loop of pn_allocator_reset_to_mark stops at the chunk that was last at the mark,
\* and gives back the chunks there were.
LEMMA MarkRestores ==
  ASSUME SizesAssumption, NEW m \in Mark, NEW objs, Sound(m, objs), Findable(m),
         chunks \in Seq(Chunk), InBounds(chunks), Apart(chunks), Continues(chunks, m.chunks)
  PROVE  ChunksAtMark(m) = m.chunks
<1> DEFINE found == {i \in DOMAIN chunks : chunks[i].base <= m.last_alloc
                                           /\ m.last_alloc < chunks[i].end}
           n == Len(m.chunks)
<1>1. /\ m.current \in Nat /\ m.last_alloc \in Nat /\ m.chunks \in Seq(Chunk)
      /\ HeaderSize \in Nat
  BY MarkTypes DEF SizesAssumption
<1>2. /\ Len(chunks) \in Nat /\ DOMAIN chunks = 1..Len(chunks)
      /\ \A j \in DOMAIN chunks : /\ chunks[j] \in Chunk /\ chunks[j].base \in Nat
                                  /\ chunks[j].current \in Nat /\ chunks[j].end \in Nat
  BY ChunkList
<1>3. /\ n \in Nat /\ DOMAIN m.chunks = 1..n
      /\ \A j \in DOMAIN m.chunks : m.chunks[j] \in Chunk
  BY <1>1, ChunkList
<1>4. ChunksAtMark(m) = IF found = {} THEN <<>>
                        ELSE [SubSeq(chunks, 1, Max(found)) EXCEPT ![Max(found)].current = m.current]
  BY DEF ChunksAtMark
<1>5. CASE m.chunks = <<>>
  <2>1. m.last_alloc = 0
    BY <1>5 DEF Sound, OnTop
  <2>2. found = {}
    BY <1>2, <2>1 DEF InBounds
  <2> QED BY <1>4, <1>5, <2>2
<1>6. CASE m.chunks # <<>>
  <2>1. n # 0 /\ n \in DOMAIN m.chunks /\ n \in DOMAIN chunks /\ n \in 0..Len(chunks)
    <3>1. n # 0 /\ n \in DOMAIN m.chunks
      BY <1>1, <1>6, ChunkList
    <3>2. n <= Len(chunks)
      BY DEF Continues
    <3> QED BY <1>2, <1>3, <3>1, <3>2
  <2>2. /\ m.chunks[n].base = chunks[n].base /\ m.chunks[n].end = chunks[n].end
        /\ \A j \in DOMAIN m.chunks : j < n => m.chunks[j] = chunks[j]
    BY <2>1 DEF Continues
  <2>3. /\ m.current = m.chunks[n].current /\ m.chunks[n].base + HeaderSize <= m.last_alloc
        /\ m.last_alloc < m.chunks[n].end
    BY <1>6, <2>1 DEF Sound, OnTop, Findable
  <2> HIDE DEF n
  <2>4. chunks[n].base <= m.last_alloc /\ m.last_alloc < chunks[n].end
    BY <1>1, <1>2, <2>1, <2>2, <2>3
  <2>5. found = {n}
    <3>1. ASSUME NEW i \in found PROVE i = n
      <4>1. i # n => chunks[i].end <= chunks[n].base \/ chunks[n].end <= chunks[i].base
        BY <2>1 DEF Apart
      <4> QED BY <1>1, <1>2, <2>1, <2>4, <4>1
    <3> QED BY <2>1, <2>4, <3>1
  <2>6. Max(found) = n
    <3>1. n \in Int
      BY <1>3
    <3> QED BY <2>5, <3>1 DEF Max
  <2> DEFINE pre == SubSeq(chunks, 1, n)
             c   == [pre[n] EXCEPT !.current = m.current]
             u   == [pre EXCEPT ![n] = c]
  <2>7. /\ pre \in Seq(Chunk) /\ Len(pre) = n /\ DOMAIN pre = 1..n
        /\ \A j \in 1..n : pre[j] = chunks[j]
    BY <2>1, SeqPrefix
  <2>8. n \in 1..n /\ pre[n] = chunks[n] /\ pre[n] \in Chunk
    BY <1>2, <1>3, <2>1, <2>7
  <2>9. c \in Chunk /\ c = m.chunks[n]
    <3>1. c \in Chunk /\ c.base = chunks[n].base /\ c.current = m.current
          /\ c.end = chunks[n].end
      BY <1>1, <2>8, ChunkUpdate
    <3> HIDE DEF c
    <3> QED BY <1>3, <2>1, <2>2, <2>3, <3>1, ChunkSame
  <2>10. ChunksAtMark(m) = u
    BY <1>4, <2>5, <2>6
  <2> HIDE DEF c, pre
  <2>11. u \in Seq(Chunk) /\ Len(u) = n /\ u[n] = c /\ \A j \in 1..n : j # n => u[j] = pre[j]
    BY <2>7, <2>8, <2>9, SeqUpdate
  <2> HIDE DEF u
  <2>12. \A j \in 1..n : u[j] = m.chunks[j]
    BY <1>3, <2>2, <2>7, <2>9, <2>11
  <2>13. u = m.chunks
    BY <1>1, <2>11, <2>12, SeqSame DEF n
  <2> QED BY <2>10, <2>13
<1> QED BY <1>5, <1>6

\* What the invariant says of the head chunk and of the arena as it is.
LEMMA ArenaNow ==
  ASSUME SizesAssumption, IInv
  PROVE  /\ chunks \in Seq(Chunk) /\ Now \in Mark
         /\ Now.chunks = chunks /\ Now.last_alloc = last_alloc /\ Now.total_used = total_used
         /\ Now.internal_fragmentation = internal_fragmentation
         /\ chunks = <<>> => Now.current = 0
         /\ chunks # <<>> => Now.current = chunks[Len(chunks)].current
         /\ InBounds(chunks) /\ Apart(chunks) /\ Inside(objects, chunks)
         /\ total_used = UsedBy(objects)
<1>1. /\ chunks \in Seq(Chunk) /\ last_alloc \in Nat /\ total_used \in Nat
      /\ internal_fragmentation \in Nat
  BY DEF IInv, TypeOK
<1>2. /\ Now.chunks = chunks /\ Now.last_alloc = last_alloc /\ Now.total_used = total_used
      /\ Now.internal_fragmentation = internal_fragmentation
      /\ chunks = <<>> => Now.current = 0
      /\ chunks # <<>> => Now.current = chunks[Len(chunks)].current
  BY DEF Now, NULL, head_chunk
<1>3. Now \in Mark
  <2>1. (IF chunks = <<>> THEN NULL ELSE head_chunk.current) \in Nat
    BY <1>1, ChunkList DEF head_chunk, NULL
  <2> QED BY <1>1, <2>1 DEF Now, Mark
<1>4. Sound(Now, objects)
  BY DEF IInv
<1> QED BY <1>1, <1>2, <1>3, <1>4 DEF Sound

-----------------------------------------------------------------------------
(* Allocation.                                                              *)

\* A pointer that is aligned is not moved by aligning it again.
LEMMA AlignUpTwice ==
  ASSUME NEW p \in Nat, NEW align \in Nat, align # 0
  PROVE  /\ AlignUp(p, align) \in Nat /\ p <= AlignUp(p, align)
         /\ AlignUp(p, align) < p + align
         /\ AlignUp(AlignUp(p, align), align) = AlignUp(p, align)
<1> DEFINE u == AlignUp(p, align)
           q == u \div align
<1>1. u \in Nat /\ p <= u /\ u < p + align /\ u % align = 0
  BY RoundUp DEF AlignUp
<1>2. AlignUp(u, align) = ((u + align - 1) \div align) * align
  BY DEF AlignUp
<1> HIDE DEF u
<1>3. q \in Nat /\ u = align * q
  BY <1>1, DivMod
<1> HIDE DEF q
<1>4. u + align - 1 \in Nat /\ align * q <= u + align - 1 /\ u + align - 1 < align * q + align
  BY <1>1, <1>3
<1>5. (u + align - 1) \div align = q
  BY <1>3, <1>4, DivUnique
<1>6. AlignUp(u, align) = u
  BY <1>2, <1>3, <1>5
<1> QED BY <1>1, <1>6 DEF u

\* pn_allocator_new_chunk makes room for the header, the alignment and the block.
LEMMA NewChunkFits ==
  ASSUME SizesAssumption, NEW base \in Bases, NEW size \in Nat, NEW align \in Aligns
  PROVE  LET c == NewChunk(base, size, align) IN
         /\ c \in Chunk /\ c.base = base /\ 0 < base
         /\ c.end = base + ChunkSize(size, align) /\ base + HeaderSize <= c.current
         /\ c.current + size <= c.end /\ AlignUp(c.current, align) = c.current
<1> DEFINE c    == NewChunk(base, size, align)
           need == size + HeaderSize + align - 1
           big  == Max({need, MinChunkSize})
           at   == AlignUp(base + HeaderSize, align)
<1>1. /\ base \in Nat /\ base # 0 /\ align \in Nat /\ align # 0
      /\ HeaderSize \in Nat /\ MinChunkSize \in Nat
  BY DEF SizesAssumption
<1>2. need \in Nat /\ base + HeaderSize \in Nat
  BY <1>1
<1>3. big \in Nat /\ need <= big
  <2>1. need \in Int /\ MinChunkSize \in Int
    BY <1>1, <1>2
  <2> HIDE DEF need
  <2>2. big = IF need <= MinChunkSize THEN MinChunkSize ELSE need
    BY <2>1, MinMaxOfTwo, Zenon
  <2> HIDE DEF big
  <2> QED BY <1>1, <1>2, <2>2
<1>4. ChunkSize(size, align) \in Nat /\ big <= ChunkSize(size, align)
  <2> HIDE DEF big
  <2>1. NextPowerOfTwo(big) \in Nat /\ big <= NextPowerOfTwo(big)
    BY <1>3, NextPowerAtLeast
  <2> QED BY <2>1 DEF ChunkSize, big
<1>5. /\ at \in Nat /\ base + HeaderSize <= at /\ at < base + HeaderSize + align
      /\ AlignUp(at, align) = at
  BY <1>1, <1>2, AlignUpTwice
<1>6. /\ c.base = base /\ c.current = at /\ c.end = base + ChunkSize(size, align)
      /\ c = [base |-> base, current |-> at, end |-> base + ChunkSize(size, align)]
  BY DEF NewChunk
<1> HIDE DEF c, at, big
<1>7. base + ChunkSize(size, align) \in Nat
  BY <1>1, <1>4
<1>8. c \in Chunk
  BY <1>1, <1>5, <1>6, <1>7 DEF Chunk
<1>9. at + size <= base + ChunkSize(size, align)
  BY <1>1, <1>3, <1>4, <1>5
<1> QED BY <1>1, <1>5, <1>6, <1>8, <1>9 DEF c

\* A block behind what a chunk has handed out, or outside of it, overlaps no block in it;
\* one before it is not even next to any.
LEMMA FreshApart ==
  ASSUME SizesAssumption, IInv, NEW ptr \in Nat, NEW size \in Nat,
         \A j \in DOMAIN chunks : chunks[j].current <= ptr \/ ptr + size <= chunks[j].base
  PROVE  \A o \in objects : o.ptr + o.size <= ptr \/ ptr + size < o.ptr
<1> SUFFICES ASSUME NEW o \in objects
             PROVE  o.ptr + o.size <= ptr \/ ptr + size < o.ptr
  OBVIOUS
<1>1. PICK j \in DOMAIN chunks : InChunk(o, chunks[j])
  BY ArenaNow DEF Inside
<1>2. /\ chunks[j].base \in Nat /\ chunks[j].current \in Nat /\ HeaderSize \in Nat \ {0}
      /\ o.ptr \in Nat /\ o.size \in Nat
  BY ArenaNow, ChunkList DEF SizesAssumption, IInv, TypeOK
<1>3. chunks[j].base + HeaderSize <= o.ptr /\ o.ptr + o.size <= chunks[j].current
  BY <1>1 DEF InChunk
<1> QED BY <1>2, <1>3

\* The invariant from what an allocation does: the chunks go on, the blocks of the marks
\* stay, and the arena as it is now is sound.
LEMMA AllocationStep ==
  ASSUME SizesAssumption, IInv, UNCHANGED held, TypeOK',
         Continues(chunks', chunks), \A i \in DOMAIN held : HeldAt(i)' = HeldAt(i),
         ObjectsOK', Disjoint', Sound(Now, objects)'
  PROVE  IInv'
<1>1. chunks \in Seq(Chunk) /\ chunks' \in Seq(Chunk) /\ held \in Seq(Mark)
  BY DEF IInv, TypeOK
<1>2. \A i \in DOMAIN held : held[i].chunks \in Seq(Chunk)
  BY <1>1, MarkTypes
<1>3. MarksSound'
  <2> SUFFICES ASSUME NEW i \in DOMAIN held
               PROVE  /\ Sound(held[i], HeldAt(i))' /\ Continues(chunks', held[i].chunks)
                      /\ \A k \in DOMAIN held : k <= i =>
                           Continues(held[i].chunks, held[k].chunks)
    BY DEF MarksSound, Continues
  <2>1. /\ Sound(held[i], HeldAt(i)) /\ Continues(chunks, held[i].chunks)
        /\ \A k \in DOMAIN held : k <= i => Continues(held[i].chunks, held[k].chunks)
    BY DEF IInv, MarksSound
  <2>2. Sound(held[i], HeldAt(i))'
    <3>1. held'[i] = held[i] /\ HeldAt(i)' = HeldAt(i)
      OBVIOUS
    <3> QED BY <2>1, <3>1
  <2>3. Continues(chunks', held[i].chunks)
    BY <1>1, <1>2, <2>1, ContinuesOrder
  <2> QED BY <2>1, <2>2, <2>3
<1> QED BY <1>3 DEF IInv

Object == [ptr : Nat, size : Nat, depth : Nat]

\* The block o is placed at the top of the last chunk, in place of those in gone.
LEMMA PlaceStep ==
  ASSUME SizesAssumption, IInv, UNCHANGED <<held, astray>>,
         chunks' \in Seq(Chunk), chunks' # <<>>, InBounds(chunks'), Apart(chunks'),
         Continues(chunks', chunks),
         NEW gone \in SUBSET objects, \A g \in gone : g.depth = Len(held),
         NEW o \in Object, o.depth = Len(held),
         chunks'[Len(chunks')].base + HeaderSize <= o.ptr,
         o.ptr + o.size = chunks'[Len(chunks')].current,
         \A p \in objects \ gone : p.ptr + p.size <= o.ptr \/ o.ptr + o.size < p.ptr,
         objects' = (objects \ gone) \cup {o}, last_alloc' = o.ptr,
         total_used' = UsedBy(objects \ gone) + o.size, internal_fragmentation' \in Nat
  PROVE  IInv'
<1> DEFINE kept == objects \ gone
           n    == Len(chunks')
<1>1. /\ objects \subseteq Object /\ held \in Seq(Mark) /\ IsFiniteSet(objects)
      /\ \A p \in objects : p.depth <= Len(held)
      /\ chunks \in Seq(Chunk) /\ HeaderSize \in Nat
  BY DEF IInv, TypeOK, ObjectsOK, Object, SizesAssumption
<1>2. \A p \in Object : p.ptr \in Nat /\ p.size \in Nat /\ p.depth \in Nat
  BY DEF Object
<1>3. Sized(kept)
  BY <1>1, <1>2, FS_Subset DEF Sized
<1>4. o \in kept => o.size = 0
  <2> SUFFICES ASSUME o \in kept PROVE o.size = 0
    OBVIOUS
  <2>1. o.ptr + o.size <= o.ptr \/ o.ptr + o.size < o.ptr
    OBVIOUS
  <2> QED BY <1>2, <2>1
<1>5. Sized(kept \cup {o}) /\ UsedBy(kept \cup {o}) = UsedBy(kept) + o.size
  <2>1. CASE o \notin kept
    BY <1>2, <1>3, <2>1, UsedByAdd
  <2>2. CASE o \in kept
    <3>1. kept \cup {o} = kept /\ UsedBy(kept) \in Nat
      BY <1>3, <2>2, UsedByFirst
    <3> DEFINE used == UsedBy(kept)
    <3>2. used \in Nat
      BY <3>1
    <3> HIDE DEF used
    <3>3. used = used + o.size
      BY <1>4, <2>2, <3>2
    <3> QED BY <1>3, <3>1, <3>3, Zenon DEF used
  <2> QED BY <2>1, <2>2
<1>6. UsedBy(kept) \in Nat
  BY <1>3, UsedByFirst
<1>7. TypeOK'
  <2>1. last_alloc' \in Nat /\ total_used' \in Nat
    BY <1>2, <1>6
  <2>2. objects' \subseteq Object
    BY <1>1
  <2>3. astray' \in BOOLEAN /\ held' \in Seq(Mark)
    BY <1>1 DEF IInv, TypeOK
  <2> QED BY <2>1, <2>2, <2>3 DEF TypeOK, Object
<1>8. ObjectsOK'
  <2>1. IsFiniteSet(objects')
    BY <1>5 DEF Sized
  <2>2. Len(held) \in Nat
    BY <1>1
  <2>3. \A p \in objects' : p.depth <= Len(held)
    BY <1>1, <2>2
  <2> QED BY <2>1, <2>3 DEF ObjectsOK
<1>9. Disjoint'
  <2>1. \A p \in kept : p.ptr + p.size <= o.ptr \/ o.ptr + o.size <= p.ptr
    BY <1>1, <1>2
  <2> QED BY <2>1 DEF IInv, Disjoint
<1>10. Sound(Now', objects')
  <2>1. /\ Now'.chunks = chunks' /\ Now'.last_alloc = o.ptr /\ Now'.total_used = total_used'
        /\ Now'.current = chunks'[n].current
    BY DEF Now, head_chunk
  <2>2. n \in DOMAIN chunks'
    BY ChunkList
  <2>3. OnTop(Now', objects')
    <3>1. o \in objects'
      OBVIOUS
    <3>2. chunks'[n].current \in Nat
      BY <2>2, ChunkList
    <3>3. o.ptr <= chunks'[n].current /\ o.size = chunks'[n].current - o.ptr
      BY <1>2, <3>2
    <3>4. ASSUME NEW p \in objects', InChunk(p, chunks'[n]) PROVE p.ptr <= o.ptr
      <4>1. p.ptr \in Nat /\ p.size \in Nat /\ o.ptr \in Nat /\ o.size \in Nat
        BY <1>1, <1>2
      <4>2. p.ptr + p.size <= chunks'[n].current
        BY <3>4 DEF InChunk
      <4>3. p = o \/ p.ptr + p.size <= o.ptr \/ o.ptr + o.size < p.ptr
        OBVIOUS
      <4> QED BY <3>2, <4>1, <4>2, <4>3
    <3> QED BY <2>1, <3>1, <3>3, <3>4 DEF OnTop
  <2>4. Inside(objects', chunks')
    <3>1. ASSUME NEW p \in kept PROVE \E j \in DOMAIN chunks' : InChunk(p, chunks'[j])
      <4>1. PICK j \in DOMAIN chunks : InChunk(p, chunks[j])
        BY ArenaNow DEF Inside
      <4>2. j \in DOMAIN chunks' /\ chunks[j].base = chunks'[j].base
            /\ chunks[j].current <= chunks'[j].current
        BY <1>1, ChunkList DEF Continues
      <4>3. chunks[j].current \in Nat /\ chunks'[j].current \in Nat
            /\ p.ptr \in Nat /\ p.size \in Nat
        BY <1>1, <1>2, <4>2, ChunkList
      <4>4. InChunk(p, chunks'[j])
        BY <4>1, <4>2, <4>3 DEF InChunk
      <4> QED BY <4>2, <4>4
    <3>2. InChunk(o, chunks'[n])
      <4>1. chunks'[n].current \in Nat
        BY <2>2, ChunkList
      <4> QED BY <1>2, <4>1 DEF InChunk
    <3> QED BY <2>2, <3>1, <3>2 DEF Inside
  <2>5. total_used' = UsedBy(objects')
    BY <1>5
  <2> QED BY <2>1, <2>3, <2>4, <2>5 DEF Sound
<1>11. ASSUME NEW i \in DOMAIN held PROVE HeldAt(i)' = HeldAt(i)
  <2>1. i \in 1..Len(held) /\ Len(held) \in Nat
    BY <1>1
  <2>2. ~(Len(held) < i)
    BY <2>1
  <2> QED BY <2>2 DEF HeldAt
<1> QED BY <1>7, <1>8, <1>9, <1>10, <1>11, AllocationStep

\* A chunk list with its last chunk used further.
LEMMA HeadUsed ==
  ASSUME SizesAssumption, IInv, chunks # <<>>, NEW x \in Nat,
         chunks[Len(chunks)].current <= x, x <= chunks[Len(chunks)].end,
         chunks' = [chunks EXCEPT ![Len(chunks)].current = x]
  PROVE  /\ chunks' \in Seq(Chunk) /\ chunks' # <<>> /\ Len(chunks') = Len(chunks)
         /\ InBounds(chunks') /\ Apart(chunks') /\ Continues(chunks', chunks)
         /\ chunks'[Len(chunks')].current = x
         /\ chunks'[Len(chunks')].base = chunks[Len(chunks)].base
<1> DEFINE n == Len(chunks)
           c == [chunks[n] EXCEPT !.current = x]
<1>1. /\ chunks \in Seq(Chunk) /\ InBounds(chunks) /\ Apart(chunks)
      /\ n \in Nat /\ n # 0 /\ n \in DOMAIN chunks /\ DOMAIN chunks = 1..n
      /\ \A j \in DOMAIN chunks : /\ chunks[j] \in Chunk /\ chunks[j].base \in Nat
                                  /\ chunks[j].current \in Nat /\ chunks[j].end \in Nat
      /\ HeaderSize \in Nat
  BY ArenaNow, ChunkList DEF SizesAssumption
<1>2. c \in Chunk /\ c.base = chunks[n].base /\ c.current = x /\ c.end = chunks[n].end
  BY <1>1, ChunkUpdate
<1>3. chunks' = [chunks EXCEPT ![n] = c]
  OBVIOUS
<1> HIDE DEF c
<1>4. /\ chunks' \in Seq(Chunk) /\ Len(chunks') = n /\ DOMAIN chunks' = DOMAIN chunks
      /\ chunks'[n] = c /\ \A j \in DOMAIN chunks : j # n => chunks'[j] = chunks[j]
  BY <1>1, <1>2, <1>3, SeqUpdate
<1> HIDE DEF n
<1>5. chunks' # <<>>
  BY <1>1, <1>4, ChunkList
<1>6. InBounds(chunks')
  <2> SUFFICES ASSUME NEW j \in DOMAIN chunks
               PROVE  /\ 0 < chunks'[j].base /\ chunks'[j].base + HeaderSize <= chunks'[j].current
                      /\ chunks'[j].current <= chunks'[j].end
    BY <1>4 DEF InBounds
  <2>1. /\ 0 < chunks[j].base /\ chunks[j].base + HeaderSize <= chunks[j].current
        /\ chunks[j].current <= chunks[j].end
    BY <1>1 DEF InBounds
  <2> QED BY <1>1, <1>2, <1>4, <2>1 DEF n
<1>7. Apart(chunks')
  BY <1>1, <1>2, <1>4 DEF Apart
<1>8. Continues(chunks', chunks)
  BY <1>1, <1>2, <1>4 DEF Continues, n
<1> QED BY <1>1, <1>2, <1>4, <1>5, <1>6, <1>7, <1>8 DEF n

\* A chunk list with a chunk behind it that overlaps none of them.
LEMMA ChunkAdded ==
  ASSUME SizesAssumption, IInv, NEW c \in Chunk,
         0 < c.base, c.base + HeaderSize <= c.current, c.current <= c.end,
         \A i \in DOMAIN chunks : c.end <= chunks[i].base \/ chunks[i].end <= c.base,
         chunks' = Append(chunks, c)
  PROVE  /\ chunks' \in Seq(Chunk) /\ chunks' # <<>> /\ chunks'[Len(chunks')] = c
         /\ InBounds(chunks') /\ Apart(chunks') /\ Continues(chunks', chunks)
<1> DEFINE n == Len(chunks)
<1>1. /\ chunks \in Seq(Chunk) /\ InBounds(chunks) /\ Apart(chunks)
      /\ n \in Nat /\ DOMAIN chunks = 1..n
      /\ \A j \in DOMAIN chunks : chunks[j].current \in Nat
  BY ArenaNow, ChunkList
<1>2. /\ chunks' \in Seq(Chunk) /\ Len(chunks') = n + 1 /\ DOMAIN chunks' = 1..(n + 1)
      /\ chunks'[n + 1] = c /\ \A j \in 1..n : chunks'[j] = chunks[j]
  BY <1>1, SeqAppend
<1> HIDE DEF n
<1>3. chunks' # <<>>
  <2>1. Len(chunks') # 0
    BY <1>1, <1>2
  <2> QED BY <1>2, <2>1, ChunkList
<1>4. \A j \in 1..(n + 1) : j \in 1..n \/ j = n + 1
  BY <1>1
<1>5. InBounds(chunks')
  BY <1>1, <1>2, <1>4 DEF InBounds
<1>6. Apart(chunks')
  BY <1>1, <1>2, <1>4 DEF Apart
<1>7. Continues(chunks', chunks)
  BY <1>1, <1>2 DEF Continues, n
<1> QED BY <1>2, <1>3, <1>5, <1>6, <1>7

\* The block that a client grows is the one at the top of the head chunk.
LEMMA GrowableOnTop ==
  ASSUME SizesAssumption, IInv, NEW o \in objects, o \in Growable
  PROVE  /\ chunks # <<>> /\ o \in Object /\ o.depth = Len(held) /\ o.size # 0
         /\ o.ptr + o.size = head_chunk.current
         /\ o.size = head_chunk.current - o.ptr
         /\ head_chunk = chunks[Len(chunks)] /\ head_chunk.base + HeaderSize <= o.ptr
<1>1. objects \subseteq Object /\ o.ptr = last_alloc /\ o.size # 0 /\ o.depth = Len(held)
  BY DEF IInv, TypeOK, Object, Growable
<1>2. \A p \in Object : p.ptr \in Nat /\ p.size \in Nat
  BY DEF Object
<1>3. PICK j \in DOMAIN chunks : InChunk(o, chunks[j])
  BY ArenaNow DEF Inside
<1>4. /\ chunks # <<>> /\ head_chunk = chunks[Len(chunks)] /\ Len(chunks) \in DOMAIN chunks
      /\ head_chunk.base \in Nat /\ head_chunk.current \in Nat /\ head_chunk.end \in Nat
      /\ Now.current = head_chunk.current /\ head_chunk.current <= head_chunk.end
  <2>1. chunks # <<>>
    BY <1>3
  <2> QED BY <2>1, ArenaNow, ChunkList DEF head_chunk, InBounds
<1>5. /\ head_chunk.base + HeaderSize <= last_alloc
      /\ \E q \in objects : q.ptr = last_alloc /\ q.size = head_chunk.current - last_alloc
  BY <1>4, ArenaNow DEF IInv, Sound, OnTop
<1>6. PICK q \in objects : q.ptr = last_alloc /\ q.size = head_chunk.current - last_alloc
  BY <1>5
<1>7. q = o
  <2>1. q # o => q.ptr + q.size <= o.ptr \/ o.ptr + o.size <= q.ptr
    BY DEF IInv, Disjoint
  <2>2. /\ q.ptr \in Nat /\ q.size \in Nat /\ o.ptr \in Nat /\ o.size \in Nat
        /\ HeaderSize \in Nat \ {0}
    BY <1>1, <1>2 DEF SizesAssumption
  <2>3. /\ chunks[j].base + HeaderSize <= o.ptr /\ o.ptr + o.size <= chunks[j].current
        /\ chunks[j].base \in Nat /\ chunks[j].current \in Nat /\ chunks[j].end \in Nat
        /\ chunks[j].current <= chunks[j].end
    BY <1>3, ArenaNow, ChunkList DEF InChunk, InBounds
  <2>4. j = Len(chunks)
    <3>1. j # Len(chunks) => chunks[j].end <= head_chunk.base \/ head_chunk.end <= chunks[j].base
      BY <1>4, ArenaNow DEF Apart
    <3>2. last_alloc <= head_chunk.current
      BY <1>1, <1>4, <1>6, <2>2
    <3>3. CASE chunks[j].end <= head_chunk.base
      BY <1>1, <1>4, <1>5, <2>2, <2>3, <3>3
    <3>4. CASE head_chunk.end <= chunks[j].base
      BY <1>1, <1>4, <2>2, <2>3, <3>2, <3>4
    <3> QED BY <3>1, <3>3, <3>4
  <2>5. q.size # 0
    BY <1>1, <1>4, <1>6, <2>2, <2>3, <2>4
  <2> QED BY <1>1, <1>6, <2>1, <2>2, <2>5
<1>8. o.ptr + o.size = head_chunk.current
  BY <1>1, <1>2, <1>4, <1>6, <1>7
<1> QED BY <1>1, <1>4, <1>5, <1>6, <1>7, <1>8

\* pn_allocator_new_chunk counts what is left of the head chunk.
LEMMA FragmentationNat ==
  ASSUME SizesAssumption, IInv
  PROVE  Fragmentation \in Nat
<1>1. internal_fragmentation \in Nat
  BY DEF IInv, TypeOK
<1>2. CASE chunks = <<>>
  BY <1>1, <1>2 DEF Fragmentation
<1>3. CASE chunks # <<>>
  <2>1. /\ head_chunk.current \in Nat /\ head_chunk.end \in Nat
        /\ head_chunk.current <= head_chunk.end
    BY <1>3, ArenaNow, ChunkList DEF head_chunk, InBounds
  <2> QED BY <1>1, <1>3, <2>1 DEF Fragmentation
<1> QED BY <1>2, <1>3

\* pn_allocator_alloc in the head chunk.
LEMMA AllocInHeadStep ==
  ASSUME SizesAssumption, IInv,
         NEW size \in Sizes, NEW align \in Aligns, AllocInHead(size, align)
  PROVE  IInv'
<1> DEFINE ret == AlignUp(head_chunk.current, align)
           o   == [ptr |-> ret, size |-> size, depth |-> Len(held)]
<1>1. size \in Nat /\ align \in Nat /\ align # 0
  BY DEF SizesAssumption
<1>2. /\ chunks # <<>> /\ ret + size <= head_chunk.end
      /\ chunks' = [chunks EXCEPT ![Len(chunks)].current = ret + size]
      /\ last_alloc' = ret /\ total_used' = total_used + size
      /\ objects' = objects \cup {o} /\ UNCHANGED <<internal_fragmentation, held, astray>>
  BY DEF AllocInHead, Fits, Hold
<1>3. /\ head_chunk = chunks[Len(chunks)] /\ head_chunk.current \in Nat
      /\ head_chunk.base \in Nat /\ head_chunk.end \in Nat /\ Len(chunks) \in DOMAIN chunks
      /\ head_chunk.base + HeaderSize <= head_chunk.current /\ HeaderSize \in Nat
      /\ \A j \in DOMAIN chunks : chunks[j].base \in Nat /\ chunks[j].current \in Nat
                                  /\ chunks[j].end \in Nat /\ chunks[j].current <= chunks[j].end
  BY <1>2, ArenaNow, ChunkList DEF head_chunk, InBounds, SizesAssumption
<1>4. ret \in Nat /\ head_chunk.current <= ret
  BY <1>1, <1>3, AlignUpTwice
<1> HIDE DEF ret
<1>5. ret + size \in Nat /\ chunks[Len(chunks)].current <= ret + size
      /\ ret + size <= chunks[Len(chunks)].end
  BY <1>1, <1>2, <1>3, <1>4
<1>6. /\ chunks' \in Seq(Chunk) /\ chunks' # <<>> /\ InBounds(chunks') /\ Apart(chunks')
      /\ Continues(chunks', chunks) /\ chunks'[Len(chunks')].current = ret + size
      /\ chunks'[Len(chunks')].base = head_chunk.base
  BY <1>2, <1>3, <1>5, HeadUsed
<1>7. /\ o \in Object /\ o.ptr = ret /\ o.size = size /\ o.depth = Len(held)
  <2>1. Len(held) \in Nat
    BY DEF IInv, TypeOK
  <2> QED BY <1>1, <1>4, <2>1 DEF Object
<1> HIDE DEF o
<1>8. \A p \in objects : p.ptr + p.size <= ret \/ ret + size < p.ptr
  <2>1. ASSUME NEW j \in DOMAIN chunks
        PROVE  chunks[j].current <= ret \/ ret + size <= chunks[j].base
    <3>1. CASE j = Len(chunks)
      BY <1>3, <1>4, <3>1
    <3>2. CASE j # Len(chunks)
      <4>1. chunks[j].end <= head_chunk.base \/ head_chunk.end <= chunks[j].base
        BY <1>3, <3>2, ArenaNow DEF Apart
      <4> QED BY <1>1, <1>2, <1>3, <1>4, <4>1
    <3> QED BY <3>1, <3>2
  <2> QED BY <1>1, <1>4, <2>1, FreshApart
<1>9. head_chunk.base + HeaderSize <= ret
  BY <1>3, <1>4
<1>10. total_used' = UsedBy(objects) + size /\ internal_fragmentation' \in Nat
  BY <1>2, ArenaNow DEF IInv, TypeOK
<1> DEFINE gone == {}
<1>11. /\ gone \in SUBSET objects /\ \A g \in gone : g.depth = Len(held)
       /\ objects \ gone = objects
  OBVIOUS
<1> HIDE DEF gone
<1>12. /\ \A p \in objects \ gone : p.ptr + p.size <= o.ptr \/ o.ptr + o.size < p.ptr
       /\ objects' = (objects \ gone) \cup {o}
       /\ total_used' = UsedBy(objects \ gone) + o.size
  BY <1>2, <1>7, <1>8, <1>10, <1>11 DEF o
<1> QED BY <1>1, <1>2, <1>6, <1>7, <1>9, <1>10, <1>11, <1>12, PlaceStep

\* A chunk where pn_malloc places it, with a block behind its header.
LEMMA MallocStep ==
  ASSUME SizesAssumption, IInv, NEW size \in Nat, NEW align \in Aligns,
         NEW base \in Malloc(ChunkSize(size, align)), NEW c,
         c = [NewChunk(base, size, align) EXCEPT !.current = @ + size],
         chunks' = Append(chunks, c)
  PROVE  LET ptr == NewChunk(base, size, align).current IN
         /\ ptr \in Nat /\ AlignUp(ptr, align) = ptr
         /\ chunks' \in Seq(Chunk) /\ chunks' # <<>> /\ InBounds(chunks') /\ Apart(chunks')
         /\ Continues(chunks', chunks) /\ chunks'[Len(chunks')].current = ptr + size
         /\ chunks'[Len(chunks')].base + HeaderSize <= ptr
         /\ \A o \in objects : o.ptr + o.size <= ptr \/ ptr + size < o.ptr
<1> DEFINE new == NewChunk(base, size, align)
           ptr == new.current
<1>1. /\ base \in Bases
      /\ \A i \in DOMAIN chunks : base + ChunkSize(size, align) <= chunks[i].base
                                  \/ chunks[i].end <= base
  BY DEF Malloc
<1>2. /\ new \in Chunk /\ new.base = base /\ 0 < base
      /\ new.end = base + ChunkSize(size, align) /\ base + HeaderSize <= ptr
      /\ ptr + size <= new.end /\ AlignUp(ptr, align) = ptr
  BY <1>1, NewChunkFits
<1>3. new.base \in Nat /\ ptr \in Nat /\ new.end \in Nat
  BY <1>2 DEF Chunk
<1>4. c \in Chunk /\ c.base = base /\ c.current = ptr + size /\ c.end = new.end
  <2>1. ptr + size \in Nat
    BY <1>3
  <2> DEFINE top == ptr + size
             d   == [new EXCEPT !.current = top]
  <2>2. c = d
    OBVIOUS
  <2>3. top \in Nat /\ new \in Chunk /\ top = ptr + size /\ new.base = base
    BY <1>2, <2>1
  <2> HIDE DEF new, top, ptr
  <2>4. d \in Chunk /\ d.base = new.base /\ d.current = top /\ d.end = new.end
    BY <2>3, ChunkUpdate, Zenon
  <2> HIDE DEF d
  <2> QED BY <2>2, <2>3, <2>4
<1> HIDE DEF new, ptr
<1>5. HeaderSize \in Nat
  BY DEF SizesAssumption
<1>6. c.base + HeaderSize <= c.current /\ c.current <= c.end /\ 0 < c.base
  BY <1>2, <1>3, <1>4, <1>5
<1>7. \A i \in DOMAIN chunks : c.end <= chunks[i].base \/ chunks[i].end <= c.base
  BY <1>1, <1>2, <1>4
<1>8. /\ chunks' \in Seq(Chunk) /\ chunks' # <<>> /\ chunks'[Len(chunks')] = c
      /\ InBounds(chunks') /\ Apart(chunks') /\ Continues(chunks', chunks)
  BY <1>4, <1>6, <1>7, ChunkAdded
<1>9. ASSUME NEW j \in DOMAIN chunks
      PROVE  chunks[j].current <= ptr \/ ptr + size <= chunks[j].base
  <2>1. /\ chunks[j].base \in Nat /\ chunks[j].current \in Nat /\ chunks[j].end \in Nat
        /\ chunks[j].current <= chunks[j].end
    BY ArenaNow, ChunkList DEF InBounds
  <2> QED BY <1>2, <1>3, <1>4, <1>5, <1>6, <1>7, <2>1
<1>10. \A o \in objects : o.ptr + o.size <= ptr \/ ptr + size < o.ptr
  BY <1>3, <1>9, FreshApart
<1>11. /\ ptr \in Nat /\ AlignUp(ptr, align) = ptr
       /\ chunks'[Len(chunks')].current = ptr + size
       /\ chunks'[Len(chunks')].base + HeaderSize <= ptr
  BY <1>2, <1>3, <1>4, <1>8
<1> QED BY <1>8, <1>10, <1>11, Zenon DEF new, ptr

\* pn_allocator_alloc in a new chunk.
LEMMA AllocInNewChunkStep ==
  ASSUME SizesAssumption, IInv,
         NEW size \in Sizes, NEW align \in Aligns, AllocInNewChunk(size, align)
  PROVE  IInv'
<1>1. size \in Nat
  BY DEF SizesAssumption
<1>2. PICK base \in Malloc(ChunkSize(size, align)) :
        LET chunk == NewChunk(base, size, align)
            ret   == AlignUp(chunk.current, align)
        IN  /\ chunks' = Append(chunks, [chunk EXCEPT !.current = ret + size])
            /\ last_alloc' = ret
            /\ Hold(ret, size)
  BY DEF AllocInNewChunk
<1> DEFINE new == NewChunk(base, size, align)
           ptr == new.current
           o   == [ptr |-> ptr, size |-> size, depth |-> Len(held)]
<1>3. AlignUp(ptr, align) = ptr
  <2>1. base \in Bases
    BY DEF Malloc
  <2> QED BY <1>1, <2>1, NewChunkFits
<1>4. chunks' = Append(chunks, [new EXCEPT !.current = @ + size])
  BY <1>2, <1>3
<1>5. /\ last_alloc' = ptr /\ objects' = objects \cup {o} /\ total_used' = total_used + size
      /\ internal_fragmentation' = Fragmentation /\ UNCHANGED <<held, astray>>
  BY <1>2, <1>3 DEF AllocInNewChunk, Hold
<1>6. /\ ptr \in Nat
      /\ chunks' \in Seq(Chunk) /\ chunks' # <<>> /\ InBounds(chunks') /\ Apart(chunks')
      /\ Continues(chunks', chunks) /\ chunks'[Len(chunks')].current = ptr + size
      /\ chunks'[Len(chunks')].base + HeaderSize <= ptr
      /\ \A p \in objects : p.ptr + p.size <= ptr \/ ptr + size < p.ptr
  BY <1>1, <1>4, MallocStep
<1> HIDE DEF new
<1>7. o \in Object /\ o.ptr = ptr /\ o.size = size /\ o.depth = Len(held)
  <2>1. Len(held) \in Nat
    BY DEF IInv, TypeOK
  <2> QED BY <1>1, <1>6, <2>1 DEF Object
<1> HIDE DEF o
<1>8. total_used' = UsedBy(objects) + size /\ internal_fragmentation' \in Nat
  BY <1>5, ArenaNow, FragmentationNat
<1> DEFINE gone == {}
<1>9. /\ gone \in SUBSET objects /\ \A g \in gone : g.depth = Len(held)
      /\ objects \ gone = objects
  OBVIOUS
<1> HIDE DEF gone
<1>10. /\ \A p \in objects \ gone : p.ptr + p.size <= o.ptr \/ o.ptr + o.size < p.ptr
       /\ objects' = (objects \ gone) \cup {o}
       /\ total_used' = UsedBy(objects \ gone) + o.size
  BY <1>5, <1>6, <1>7, <1>8, <1>9 DEF o
<1> QED BY <1>1, <1>5, <1>6, <1>7, <1>8, <1>9, <1>10, PlaceStep

\* A block that is grown and moved, field by field.
LEMMA ObjectUpdate ==
  ASSUME NEW o \in Object, NEW x, NEW y
  PROVE  [o EXCEPT !.ptr = x, !.size = y] = [ptr |-> x, size |-> y, depth |-> o.depth]
<1> DEFINE l == [o EXCEPT !.ptr = x, !.size = y]
           r == [ptr |-> x, size |-> y, depth |-> o.depth]
<1>1. DOMAIN o = {"ptr", "size", "depth"} /\ o = [f \in DOMAIN o |-> o[f]]
  BY DEF Object
<1>2. l = [f \in DOMAIN o |-> IF f = "size" THEN y ELSE IF f = "ptr" THEN x ELSE o[f]]
  BY <1>1
<1>3. r = [f \in {"ptr", "size", "depth"} |->
             IF f = "size" THEN y ELSE IF f = "ptr" THEN x ELSE o[f]]
  OBVIOUS
<1> QED BY <1>1, <1>2, <1>3

\* What Grow makes of the block, and of what the clients hold.
LEMMA GrowStep ==
  ASSUME SizesAssumption, IInv, NEW o \in objects, o \in Growable,
         NEW ptr \in Nat, NEW add_size \in AddSizes, Grow(o, ptr, add_size)
  PROVE  \E q \in Object :
           /\ q.ptr = ptr /\ q.size = o.size + add_size /\ q.size # 0 /\ q.depth = Len(held)
           /\ objects' = (objects \ {o}) \cup {q} /\ last_alloc' = ptr
           /\ total_used' = UsedBy(objects \ {o}) + q.size /\ UNCHANGED <<held, astray>>
<1> DEFINE q == [ptr |-> ptr, size |-> o.size + add_size, depth |-> o.depth]
<1>1. /\ o \in Object /\ o.depth = Len(held) /\ add_size \in Nat /\ add_size # 0
  BY GrowableOnTop DEF SizesAssumption
<1>2. o.size \in Nat /\ o.depth \in Nat
  BY <1>1 DEF Object
<1>3. [o EXCEPT !.ptr = ptr, !.size = @ + add_size] = q
  BY <1>1, ObjectUpdate, Zenon
<1>4. q \in Object
  BY <1>1, <1>2 DEF Object
<1>5. /\ objects' = (objects \ {o}) \cup {q} /\ last_alloc' = ptr
      /\ total_used' = total_used + add_size /\ UNCHANGED <<held, astray>>
  BY <1>3 DEF Grow
<1>6. q.ptr = ptr /\ q.size = o.size + add_size /\ q.depth = o.depth
  OBVIOUS
<1> HIDE DEF q
<1>7. Sized(objects)
  <2>1. objects \subseteq Object /\ IsFiniteSet(objects)
    BY DEF IInv, TypeOK, ObjectsOK, Object
  <2>2. \A p \in Object : p.size \in Nat
    BY DEF Object
  <2> QED BY <2>1, <2>2 DEF Sized
<1>8. UsedBy(objects) = UsedBy(objects \ {o}) + o.size /\ total_used = UsedBy(objects)
  BY <1>7, UsedByRemove, ArenaNow
<1>9. UsedBy(objects \ {o}) \in Nat
  <2>1. Sized(objects \ {o})
    BY <1>7, FS_RemoveElement DEF Sized
  <2> QED BY <2>1, UsedByFirst
<1>10. total_used' = UsedBy(objects \ {o}) + q.size /\ q.size # 0
  BY <1>1, <1>2, <1>5, <1>6, <1>8, <1>9
<1> QED BY <1>1, <1>4, <1>5, <1>6, <1>10

\* pn_allocator_realloc_add in place.
LEMMA ReallocInPlaceStep ==
  ASSUME SizesAssumption, IInv, NEW o \in objects, NEW add_size \in AddSizes,
         ReallocInPlace(o, add_size)
  PROVE  IInv'
<1> DEFINE top == head_chunk.current + add_size
<1>1. /\ o \in Growable /\ top <= head_chunk.end
      /\ chunks' = [chunks EXCEPT ![Len(chunks)].current = @ + add_size]
      /\ Grow(o, o.ptr, add_size) /\ UNCHANGED internal_fragmentation
  BY DEF ReallocInPlace
<1>2. /\ chunks # <<>> /\ o \in Object /\ o.depth = Len(held) /\ o.size # 0
      /\ o.ptr + o.size = head_chunk.current /\ head_chunk = chunks[Len(chunks)]
      /\ head_chunk.base + HeaderSize <= o.ptr
  BY <1>1, GrowableOnTop
<1>3. add_size \in Nat /\ o.ptr \in Nat /\ o.size \in Nat /\ HeaderSize \in Nat \ {0}
  BY <1>2 DEF Object, SizesAssumption
<1>4. /\ head_chunk.current \in Nat /\ head_chunk.base \in Nat /\ head_chunk.end \in Nat
      /\ Len(chunks) \in DOMAIN chunks
      /\ \A j \in DOMAIN chunks : chunks[j].base \in Nat /\ chunks[j].current \in Nat
                                  /\ chunks[j].end \in Nat /\ chunks[j].current <= chunks[j].end
  BY <1>2, ArenaNow, ChunkList DEF InBounds
<1>5. top \in Nat /\ head_chunk.current <= top
  BY <1>3, <1>4
<1>6. chunks' = [chunks EXCEPT ![Len(chunks)].current = top]
  BY <1>1, <1>2
<1> HIDE DEF top
<1>7. /\ chunks' \in Seq(Chunk) /\ chunks' # <<>> /\ InBounds(chunks') /\ Apart(chunks')
      /\ Continues(chunks', chunks) /\ chunks'[Len(chunks')].current = top
      /\ chunks'[Len(chunks')].base = head_chunk.base
  BY <1>1, <1>2, <1>5, <1>6, HeadUsed
<1> DEFINE at == o.ptr
<1>8. at = o.ptr
  OBVIOUS
<1>9. at \in Nat /\ Grow(o, at, add_size) /\ o \in Growable
  BY <1>1, <1>3
<1> HIDE DEF at
<1>10. PICK q \in Object :
        /\ q.ptr = at /\ q.size = o.size + add_size /\ q.size # 0 /\ q.depth = Len(held)
        /\ objects' = (objects \ {o}) \cup {q} /\ last_alloc' = at
        /\ total_used' = UsedBy(objects \ {o}) + q.size /\ UNCHANGED <<held, astray>>
  BY <1>9, GrowStep
<1>11.   /\ q.ptr = o.ptr /\ q.size = o.size + add_size /\ q.size # 0 /\ q.depth = Len(held)
        /\ objects' = (objects \ {o}) \cup {q} /\ last_alloc' = o.ptr
        /\ total_used' = UsedBy(objects \ {o}) + q.size /\ UNCHANGED <<held, astray>>
  BY <1>8, <1>10
<1>12. q.ptr + q.size = top
  BY <1>2, <1>3, <1>4, <1>11 DEF top
<1>13. ASSUME NEW p \in objects \ {o}
       PROVE  p.ptr + p.size <= q.ptr \/ q.ptr + q.size < p.ptr
  <2>1. p.ptr \in Nat /\ p.size \in Nat
    BY DEF IInv, TypeOK, ObjectsOK
  <2>2. p.ptr + p.size <= o.ptr \/ o.ptr + o.size <= p.ptr
    BY DEF IInv, Disjoint
  <2>3. PICK j \in DOMAIN chunks : InChunk(p, chunks[j])
    BY ArenaNow DEF Inside
  <2>4. chunks[j].base + HeaderSize <= p.ptr /\ p.ptr + p.size <= chunks[j].current
    BY <2>3 DEF InChunk
  <2>5. CASE j = Len(chunks)
    <3>1. p.ptr <= o.ptr
      <4>1. o.ptr = last_alloc
        BY <1>1 DEF Growable
      <4> QED BY <1>2, <2>3, <2>5, <4>1, ArenaNow DEF IInv, Sound, OnTop
    <3>2. p.ptr + p.size <= o.ptr
      BY <1>2, <1>3, <2>1, <2>2, <3>1
    <3> QED BY <1>11, <3>2
  <2>6. CASE j # Len(chunks)
    <3>1. chunks[j].end <= head_chunk.base \/ head_chunk.end <= chunks[j].base
      BY <1>2, <1>4, <2>6, ArenaNow DEF Apart
    <3>2. /\ chunks[j].base \in Nat /\ chunks[j].current \in Nat
          /\ chunks[j].end \in Nat /\ chunks[j].current <= chunks[j].end
      BY <1>4
    <3>3. CASE chunks[j].end <= head_chunk.base
      <4>1. p.ptr + p.size <= o.ptr
        <5>1. head_chunk.base \in Nat /\ head_chunk.base + HeaderSize <= o.ptr
          BY <1>2, <1>4
        <5> QED BY <1>3, <2>1, <2>4, <3>2, <3>3, <5>1
      <4> QED BY <1>11, <4>1
    <3>4. CASE head_chunk.end <= chunks[j].base
      <4>1. top < p.ptr
        <5>1. top \in Nat /\ top <= head_chunk.end /\ head_chunk.end \in Nat
          BY <1>1, <1>4, <1>5
        <5> QED BY <1>3, <2>1, <2>4, <3>2, <3>4, <5>1
      <4> QED BY <1>12, <4>1
    <3> QED BY <3>1, <3>3, <3>4
  <2> QED BY <2>5, <2>6
<1>14. internal_fragmentation' \in Nat
  BY <1>1 DEF IInv, TypeOK
<1>15. {o} \in SUBSET objects /\ \A g \in {o} : g.depth = Len(held)
  BY <1>2
<1>16. /\ UNCHANGED <<held, astray>> /\ q.ptr + q.size = chunks'[Len(chunks')].current
       /\ chunks'[Len(chunks')].base + HeaderSize <= q.ptr /\ last_alloc' = q.ptr
  BY <1>2, <1>7, <1>11, <1>12
<1> DEFINE gone == {o}
<1>17. /\ gone \in SUBSET objects /\ \A g \in gone : g.depth = Len(held)
       /\ \A p \in objects \ gone : p.ptr + p.size <= q.ptr \/ q.ptr + q.size < p.ptr
       /\ objects' = (objects \ gone) \cup {q}
       /\ total_used' = UsedBy(objects \ gone) + q.size
  BY <1>11, <1>13, <1>15
<1> HIDE DEF gone
<1> QED BY <1>7, <1>11, <1>14, <1>16, <1>17, PlaceStep

\* pn_allocator_realloc_add into a new chunk.
LEMMA ReallocMoveStep ==
  ASSUME SizesAssumption, IInv, NEW o \in objects, NEW add_size \in AddSizes,
         NEW align \in Aligns, ReallocMove(o, add_size, align)
  PROVE  IInv'
<1> DEFINE size == (head_chunk.current - o.ptr) + add_size
<1>1. o \in Growable /\ internal_fragmentation' = Fragmentation
  BY DEF ReallocMove
<1>2. /\ o \in Object /\ o.depth = Len(held) /\ o.size = head_chunk.current - o.ptr
  BY <1>1, GrowableOnTop
<1>3. add_size \in Nat /\ o.size \in Nat /\ size = o.size + add_size /\ size \in Nat
  BY <1>2 DEF Object, SizesAssumption
<1>4. PICK base \in Malloc(ChunkSize(size, align)) :
        LET chunk == NewChunk(base, size, align) IN
        /\ chunks' = Append(chunks, [chunk EXCEPT !.current = @ + size])
        /\ Grow(o, chunk.current, add_size)
  BY DEF ReallocMove
<1> HIDE DEF size
<1> DEFINE ptr == NewChunk(base, size, align).current
<1>5. /\ ptr \in Nat
      /\ chunks' \in Seq(Chunk) /\ chunks' # <<>> /\ InBounds(chunks') /\ Apart(chunks')
      /\ Continues(chunks', chunks) /\ chunks'[Len(chunks')].current = ptr + size
      /\ chunks'[Len(chunks')].base + HeaderSize <= ptr
      /\ \A p \in objects : p.ptr + p.size <= ptr \/ ptr + size < p.ptr
  BY <1>3, <1>4, MallocStep
<1>6. Grow(o, ptr, add_size)
  BY <1>4
<1> HIDE DEF ptr
<1>7. PICK q \in Object :
        /\ q.ptr = ptr /\ q.size = o.size + add_size /\ q.size # 0 /\ q.depth = Len(held)
        /\ objects' = (objects \ {o}) \cup {q} /\ last_alloc' = ptr
        /\ total_used' = UsedBy(objects \ {o}) + q.size /\ UNCHANGED <<held, astray>>
  BY <1>1, <1>5, <1>6, GrowStep
<1>8. internal_fragmentation' \in Nat
  BY <1>1, FragmentationNat
<1> DEFINE gone == {o}
<1>9. /\ gone \in SUBSET objects /\ \A g \in gone : g.depth = Len(held)
      /\ \A p \in objects \ gone : p.ptr + p.size <= q.ptr \/ q.ptr + q.size < p.ptr
      /\ objects' = (objects \ gone) \cup {q}
      /\ total_used' = UsedBy(objects \ gone) + q.size
  BY <1>2, <1>3, <1>5, <1>7
<1> HIDE DEF gone
<1>10. /\ UNCHANGED <<held, astray>> /\ q.ptr + q.size = chunks'[Len(chunks')].current
       /\ chunks'[Len(chunks')].base + HeaderSize <= q.ptr /\ last_alloc' = q.ptr
  BY <1>3, <1>5, <1>7
<1> QED BY <1>5, <1>7, <1>8, <1>9, <1>10, PlaceStep

-----------------------------------------------------------------------------
(* Marks and resets.                                                        *)

\* An arena without chunks.
LEMMA EmptySound ==
  ASSUME NEW m, m.chunks = <<>>, m.last_alloc = 0, m.current = 0, m.total_used = 0
  PROVE  Sound(m, {})
<1>1. UsedBy({}) = 0
  BY FS_EmptySet, UsedByFirst DEF Sized
<1>2. DOMAIN m.chunks = {}
  OBVIOUS
<1>3. InBounds(m.chunks) /\ Apart(m.chunks) /\ Inside({}, m.chunks)
  BY <1>2 DEF InBounds, Apart, Inside
<1>4. OnTop(m, {})
  BY DEF OnTop
<1> QED BY <1>1, <1>3, <1>4 DEF Sound

\* pn_allocator_init.
LEMMA InitIInv ==
  ASSUME SizesAssumption, Init
  PROVE  IInv
<1>1. TypeOK
  <2>1. astray \in BOOLEAN
    BY DEF Init
  <2> QED BY <2>1 DEF Init, TypeOK, NULL
<1>2. ObjectsOK /\ Disjoint
  BY FS_EmptySet DEF Init, ObjectsOK, Disjoint
<1>3. Now.chunks = <<>> /\ Now.last_alloc = 0 /\ Now.current = 0 /\ Now.total_used = 0
  BY DEF Init, Now, NULL
<1>4. Sound(Now, objects)
  BY <1>3, EmptySound DEF Init
<1>5. MarksSound
  BY DEF Init, MarksSound
<1> QED BY <1>1, <1>2, <1>4, <1>5 DEF IInv

\* pn_allocator_reset.
LEMMA ResetStep ==
  ASSUME SizesAssumption, IInv, Reset
  PROVE  IInv'
<1>1. TypeOK'
  BY DEF Reset, TypeOK, NULL, IInv
<1>2. ObjectsOK' /\ Disjoint'
  BY FS_EmptySet DEF Reset, ObjectsOK, Disjoint
<1>3. Now'.chunks = <<>> /\ Now'.last_alloc = 0 /\ Now'.current = 0 /\ Now'.total_used = 0
  BY DEF Reset, Now, NULL
<1>4. Sound(Now', objects')
  BY <1>3, EmptySound DEF Reset
<1>5. MarksSound'
  BY DEF Reset, MarksSound
<1> QED BY <1>1, <1>2, <1>4, <1>5 DEF IInv

\* pn_allocator_mark: the mark is the arena as it is, and it holds every block.
LEMMA TakeMarkStep ==
  ASSUME SizesAssumption, IInv, TakeMark
  PROVE  IInv'
<1> DEFINE n == Len(held)
<1>1. /\ held' = Append(held, Now)
      /\ UNCHANGED <<chunks, last_alloc, total_used, internal_fragmentation, objects, astray>>
  BY DEF TakeMark, Now, accounts
<1>2. held \in Seq(Mark) /\ n \in Nat /\ DOMAIN held = 1..n /\ Now \in Mark
  <2>1. held \in Seq(Mark)
    BY DEF IInv, TypeOK
  <2> QED BY <2>1, ArenaNow
<1>3. /\ held' \in Seq(Mark) /\ Len(held') = n + 1 /\ DOMAIN held' = 1..(n + 1)
      /\ held'[n + 1] = Now /\ \A i \in 1..n : held'[i] = held[i]
  BY <1>1, <1>2, SeqAppend
<1>4. TypeOK'
  BY <1>1, <1>3 DEF IInv, TypeOK
<1>5. ObjectsOK' /\ Disjoint'
  <2>1. /\ IsFiniteSet(objects) /\ objects \subseteq Object
        /\ \A o \in objects : o.depth <= n
    BY DEF IInv, ObjectsOK, TypeOK, Object
  <2>2. \A o \in Object : o.depth \in Nat
    BY DEF Object
  <2>3. \A o \in objects : o.depth <= n + 1
    BY <1>2, <2>1, <2>2
  <2>4. ObjectsOK'
    BY <1>1, <1>3, <2>1, <2>3 DEF ObjectsOK
  <2> QED BY <1>1, <2>4 DEF IInv, Disjoint
<1>6. Now' = Now
  BY <1>1 DEF Now, head_chunk
<1>7. Sound(Now', objects')
  <2>1. Sound(Now, objects)
    BY DEF IInv
  <2> QED BY <1>1, <1>6, <2>1
<1>8. MarksSound'
  <2> DEFINE At(i) == {o \in objects : o.depth < i}
  <2>1. \A i \in 1..n : /\ Sound(held[i], At(i)) /\ Continues(chunks, held[i].chunks)
                        /\ \A k \in 1..n : k <= i => Continues(held[i].chunks, held[k].chunks)
    BY <1>2 DEF IInv, MarksSound, HeldAt
  <2>2. At(n + 1) = objects
    <3>1. \A o \in objects : o.depth \in Nat /\ o.depth <= n
      BY DEF IInv, ObjectsOK, TypeOK
    <3> QED BY <1>2, <3>1
  <2>3. Now.chunks = chunks /\ Continues(chunks, chunks)
    BY ArenaNow, ContinuesOrder
  <2>4. Sound(Now, objects)
    BY DEF IInv
  <2>5. ASSUME NEW i \in 1..(n + 1)
        PROVE  /\ Sound(held'[i], At(i)) /\ Continues(chunks, held'[i].chunks)
               /\ \A k \in 1..(n + 1) : k <= i => Continues(held'[i].chunks, held'[k].chunks)
    <3> HIDE DEF At
    <3>1. CASE i = n + 1
      <4>1. held'[i] = Now /\ At(i) = objects
        BY <1>3, <2>2, <3>1
      <4>2. ASSUME NEW k \in 1..(n + 1) PROVE Continues(chunks, held'[k].chunks)
        <5>1. CASE k = n + 1
          BY <1>3, <2>3, <5>1
        <5>2. CASE k \in 1..n
          BY <1>3, <2>1, <5>2
        <5> QED BY <1>2, <5>1, <5>2
      <4> QED BY <2>3, <2>4, <4>1, <4>2
    <3>2. CASE i \in 1..n
      <4>1. \A k \in 1..(n + 1) : k <= i => k \in 1..n
        BY <1>2, <3>2
      <4> QED BY <1>3, <2>1, <3>2, <4>1
    <3> QED BY <1>2, <3>1, <3>2
  <2>6. \A i \in DOMAIN held' : HeldAt(i)' = At(i)
    BY <1>1 DEF HeldAt
  <2> HIDE DEF At
  <2> QED BY <1>1, <1>3, <2>5, <2>6 DEF MarksSound
<1> QED BY <1>4, <1>5, <1>7, <1>8 DEF IInv

\* pn_allocator_reset_to_mark: the arena becomes what it was at the mark, which the
\* earlier marks are sound for; the mark itself is kept or dropped.
LEMMA ResetToMarkStep ==
  ASSUME SizesAssumption, IInv, NEW i \in DOMAIN held, NEW keep \in {i - 1, i},
         ResetToMark(i, keep), Findable(held[i])
  PROVE  IInv'
<1> DEFINE n == Len(held)
           m == held[i]
           At(k) == {o \in objects : o.depth < k}
<1>1. held \in Seq(Mark) /\ n \in Nat /\ DOMAIN held = 1..n /\ i \in 1..n
  <2>1. held \in Seq(Mark)
    BY DEF IInv, TypeOK
  <2> QED BY <2>1
<1>2. keep \in Nat /\ keep <= n /\ keep <= i
  BY <1>1
<1>3. \A j \in 1..n : /\ Sound(held[j], At(j)) /\ Continues(chunks, held[j].chunks)
                      /\ \A k \in 1..n : k <= j => Continues(held[j].chunks, held[k].chunks)
  BY <1>1 DEF IInv, MarksSound, HeldAt
<1>4. /\ last_alloc' = m.last_alloc /\ total_used' = m.total_used
      /\ internal_fragmentation' = m.internal_fragmentation
      /\ objects' = At(i) /\ held' = SubSeq(held, 1, keep)
  BY DEF ResetToMark
<1>5. m \in Mark /\ Sound(m, At(i)) /\ Continues(chunks, m.chunks)
  BY <1>1, <1>3
<1>6. chunks' = m.chunks
  <2>1. chunks' = ChunksAtMark(m)
    BY DEF ResetToMark
  <2>2. chunks \in Seq(Chunk) /\ InBounds(chunks) /\ Apart(chunks)
    BY ArenaNow
  <2>3. Findable(m)
    OBVIOUS
  <2> HIDE DEF m, At
  <2> QED BY <1>5, <2>1, <2>2, <2>3, MarkRestores
<1>7. /\ m.current \in Nat /\ m.last_alloc \in Nat /\ m.total_used \in Nat
      /\ m.internal_fragmentation \in Nat /\ m.chunks \in Seq(Chunk)
  BY <1>5, MarkTypes
<1>8. /\ held' \in Seq(Mark) /\ Len(held') = keep /\ DOMAIN held' = 1..keep
      /\ \A k \in 1..keep : held'[k] = held[k]
  BY <1>1, <1>2, <1>4, SeqPrefix
<1>9. TypeOK'
  <2>1. objects' \subseteq objects /\ astray' = FALSE
    BY <1>4 DEF ResetToMark
  <2> HIDE DEF m
  <2> QED BY <1>4, <1>6, <1>7, <1>8, <2>1 DEF IInv, TypeOK
<1>10. ObjectsOK' /\ Disjoint'
  <2>1. IsFiniteSet(objects) /\ objects \subseteq Object
    BY DEF IInv, ObjectsOK, TypeOK, Object
  <2>2. \A o \in Object : o.depth \in Nat
    BY DEF Object
  <2>3. IsFiniteSet(objects')
    BY <1>4, <2>1, FS_Subset
  <2>4. \A o \in objects' : o.depth <= keep
    BY <1>1, <1>2, <1>4, <2>1, <2>2
  <2>5. ObjectsOK'
    BY <1>4, <1>8, <2>1, <2>3, <2>4 DEF ObjectsOK
  <2> QED BY <1>4, <2>5 DEF IInv, Disjoint
<1>11. /\ Now'.chunks = m.chunks /\ Now'.last_alloc = m.last_alloc
       /\ Now'.total_used = m.total_used /\ Now'.current = m.current
  <2> HIDE DEF m
  <2>1. /\ m.chunks = <<>> => m.current = 0
        /\ m.chunks # <<>> => m.current = m.chunks[Len(m.chunks)].current
    BY <1>5 DEF Sound, OnTop
  <2> QED BY <1>4, <1>6, <2>1 DEF Now, head_chunk, NULL
<1>12. Sound(Now', objects')
  <2> HIDE DEF m
  <2> QED BY <1>4, <1>5, <1>11 DEF Sound, OnTop
<1>13. MarksSound'
  <2>1. ASSUME NEW k \in 1..keep
        PROVE  /\ Sound(held'[k], At(k)) /\ Continues(chunks', held'[k].chunks)
               /\ \A l \in 1..keep : l <= k => Continues(held'[k].chunks, held'[l].chunks)
    <3>1. k \in 1..n /\ k <= i /\ held'[k] = held[k]
      BY <1>1, <1>2, <1>8
    <3>2. \A l \in 1..keep : l \in 1..n /\ held'[l] = held[l]
      BY <1>1, <1>2, <1>8
    <3> QED BY <1>1, <1>3, <1>6, <3>1, <3>2
  <2>2. \A k \in 1..keep : HeldAt(k)' = At(k)
    <3> SUFFICES ASSUME NEW k \in 1..keep
                 PROVE  {o \in objects' : o.depth < k} = At(k)
      BY DEF HeldAt
    <3>1. \A o \in objects : o.depth \in Nat
      BY DEF IInv, TypeOK
    <3> QED BY <1>1, <1>2, <1>4, <3>1
  <2> HIDE DEF At
  <2> QED BY <1>8, <2>1, <2>2 DEF MarksSound
<1> QED BY <1>9, <1>10, <1>12, <1>13 DEF IInv

\* A reset that misses the chunk of its mark leaves well-formed chunks, if the wrong ones.
LEMMA MissedStep ==
  ASSUME SizesAssumption, IInv, NEW i \in DOMAIN held, NEW keep \in {i - 1, i},
         ResetToMark(i, keep), ~Findable(held[i])
  PROVE  TypeOK' /\ total_used' = UsedBy(objects') /\ astray'
<1> DEFINE m     == held[i]
           found == {j \in DOMAIN chunks : chunks[j].base <= m.last_alloc
                                           /\ m.last_alloc < chunks[j].end}
<1>1. /\ held \in Seq(Mark) /\ DOMAIN held = 1..Len(held) /\ Len(held) \in Nat
      /\ chunks \in Seq(Chunk) /\ objects \subseteq Object
  <2>1. held \in Seq(Mark) /\ chunks \in Seq(Chunk) /\ objects \subseteq Object
    BY DEF IInv, TypeOK, Object
  <2> QED BY <2>1
<1>2. m \in Mark
  BY <1>1
<1>3. /\ m.current \in Nat /\ m.last_alloc \in Nat /\ m.total_used \in Nat
      /\ m.internal_fragmentation \in Nat
  BY <1>2, MarkTypes
<1>4. held' \in Seq(Mark)
  <2>1. keep \in 0..Len(held) /\ held' = SubSeq(held, 1, keep)
    BY <1>1 DEF ResetToMark
  <2> QED BY <1>1, <2>1, SeqPrefix
<1>5. chunks' \in Seq(Chunk)
  <2>1. chunks' = IF found = {} THEN <<>>
                  ELSE [SubSeq(chunks, 1, Max(found)) EXCEPT ![Max(found)].current = m.current]
    BY DEF ResetToMark, ChunksAtMark
  <2>2. CASE found = {}
    BY <2>1, <2>2
  <2>3. CASE found # {}
    <3> DEFINE k   == Max(found)
               pre == SubSeq(chunks, 1, k)
               c   == [pre[k] EXCEPT !.current = m.current]
    <3>1. k \in DOMAIN chunks
      <4>1. found \in SUBSET (0..Len(chunks)) /\ Len(chunks) \in Nat
        BY <1>1, ChunkList
      <4>2. k \in found
        <5> HIDE DEF found
        <5> QED BY <2>3, <4>1, MaxIn
      <4> QED BY <4>2
    <3>2. chunks' = [pre EXCEPT ![k] = c]
      BY <2>1, <2>3
    <3> HIDE DEF k
    <3>3. k \in 1..k /\ k \in 0..Len(chunks)
      BY <1>1, <3>1, ChunkList
    <3>4. /\ pre \in Seq(Chunk) /\ Len(pre) = k /\ DOMAIN pre = 1..k
          /\ \A j \in 1..k : pre[j] = chunks[j]
      BY <1>1, <3>3, SeqPrefix
    <3>5. pre[k] \in Chunk
      BY <1>1, <3>1, <3>3, <3>4, ChunkList
    <3> HIDE DEF pre, m
    <3>6. c \in Chunk
      BY <1>3, <3>5, ChunkUpdate
    <3> HIDE DEF c
    <3>7. [pre EXCEPT ![k] = c] \in Seq(Chunk)
      BY <3>3, <3>4, <3>6, SeqUpdate
    <3> QED BY <3>2, <3>7
  <2> QED BY <2>2, <2>3
<1>6. /\ last_alloc' = m.last_alloc /\ total_used' = m.total_used
      /\ internal_fragmentation' = m.internal_fragmentation
      /\ objects' = HeldAt(i) /\ objects' \subseteq objects /\ astray' = TRUE
  BY DEF ResetToMark, HeldAt
<1>7. m.total_used = UsedBy(HeldAt(i))
  BY DEF IInv, MarksSound, Sound
<1> HIDE DEF m
<1>8. TypeOK'
  BY <1>1, <1>3, <1>4, <1>5, <1>6 DEF TypeOK, Object
<1> QED BY <1>6, <1>7, <1>8

-----------------------------------------------------------------------------
(* The theorems.                                                            *)

\* Every operation of pn_allocator.h preserves the invariant, but for the reset to a mark
\* whose chunk it misses.
LEMMA OperateStep ==
  ASSUME SizesAssumption, IInv, Operate
  PROVE  ArenaInv'
<1> SUFFICES IInv' \/ (TypeOK' /\ total_used' = UsedBy(objects') /\ astray')
  <2>1. IInv' => total_used' = UsedBy(objects')
    BY DEF IInv, Sound, Now
  <2> QED BY <2>1 DEF ArenaInv, IInv
<1>1. CASE \E size \in Sizes, align \in Aligns : AllocInHead(size, align)
  BY <1>1, AllocInHeadStep
<1>2. CASE \E size \in Sizes, align \in Aligns : AllocInNewChunk(size, align)
  BY <1>2, AllocInNewChunkStep
<1>3. CASE \E o \in objects, add_size \in AddSizes : ReallocInPlace(o, add_size)
  BY <1>3, ReallocInPlaceStep
<1>4. CASE \E o \in objects, add_size \in AddSizes, align \in Aligns :
             ReallocMove(o, add_size, align)
  BY <1>4, ReallocMoveStep
<1>5. CASE TakeMark
  BY <1>5, TakeMarkStep
<1>6. CASE \E i \in DOMAIN held : ResetToMark(i, i) \/ ResetToMark(i, i - 1)
  <2>1. PICK i \in DOMAIN held : ResetToMark(i, i) \/ ResetToMark(i, i - 1)
    BY <1>6
  <2>2. PICK keep \in {i - 1, i} : ResetToMark(i, keep)
    BY <2>1
  <2>3. CASE Findable(held[i])
    BY <2>2, <2>3, ResetToMarkStep
  <2>4. CASE ~Findable(held[i])
    BY <2>2, <2>4, MissedStep
  <2> QED BY <2>3, <2>4
<1>7. CASE Reset
  BY <1>7, ResetStep
<1> QED BY <1>1, <1>2, <1>3, <1>4, <1>5, <1>6, <1>7 DEF Operate

\* Every step of the allocator preserves the invariant.
LEMMA NextArenaInv ==
  ASSUME SizesAssumption, ArenaInv, [Next]_vars
  PROVE  ArenaInv'
<1>1. CASE ~astray /\ Operate
  BY <1>1, OperateStep DEF ArenaInv
<1>2. CASE UNCHANGED vars
  <2>1. UNCHANGED <<chunks, last_alloc, total_used, internal_fragmentation, objects, held, astray>>
    BY <1>2 DEF vars, accounts
  <2>2. Now' = Now
    BY <2>1 DEF Now, head_chunk
  <2>3. TypeOK' /\ total_used' = UsedBy(objects')
    BY <2>1 DEF ArenaInv, TypeOK
  <2>4. ASSUME ~astray PROVE IInv'
    <3>1. IInv
      BY <2>4 DEF ArenaInv
    <3>2. ObjectsOK' /\ Disjoint'
      BY <2>1, <3>1 DEF IInv, ObjectsOK, Disjoint
    <3>3. Sound(Now', objects')
      BY <2>1, <2>2, <3>1 DEF IInv
    <3>4. MarksSound'
      BY <2>1, <3>1 DEF IInv, MarksSound, HeldAt
    <3> QED BY <2>3, <3>2, <3>3, <3>4 DEF IInv
  <2> QED BY <2>1, <2>3, <2>4 DEF ArenaInv
<1> QED BY <1>1, <1>2 DEF Next, Ended

\* The invariant holds of the allocator.
LEMMA AllocatorInvariant ==
  ASSUME SizesAssumption
  PROVE  Spec => []ArenaInv
<1>1. Init => ArenaInv
  <2>1. IInv => total_used = UsedBy(objects)
    BY DEF IInv, Sound, Now
  <2> QED BY <2>1, InitIInv DEF ArenaInv, IInv
<1>2. ArenaInv /\ [Next]_vars => ArenaInv'
  BY NextArenaInv
<1> QED BY <1>1, <1>2, PTL DEF Spec

\* The allocator's chunks, counters, blocks and marks keep their types.
THEOREM AllocatorTypes ==
  ASSUME SizesAssumption
  PROVE  Spec => []TypeOK
<1>1. ArenaInv => TypeOK
  BY DEF ArenaInv
<1> QED BY <1>1, AllocatorInvariant, PTL

\* Whatever is allocated, grown, moved and reset, the blocks that clients hold stay apart
\* and in chunks that have not been freed, and no chunk hands out more than it has, unless
\* a reset has missed the chunk of its mark.
THEOREM BlocksApart ==
  ASSUME SizesAssumption
  PROVE  Spec => [](ObjectsSafe /\ ChunksInBounds)
<1>1. ASSUME ArenaInv PROVE ObjectsSafe /\ ChunksInBounds
  <2>1. ASSUME ~astray PROVE InBounds(chunks) /\ Inside(objects, chunks) /\ Disjoint
    BY <1>1, <2>1, ArenaNow DEF ArenaInv, IInv
  <2> QED BY <2>1 DEF InBounds, Inside, Disjoint, ObjectsSafe, ChunksInBounds
<1> QED BY <1>1, AllocatorInvariant, PTL

\* last_alloc is the block at the top of the head chunk, after any reset that has not
\* missed the chunk of its mark, and total_used is always the sum of the sizes of the blocks
\* that clients hold.
THEOREM LastBlockAndTotal ==
  ASSUME SizesAssumption
  PROVE  Spec => [](LastAllocOnTop /\ UsedIsHeld)
<1>1. ASSUME ArenaInv PROVE LastAllocOnTop /\ UsedIsHeld
  <2>1. total_used = UsedBy(objects)
    BY <1>1 DEF ArenaInv
  <2>2. LastAllocOnTop
    <3> SUFFICES ASSUME IInv, chunks # <<>>
                 PROVE  \E o \in objects : /\ o.ptr = last_alloc
                                           /\ head_chunk.current - last_alloc = o.size
      BY <1>1 DEF LastAllocOnTop, ArenaInv
    <3>1. /\ Now.chunks = chunks /\ Now.last_alloc = last_alloc
          /\ Now.current = head_chunk.current
      BY ArenaNow DEF head_chunk
    <3>2. OnTop(Now, objects)
      BY DEF IInv, Sound
    <3>3. \E o \in objects : o.ptr = Now.last_alloc /\ o.size = Now.current - Now.last_alloc
      BY <3>1, <3>2 DEF OnTop
    <3> QED BY <3>1, <3>3
  <2> QED BY <2>1, <2>2 DEF UsedIsHeld, UsedBy
<1> QED BY <1>1, AllocatorInvariant, PTL

\* The loop of pn_allocator_reset_to_mark finds the chunk of the mark's last allocation
\* among those that followed: resetting to any mark that is held, at any time, brings
\* back exactly the chunks there were, if the last block at the mark was not an empty one at
\* the end of its chunk.
THEOREM MarksBringBack ==
  ASSUME SizesAssumption
  PROVE  Spec => []MarksRestore
<1>1. ASSUME ArenaInv PROVE MarksRestore
  <2> SUFFICES ASSUME IInv, NEW i \in DOMAIN held, Findable(held[i])
               PROVE  ChunksAtMark(held[i]) = held[i].chunks
    BY <1>1 DEF MarksRestore, ArenaInv
  <2>1. chunks \in Seq(Chunk) /\ InBounds(chunks) /\ Apart(chunks)
    BY ArenaNow
  <2>2. held[i] \in Mark /\ Sound(held[i], HeldAt(i)) /\ Continues(chunks, held[i].chunks)
    <3>1. held \in Seq(Mark)
      BY DEF IInv, TypeOK
    <3> QED BY <3>1 DEF IInv, MarksSound
  <2> QED BY <2>1, <2>2, MarkRestores
<1> QED BY <1>1, AllocatorInvariant, PTL
=============================================================================
