--------------------------- MODULE DecoderProofs ---------------------------
(***************************************************************************)
(* Proofs about MCDecoder, for any block ids, any number of abbreviations, *)
(* of operands and of records.                                             *)
(*                                                                         *)
(* Abbrevs: a list is a run of cells, its headers and behind them, one     *)
(* behind the other, the operands (ListOK).  pn_abbrevs_allocate makes one *)
(* such run of another (PushedList, Added), and leaves every cell below    *)
(* the list alone; a copied list is made of these steps (Copied).  The     *)
(* invariant (AbbrevsInv) says where the lists are: those of the module's  *)
(* allocator before its last allocation, except the one that was appended  *)
(* to last, and each local list between the mark of its block and the mark *)
(* of the next, as the last allocation there or before the last record     *)
(* (Lies).                                                                 *)
(***************************************************************************)
EXTENDS MCDecoder, BitstreamProofs

\* The operands of the abbreviations c of a list at p lie one behind the other, behind
\* the headers: at says where, and end is where the list ends.
Places(at, p, c, end) ==
  /\ at \in [1..(Len(c) + 1) -> Nat]
  /\ at[1] = p + 2 * Len(c) /\ at[Len(c) + 1] = end
  /\ \A i \in 1..Len(c) : at[i + 1] = at[i] + Len(c[i])
  /\ \A i \in 1..(Len(c) + 1) : p + 2 * Len(c) <= at[i] /\ at[i] <= end

\* The headers and the operands are there.
Holds(m, p, c, at) ==
  \A i \in 1..Len(c) :
    /\ m[p + 2 * (i - 1)] = Len(c[i]) /\ m[p + 2 * (i - 1) + 1] = at[i]
    /\ \A j \in 1..Len(c[i]) : m[at[i] + j - 1] = c[i][j]

\* A list with the abbreviations c, from its address up to end.
ListOK(m, list, c, end) ==
  /\ c \in Seq(Seq(Int)) /\ c # <<>>
  /\ list.num_abbrevs = Len(c)
  /\ list.abbrevs \in Nat /\ end \in Nat
  /\ list.abbrevs..(end - 1) \subseteq DOMAIN m
  /\ \E at : Places(at, list.abbrevs, c, end) /\ Holds(m, list.abbrevs, c, at)

\* A list is as it was where no cell has changed.
LEMMA ListKept ==
  ASSUME NEW m, NEW new, NEW list, NEW c, NEW end, ListOK(m, list, c, end),
         \A x \in list.abbrevs..(end - 1) : x \in DOMAIN new /\ new[x] = m[x]
  PROVE  ListOK(new, list, c, end)
<1> DEFINE p == list.abbrevs
<1>1. PICK at : Places(at, p, c, end) /\ Holds(m, p, c, at)
  BY DEF ListOK
<1>2. p \in Nat /\ end \in Nat /\ Len(c) \in Nat /\ \A i \in 1..Len(c) : Len(c[i]) \in Nat
  BY DEF ListOK
<1> HIDE DEF p
<1>3. ASSUME NEW i \in 1..Len(c)
      PROVE  /\ new[p + 2 * (i - 1)] = Len(c[i]) /\ new[p + 2 * (i - 1) + 1] = at[i]
             /\ \A j \in 1..Len(c[i]) : new[at[i] + j - 1] = c[i][j]
  <2>1. /\ at[i] \in Nat /\ at[i + 1] \in Nat /\ at[i + 1] = at[i] + Len(c[i]) /\ at[i + 1] <= end
        /\ p + 2 * Len(c) <= at[i] /\ p + 2 * Len(c) <= end
    <3>1. i \in 1..(Len(c) + 1) /\ i + 1 \in 1..(Len(c) + 1) /\ 1 \in 1..(Len(c) + 1)
      BY <1>2
    <3> QED BY <1>1, <1>2, <3>1 DEF Places
  <2>2. p + 2 * (i - 1) \in p..(end - 1) /\ p + 2 * (i - 1) + 1 \in p..(end - 1)
    <3> DEFINE L == Len(c)
    <3>1. L \in Nat /\ i \in 1..L /\ p \in Nat /\ end \in Nat /\ p + 2 * L <= end
      BY <1>2, <2>1
    <3> HIDE DEF L
    <3> QED BY <3>1
  <2>3. \A j \in 1..Len(c[i]) : at[i] + j - 1 \in p..(end - 1)
    BY <1>2, <2>1
  <2>4. /\ m[p + 2 * (i - 1)] = Len(c[i]) /\ m[p + 2 * (i - 1) + 1] = at[i]
        /\ \A j \in 1..Len(c[i]) : m[at[i] + j - 1] = c[i][j]
    BY <1>1 DEF Holds
  <2> QED BY <2>2, <2>3, <2>4 DEF p
<1>4. Holds(new, p, c, at)
  BY <1>3 DEF Holds
<1> QED BY <1>1, <1>4 DEF ListOK, p

\* Every abbreviation of a list reads back.
LEMMA ReadsBack ==
  ASSUME NEW m, NEW list, NEW c, NEW end, ListOK(m, list, c, end), NEW i \in 1..Len(c)
  PROVE  Abb!Read(m, list, i) = c[i]
<1> DEFINE p == list.abbrevs
<1>1. PICK at : Places(at, p, c, end) /\ Holds(m, p, c, at)
  BY DEF ListOK
<1>2. m[p + 2 * (i - 1)] = Len(c[i]) /\ m[p + 2 * (i - 1) + 1] = at[i]
  BY <1>1 DEF Holds
<1>3. c[i] = [j \in 1..Len(c[i]) |-> c[i][j]]
  BY DEF ListOK
<1>4. \A j \in 1..Len(c[i]) : m[at[i] + j - 1] = c[i][j]
  BY <1>1 DEF Holds
<1>5. Abb!Read(m, list, i) = [j \in 1..Len(c[i]) |-> m[at[i] + j - 1]]
  BY <1>2 DEF Abb!Read, Abb!Cells
<1> HIDE DEF p
<1> QED BY <1>3, <1>4, <1>5


\* What Write leaves where.
LEMMA Written ==
  ASSUME NEW m, NEW addr \in Int, NEW cells, NEW len \in Nat, Len(cells) = len
  PROVE  LET w == Abb!Write(m, addr, cells) IN
         /\ \A x : x \in DOMAIN w <=> x \in DOMAIN m \/ x \in addr..(addr + len - 1)
         /\ \A k \in 1..len : w[addr + k - 1] = cells[k]
         /\ \A x \in DOMAIN m : x \notin addr..(addr + len - 1) => w[x] = m[x]
<1>1. \A k \in 1..len : addr + k - 1 \in addr..(addr + len - 1) /\ (addr + k - 1) - addr + 1 = k
  OBVIOUS
<1> QED BY <1>1 DEF Abb!Write

\* Cells is a sequence.
LEMMA CellsLen ==
  ASSUME NEW m, NEW addr, NEW size \in Nat
  PROVE  Len(Abb!Cells(m, addr, size)) = size
         /\ \A k \in 1..size : Abb!Cells(m, addr, size)[k] = m[addr + k - 1]
BY DEF Abb!Cells

\* The headers at p have the lengths len, of operands that were at at.
Headed(m, p, num, at, len) ==
  /\ at \in [1..(num + 1) -> Nat] /\ len \in [1..num -> Nat]
  /\ \A i \in 1..num : at[i + 1] = at[i] + len[i] /\ m[p + 2 * (i - 1)] = len[i]

\* The recursion of OpsFrom, over a list of which at says where the operands were.
LEMMA OpsFromIs ==
  ASSUME NEW m, NEW p \in Nat, NEW num \in Nat, NEW start \in Nat, NEW at, NEW len,
         Headed(m, p, num, at, len)
  PROVE  \A i \in 0..num : Abb!OpsFrom(m, p, num, start)[i] = start + (at[i + 1] - at[1])
<1> DEFINE f == [i \in 0..num |-> start + (at[i + 1] - at[1])]
           rec(g) == [i \in 0..num |-> IF i = 0 THEN start ELSE g[i - 1] + m[p + 2 * (i - 1)]]
           ops == Abb!OpsFrom(m, p, num, start)
<1> USE DEF Headed
<1>1. \A i \in 0..num : at[i + 1] \in Nat /\ at[1] \in Nat
  OBVIOUS
<1>2. ASSUME NEW i \in 0..num PROVE f[i] = IF i = 0 THEN start ELSE f[i - 1] + m[p + 2 * (i - 1)]
  <2>1. CASE i = 0
    BY <2>1, <1>1
  <2>2. CASE i # 0
    <3>1. i \in 1..num /\ i - 1 \in 0..num /\ (i - 1) + 1 = i
      BY <2>2
    <3>2. f[i] = start + (at[i + 1] - at[1]) /\ f[i - 1] = start + (at[i] - at[1])
      BY <3>1
    <3>3. at[i + 1] = at[i] + len[i] /\ m[p + 2 * (i - 1)] = len[i] /\ len[i] \in Nat
          /\ at[i] \in Nat /\ at[1] \in Nat
      BY <3>1
    <3>4. \A x, y, z, w \in Nat : x = y + w => start + (x - z) = (start + (y - z)) + w
      OBVIOUS
    <3>5. f[i] = f[i - 1] + len[i]
      BY <3>1, <3>2, <3>3, <3>4, <1>1
    <3> HIDE DEF f
    <3> QED BY <2>2, <3>3, <3>5
  <2> QED BY <2>1, <2>2
<1>3. f = rec(f)
  <2> HIDE DEF f
  <2>1. f = [i \in 0..num |-> f[i]]
    BY DEF f
  <2> QED BY <1>2, <2>1
<1>4. ops = CHOOSE g : g = rec(g)
  BY DEF Abb!OpsFrom
<1>5. ops = rec(ops)
  <2> HIDE DEF f, ops, rec
  <2> QED BY <1>3, <1>4
<1>6. \A i \in 0..num : ops[i] = IF i = 0 THEN start ELSE ops[i - 1] + m[p + 2 * (i - 1)]
  <2> HIDE DEF ops
  <2> QED BY <1>5
<1> DEFINE Good == {i \in 0..num : ops[i] = f[i]}
<1> HIDE DEF ops, f
<1>7. 0 \in Good
  BY <1>2, <1>6
<1>8. ASSUME NEW i \in 0..num, i < num, i \in Good PROVE i + 1 \in Good
  <2>1. i + 1 \in 0..num /\ i + 1 # 0 /\ (i + 1) - 1 = i
    BY <1>8
  <2> QED BY <1>2, <1>6, <1>8, <2>1
<1>9. ASSUME NEW i \in 0..num PROVE i \in Good
  <2> HIDE DEF Good
  <2> QED BY <1>7, <1>8, NatSetUpTo
<1> QED BY <1>9 DEF f, ops


\* What pn_abbrevs_allocate and the operands written behind it make of a list that is at
\* base in m by now, with pointers that may be old: every operand moves up by a header.
Pushed(m, base, num, size, new) ==
  LET prev_ops == base + 2 * num
      moved  == Abb!Write(m, prev_ops + 2, Abb!Cells(m, prev_ops, size - 2 * num))
      ops    == Abb!OpsFrom(moved, base, num, prev_ops + 2)
      headed == Abb!Write(Abb!Mended(moved, base, num, ops), prev_ops, <<Len(new), ops[num]>>)
  IN  Abb!Write(headed, ops[num], new)

\* The run that is left is a list again, with the new abbreviation behind the others.
LEMMA PushedList ==
  ASSUME NEW m, NEW base \in Nat, NEW size \in Nat, NEW c \in Seq(Seq(Int)), NEW new \in Seq(Int),
         base..(base + size - 1) \subseteq DOMAIN m,
         NEW at, Places(at, base, c, base + size),
         \A i \in 1..Len(c) : /\ m[base + 2 * (i - 1)] = Len(c[i])
                              /\ \A j \in 1..Len(c[i]) : m[at[i] + j - 1] = c[i][j]
  PROVE  LET w == Pushed(m, base, Len(c), size, new)
             end == base + size + 2 + Len(new) IN
         /\ ListOK(w, [abbrevs |-> base, num_abbrevs |-> Len(c) + 1], Append(c, new), end)
         /\ \A x \in 0..(base - 1) : x \in DOMAIN m => x \in DOMAIN w /\ w[x] = m[x]
<1> DEFINE num  == Len(c)
           len  == Len(new)
           prev == base + 2 * num
           cells == Abb!Cells(m, prev, size - 2 * num)
           moved == Abb!Write(m, prev + 2, cells)
           ops   == Abb!OpsFrom(moved, base, num, prev + 2)
           odd   == {base + 2 * k + 1 : k \in 0..(num - 1)}
           mended == Abb!Mended(moved, base, num, ops)
           headed == Abb!Write(mended, prev, <<len, ops[num]>>)
           w == Abb!Write(headed, ops[num], new)
           end == base + size + 2 + len
           c2 == Append(c, new)
           at2 == [i \in 1..(num + 2) |-> IF i = num + 2 THEN end ELSE at[i] + 2]
           lens == [i \in 1..num |-> Len(c[i])]
<1>1. /\ num \in Nat /\ len \in Nat /\ prev \in Nat
      /\ \A i \in 1..num : c[i] \in Seq(Int) /\ Len(c[i]) \in Nat
  OBVIOUS
<1>2. /\ at \in [1..(num + 1) -> Nat] /\ at[1] = prev /\ at[num + 1] = base + size
      /\ \A i \in 1..num : at[i + 1] = at[i] + Len(c[i])
      /\ \A i \in 1..(num + 1) : at[i] \in Nat /\ prev <= at[i] /\ at[i] <= base + size
      /\ 1 \in 1..(num + 1) /\ num + 1 \in 1..(num + 1)
  <2>1. /\ at \in [1..(num + 1) -> Nat] /\ at[1] = prev /\ at[num + 1] = base + size
        /\ \A i \in 1..num : at[i + 1] = at[i] + Len(c[i])
        /\ \A i \in 1..(num + 1) : prev <= at[i] /\ at[i] <= base + size
    BY DEF Places
  <2> HIDE DEF num, prev
  <2>2. 1 \in 1..(num + 1) /\ num + 1 \in 1..(num + 1)
    BY <1>1
  <2>3. \A i \in 1..(num + 1) : at[i] \in Nat
    BY <2>1
  <2> QED BY <2>1, <2>2, <2>3
<1>3. size - 2 * num \in Nat /\ prev + (size - 2 * num) = base + size
  <2>1. prev <= base + size
    BY <1>2
  <2> HIDE DEF num
  <2> QED BY <1>1, <2>1
<1>w. w = Pushed(m, base, num, size, new)
  BY DEF Pushed
<1>4. /\ \A x : x \in DOMAIN moved <=> x \in DOMAIN m \/ x \in (prev + 2)..(base + size + 1)
      /\ \A k \in 1..(size - 2 * num) : moved[prev + 2 + k - 1] = m[prev + k - 1]
      /\ \A x \in DOMAIN m : x \notin (prev + 2)..(base + size + 1) => moved[x] = m[x]
  <2>1. /\ Len(cells) = size - 2 * num
        /\ \A k \in 1..(size - 2 * num) : cells[k] = m[prev + k - 1]
    <3> DEFINE rest == size - 2 * num
    <3>1. rest \in Nat
      BY <1>3
    <3> HIDE DEF rest, prev, num
    <3>2. Len(Abb!Cells(m, prev, rest)) = rest
          /\ \A k \in 1..rest : Abb!Cells(m, prev, rest)[k] = m[prev + k - 1]
      BY <3>1 DEF Abb!Cells
    <3> QED BY <3>2 DEF rest
  <2>2. prev + 2 \in Int /\ (prev + 2) + (size - 2 * num) - 1 = base + size + 1
    BY <1>1, <1>3
  <2> HIDE DEF cells, prev, num
  <2> QED BY <1>3, <2>1, <2>2, Written
<1> HIDE DEF moved, prev, num, len
<1>5. \A i \in 1..num : /\ moved[base + 2 * (i - 1)] = Len(c[i])
                        /\ \A j \in 1..Len(c[i]) : moved[at[i] + 2 + j - 1] = c[i][j]
  <2> TAKE i \in 1..num
  <2>1. base + 2 * (i - 1) \in base..(prev - 1) /\ base + 2 * (i - 1) \in base..(base + size - 1)
        /\ base + 2 * (i - 1) \notin (prev + 2)..(base + size + 1)
    BY <1>1, <1>3 DEF prev
  <2>2. moved[base + 2 * (i - 1)] = Len(c[i])
    BY <1>4, <2>1 DEF num
  <2>3. ASSUME NEW j \in 1..Len(c[i]) PROVE moved[at[i] + 2 + j - 1] = c[i][j]
    <3> DEFINE k == at[i] + j - prev
               rest == size - 2 * num
               L == Len(c[i])
               a == at[i]
    <3>1. at[i] \in Nat /\ prev <= at[i] /\ at[i] + Len(c[i]) <= base + size
      <4>1. i \in 1..(num + 1) /\ i + 1 \in 1..(num + 1)
        BY <1>1
      <4> QED BY <1>2, <4>1
    <3>5. a \in Nat /\ prev <= a /\ a + L <= base + size /\ L \in Nat /\ rest \in Nat
          /\ prev + rest = base + size
          /\ j \in 1..L /\ k = a + j - prev
      BY <1>1, <1>3, <3>1
    <3> HIDE DEF a, L, rest, k
    <3>6. k \in 1..rest /\ prev + 2 + k - 1 = a + 2 + j - 1 /\ prev + k - 1 = a + j - 1
      BY <1>1, <3>5
    <3>2. k \in 1..(size - 2 * num)
      BY <3>6 DEF rest
    <3>3. prev + 2 + k - 1 = at[i] + 2 + j - 1 /\ prev + k - 1 = at[i] + j - 1
      BY <3>6 DEF a
    <3>4. m[at[i] + j - 1] = c[i][j]
      BY DEF num
    <3> HIDE DEF k
    <3> QED BY <1>4, <3>2, <3>3, <3>4
  <2> QED BY <2>2, <2>3
<1>6. \A i \in 0..num : ops[i] = at[i + 1] + 2
  <2>1. lens \in [1..num -> Nat] /\ \A i \in 1..num : lens[i] = Len(c[i])
    BY <1>1
  <2>2. \A i \in 1..num : at[i + 1] = at[i] + lens[i] /\ moved[base + 2 * (i - 1)] = lens[i]
    BY <1>2, <1>5, <2>1
  <2>3. prev + 2 \in Nat /\ \A i \in 1..(num + 1) : at[1] <= at[i]
    BY <1>1, <1>2
  <2> HIDE DEF lens
  <2>7. at \in [1..(num + 1) -> Nat]
    BY <1>2
  <2> DEFINE start == prev + 2
  <2>8. start \in Nat
    BY <2>3
  <2> HIDE DEF start
  <2>4. \A i \in 0..num : Abb!OpsFrom(moved, base, num, start)[i] = start + (at[i + 1] - at[1])
    <3>1. Headed(moved, base, num, at, lens)
      BY <2>1, <2>2, <2>7 DEF Headed
    <3> QED BY <1>1, <2>8, <3>1, OpsFromIs
  <2> TAKE i \in 0..num
  <2>5. at[i + 1] \in Nat /\ at[1] = prev
    BY <1>1, <1>2
  <2>6. (prev + 2) + (at[i + 1] - at[1]) = at[i + 1] + 2
    BY <1>1, <2>5
  <2> QED BY <2>4, <2>6 DEF start
<1> HIDE DEF ops
<1>7. ops[num] = base + size + 2
  BY <1>1, <1>2, <1>6
<1>m. mended = [i \in DOMAIN moved |-> IF i \in odd THEN ops[(i - base) \div 2] ELSE moved[i]]
  BY DEF Abb!Mended
<1>8. /\ DOMAIN mended = DOMAIN moved
      /\ \A i \in 1..num : base + 2 * (i - 1) \in DOMAIN moved
                           /\ base + 2 * (i - 1) + 1 \in DOMAIN moved
      /\ \A i \in 1..num : mended[base + 2 * (i - 1)] = Len(c[i])
                           /\ mended[base + 2 * (i - 1) + 1] = at[i] + 2
      /\ \A x \in DOMAIN moved : x < base \/ x >= prev => mended[x] = moved[x]
  <2>1. \A i \in 1..num : base + 2 * (i - 1) \in DOMAIN moved
                          /\ base + 2 * (i - 1) + 1 \in DOMAIN moved
    <3> TAKE i \in 1..num
    <3>1. base + 2 * (i - 1) \in base..(base + size - 1)
          /\ base + 2 * (i - 1) + 1 \in base..(base + size - 1)
      BY <1>1, <1>3 DEF prev
    <3> QED BY <1>4, <3>1
  <2>2. ASSUME NEW i \in 1..num
        PROVE  mended[base + 2 * (i - 1)] = Len(c[i]) /\ mended[base + 2 * (i - 1) + 1] = at[i] + 2
    <3>1. base + 2 * (i - 1) \notin odd
      BY <1>1
    <3>2. base + 2 * (i - 1) + 1 \in odd
      <4>1. i - 1 \in 0..(num - 1)
        BY <1>1
      <4> QED BY <4>1
    <3>3. ((base + 2 * (i - 1) + 1) - base) \div 2 = i - 1
      <4>1. (base + 2 * (i - 1) + 1) - base = 2 * (i - 1) + 1
        BY <1>1
      <4>2. \A y \in Nat : (2 * y + 1) \div 2 = y
        OBVIOUS
      <4>3. i - 1 \in Nat
        BY <1>1
      <4> QED BY <4>1, <4>2, <4>3
    <3>4. ops[i - 1] = at[i] + 2
      <4>1. i - 1 \in 0..num /\ (i - 1) + 1 = i
        BY <1>1
      <4> QED BY <1>6, <4>1
    <3> HIDE DEF odd, mended
    <3> QED BY <1>m, <1>5, <2>1, <3>1, <3>2, <3>3, <3>4
  <2>3. ASSUME NEW x \in DOMAIN moved, x < base \/ x >= prev PROVE mended[x] = moved[x]
    <3>1. x \notin odd
      BY <1>1, <2>3 DEF prev
    <3> HIDE DEF odd, mended
    <3> QED BY <1>m, <3>1
  <2>4. DOMAIN mended = DOMAIN moved
    BY <1>m
  <2> HIDE DEF mended
  <2> QED BY <2>1, <2>2, <2>3, <2>4
<1> HIDE DEF mended, odd
<1>9. /\ \A x : x \in DOMAIN headed <=> x \in DOMAIN moved \/ x \in prev..(prev + 1)
      /\ headed[prev] = len /\ headed[prev + 1] = base + size + 2
      /\ \A x \in DOMAIN moved : x \notin prev..(prev + 1) => headed[x] = mended[x]
  <2> DEFINE two == <<len, ops[num]>>
  <2>1. Len(two) = 2 /\ two[1] = len /\ two[2] = base + size + 2
    BY <1>7
  <2>2. 2 \in Nat /\ prev \in Int /\ prev + 2 - 1 = prev + 1 /\ prev + 1 - 1 = prev /\ 1 \in 1..2
        /\ 2 \in 1..2
    BY <1>1
  <2>3. headed = Abb!Write(mended, prev, two)
    OBVIOUS
  <2> HIDE DEF two, headed
  <2>4. /\ \A x : x \in DOMAIN headed <=> x \in DOMAIN mended \/ x \in prev..(prev + 2 - 1)
        /\ \A k \in 1..2 : headed[prev + k - 1] = two[k]
        /\ \A x \in DOMAIN mended : x \notin prev..(prev + 2 - 1) => headed[x] = mended[x]
    <3> DEFINE size2 == 2
    <3>1. size2 \in Nat /\ prev \in Int /\ Len(two) = size2
      BY <2>1, <2>2
    <3> HIDE DEF size2
    <3>2. /\ \A x : x \in DOMAIN headed <=> x \in DOMAIN mended \/ x \in prev..(prev + size2 - 1)
          /\ \A k \in 1..size2 : headed[prev + k - 1] = two[k]
          /\ \A x \in DOMAIN mended : x \notin prev..(prev + size2 - 1) => headed[x] = mended[x]
      BY <2>3, <3>1, Written
    <3> QED BY <3>2 DEF size2
  <2> QED BY <1>8, <2>1, <2>2, <2>4
<1>10. /\ \A x : x \in DOMAIN w <=> x \in DOMAIN headed \/ x \in (base + size + 2)..(end - 1)
       /\ \A k \in 1..len : w[base + size + 2 + k - 1] = new[k]
       /\ \A x \in DOMAIN headed : x \notin (base + size + 2)..(end - 1) => w[x] = headed[x]
  <2>1. base + size + 2 \in Int /\ (base + size + 2) + len - 1 = end - 1
    BY <1>1
  <2> DEFINE from == base + size + 2
  <2>2. from \in Int /\ w = Abb!Write(headed, from, new) /\ len \in Nat /\ Len(new) = len
    BY <1>1, <1>7, <2>1 DEF len
  <2>3. from + len - 1 = end - 1
    BY <2>1
  <2> HIDE DEF headed, end, from, w
  <2>4. /\ \A x : x \in DOMAIN w <=> x \in DOMAIN headed \/ x \in from..(from + len - 1)
        /\ \A k \in 1..len : w[from + k - 1] = new[k]
        /\ \A x \in DOMAIN headed : x \notin from..(from + len - 1) => w[x] = headed[x]
    BY <2>2, Written
  <2> QED BY <2>3, <2>4 DEF from
<1> HIDE DEF headed, w
<1>11. /\ c2 \in Seq(Seq(Int)) /\ Len(c2) = num + 1 /\ c2 # <<>>
       /\ \A i \in 1..num : c2[i] = c[i]
       /\ c2[num + 1] = new
  BY DEF num
<1> HIDE DEF c2
<1>12. end \in Nat /\ base + size + 2 <= end /\ end = base + size + 2 + len
  BY <1>1
<1> HIDE DEF end
<1>13. \A x \in 0..(base - 1) : x \in DOMAIN m => x \in DOMAIN w /\ w[x] = m[x]
  <2> TAKE x \in 0..(base - 1)
  <2> HAVE x \in DOMAIN m
  <2>1. /\ x \notin (prev + 2)..(base + size + 1) /\ x \notin prev..(prev + 1)
        /\ x \notin (base + size + 2)..(end - 1)
    <3>1. prev \in Nat /\ base <= prev
      BY <1>1 DEF prev
    <3>2. end \in Int
      BY <1>1, <1>12
    <3> QED BY <3>1, <3>2
  <2> QED BY <1>4, <1>8, <1>9, <1>10, <2>1
<1>14. base..(end - 1) \subseteq DOMAIN w
  <2> SUFFICES ASSUME NEW x \in base..(end - 1) PROVE x \in DOMAIN w
    OBVIOUS
  <2>1. x \in base..(base + size - 1) \/ x \in (prev + 2)..(base + size + 1)
        \/ x \in prev..(prev + 1) \/ x \in (base + size + 2)..(end - 1)
    BY <1>1, <1>3, <1>12
  <2> QED BY <1>4, <1>9, <1>10, <2>1
<1>15. Places(at2, base, c2, end)
  <2>1. at2 \in [1..((num + 1) + 1) -> Nat]
    <3>1. \A i \in 1..(num + 2) : i = num + 2 \/ i \in 1..(num + 1)
      BY <1>1
    <3>2. \A i \in 1..(num + 1) : at[i] + 2 \in Nat
      BY <1>2
    <3>3. (num + 1) + 1 = num + 2
      BY <1>1
    <3> QED BY <1>12, <3>1, <3>2, <3>3
  <2>2. /\ at2[num + 2] = end
        /\ \A i \in 1..(num + 1) : at2[i] = at[i] + 2
    BY <1>1
  <2> HIDE DEF at2
  <2>3. at2[1] = base + 2 * (num + 1) /\ at2[(num + 1) + 1] = end
    <3>1. at2[1] = prev + 2
      BY <1>2, <2>2
    <3>2. prev + 2 = base + 2 * (num + 1) /\ (num + 1) + 1 = num + 2
      BY <1>1 DEF prev
    <3> QED BY <2>2, <3>1, <3>2
  <2>4. ASSUME NEW i \in 1..(num + 1) PROVE at2[i + 1] = at2[i] + Len(c2[i])
    <3>1. CASE i = num + 1
      <4>1. at2[i + 1] = end /\ at2[i] = base + size + 2 /\ Len(c2[i]) = len
        BY <1>1, <1>2, <1>11, <2>2, <3>1 DEF len
      <4> QED BY <1>12, <4>1
    <3>2. CASE i # num + 1
      <4>1. i \in 1..num /\ i + 1 \in 1..(num + 1) /\ i \in 1..(num + 1)
        <5>1. num \in Nat
          BY <1>1
        <5> QED BY <3>2, <5>1
      <4>2. at2[i + 1] = at[i + 1] + 2 /\ at2[i] = at[i] + 2 /\ c2[i] = c[i]
            /\ at[i + 1] = at[i] + Len(c[i])
        BY <1>2, <1>11, <2>2, <4>1
      <4>3. at[i] \in Nat /\ Len(c[i]) \in Nat
        BY <1>1, <1>2, <4>1
      <4> QED BY <4>2, <4>3
    <3> QED BY <3>1, <3>2
  <2>5. ASSUME NEW i \in 1..((num + 1) + 1) PROVE base + 2 * (num + 1) <= at2[i] /\ at2[i] <= end
    <3>1. CASE i = num + 2
      BY <1>1, <1>3, <1>12, <2>2, <3>1 DEF prev
    <3>2. CASE i # num + 2
      <4>1. i \in 1..(num + 1)
        BY <1>1, <3>2
      <4>2. at2[i] = at[i] + 2 /\ at[i] \in Nat /\ prev <= at[i] /\ at[i] <= base + size
        BY <1>2, <2>2, <4>1
      <4> QED BY <1>1, <1>12, <4>2 DEF prev
    <3> QED BY <3>1, <3>2
  <2> QED BY <1>11, <2>1, <2>3, <2>4, <2>5 DEF Places
<1>16. ASSUME NEW i \in 1..(num + 1)
       PROVE  /\ w[base + 2 * (i - 1)] = Len(c2[i]) /\ w[base + 2 * (i - 1) + 1] = at2[i]
              /\ \A j \in 1..Len(c2[i]) : w[at2[i] + j - 1] = c2[i][j]
  <2>1. at2[i] = at[i] + 2
    BY <1>1
  <2> HIDE DEF at2
  <2>2. CASE i = num + 1
    <3>1. base + 2 * (i - 1) = prev /\ at[i] = base + size /\ c2[i] = new /\ Len(c2[i]) = len
      BY <1>1, <1>2, <1>11, <2>2 DEF prev, len
    <3>2. prev \notin (base + size + 2)..(end - 1) /\ prev + 1 \notin (base + size + 2)..(end - 1)
          /\ prev \in prev..(prev + 1) /\ prev + 1 \in prev..(prev + 1)
      BY <1>1, <1>3
    <3>3. w[prev] = len /\ w[prev + 1] = base + size + 2
      BY <1>9, <1>10, <3>2
    <3> QED BY <1>10, <2>1, <3>1, <3>3
  <2>3. CASE i # num + 1
    <3>1. i \in 1..num /\ c2[i] = c[i] /\ Len(c[i]) \in Nat
      BY <1>1, <1>11, <2>3
    <3>2. /\ base + 2 * (i - 1) \notin prev..(prev + 1)
          /\ base + 2 * (i - 1) + 1 \notin prev..(prev + 1)
          /\ base + 2 * (i - 1) \notin (base + size + 2)..(end - 1)
          /\ base + 2 * (i - 1) + 1 \notin (base + size + 2)..(end - 1)
      BY <1>1, <1>3, <3>1 DEF prev
    <3>3. w[base + 2 * (i - 1)] = Len(c2[i]) /\ w[base + 2 * (i - 1) + 1] = at2[i]
      BY <1>8, <1>9, <1>10, <2>1, <3>1, <3>2
    <3>4. ASSUME NEW j \in 1..Len(c[i]) PROVE w[at[i] + 2 + j - 1] = c[i][j]
      <4>1. at[i] \in Nat /\ prev <= at[i] /\ at[i] + Len(c[i]) <= base + size
        <5>1. i \in 1..(num + 1) /\ i + 1 \in 1..(num + 1)
          BY <1>1, <3>1
        <5> QED BY <1>2, <3>1, <5>1
      <4> DEFINE x == at[i] + 2 + j - 1
      <4>2. x \in (prev + 2)..(base + size + 1)
        <5> DEFINE a == at[i]
                   L == Len(c[i])
        <5>1. a \in Nat /\ prev <= a /\ a + L <= base + size /\ L \in Nat /\ j \in 1..L
          BY <3>1, <4>1
        <5> HIDE DEF a, L
        <5>2. a + 2 + j - 1 \in (prev + 2)..(base + size + 1)
          BY <1>1, <5>1
        <5> QED BY <5>2 DEF a
      <4>3. x \notin prev..(prev + 1) /\ x \notin (base + size + 2)..(end - 1) /\ x >= prev
        BY <1>1, <4>2
      <4>4. moved[x] = c[i][j]
        BY <1>5, <3>1
      <4> HIDE DEF x
      <4>5. x \in DOMAIN moved /\ x \in DOMAIN headed
        BY <1>4, <1>9, <4>2
      <4>6. w[x] = headed[x] /\ headed[x] = mended[x] /\ mended[x] = moved[x]
        BY <1>8, <1>9, <1>10, <4>3, <4>5
      <4> QED BY <4>4, <4>6 DEF x
    <3> QED BY <2>1, <3>1, <3>3, <3>4
  <2> QED BY <2>2, <2>3
<1>17. Holds(w, base, c2, at2)
  <2> HIDE DEF at2
  <2> QED BY <1>11, <1>16 DEF Holds
<1>18. ListOK(w, [abbrevs |-> base, num_abbrevs |-> num + 1], c2, end)
  <2> HIDE DEF at2
  <2> QED BY <1>11, <1>12, <1>14, <1>15, <1>17 DEF ListOK
<1> QED BY <1>w, <1>13, <1>18 DEF c2, end, num, len

\* A list that its allocator can grow: none, or the last allocation.
Growing(m, a, list, c) ==
  \/ list = Abb!NoList /\ c = <<>>
  \/ ListOK(m, list, c, a.current) /\ list.abbrevs = a.last_alloc

\* The cells below this one belong to others.
From(a, list) == IF list.abbrevs = Abb!NULL THEN a.current ELSE list.abbrevs

\* The headers of lists, and what an allocator and a mark keep.
Lists == [abbrevs : Nat \cup {Abb!NULL}, num_abbrevs : Nat]
Marks == [current : Nat, last_alloc : Nat \cup {Abb!NULL}]

\* The cells of m below low are in new too.
SameBelow(low, m, new) ==
  \A x \in 0..(low - 1) : x \in DOMAIN m => x \in DOMAIN new /\ new[x] = m[x]

\* s is what adding new to a list makes of the memory, the allocator and the list: the
\* allocator's other cells stay as they are.
IsAdded(s, m, a, list, c, new) ==
  /\ s.list \in Lists /\ s.alloc \in Marks
  /\ a.current <= s.alloc.current /\ s.alloc.last_alloc = s.list.abbrevs
  /\ ListOK(s.mem, s.list, Append(c, new), s.alloc.current)
  /\ From(a, list) <= s.list.abbrevs
  /\ SameBelow(From(a, list), m, s.mem)

\* An abbreviation is added to a list, which grows in place or moves.
LEMMA Added ==
  ASSUME NEW m, NEW a, a.current \in Nat, NEW list, NEW c, Growing(m, a, list, c),
         NEW new \in Seq(Int), NEW moves \in BOOLEAN
  PROVE  IsAdded(Abb!AddAbbrev(m, a, list, new, moves), m, a, list, c, new)
<1> DEFINE p == list.abbrevs
           num == list.num_abbrevs
           size == IF p = Abb!NULL THEN 0 ELSE a.current - p
           above == 100 * (a.current \div 100 + 1)
           base == IF moves THEN above ELSE IF p = Abb!NULL THEN a.current ELSE p
           r == Abb!Realloc(m, a, p, 2 + Len(new), moves)
           added == Abb!AddAbbrev(m, a, list, new, moves)
<1>1. Len(new) \in Nat /\ above \in Nat /\ a.current < above
  <2>1. \A y \in Nat : 100 * (y \div 100 + 1) \in Nat /\ y < 100 * (y \div 100 + 1)
    OBVIOUS
  <2> QED BY <2>1
<1>2. /\ r.p = base
      /\ r.alloc = [current |-> base + size + (2 + Len(new)), last_alloc |-> base]
  BY DEF Abb!Realloc
<1>3. /\ added.mem = Pushed(r.mem, r.p, num, size, new)
      /\ added.alloc = r.alloc
      /\ added.list = [abbrevs |-> r.p, num_abbrevs |-> num + 1]
  <2> DEFINE len == Len(new)
             prev == r.p + 2 * num
             moved == Abb!Write(r.mem, prev + 2, Abb!Cells(r.mem, prev, size - 2 * num))
             ops == Abb!OpsFrom(moved, r.p, num, prev + 2)
             headed == Abb!Write(Abb!Mended(moved, r.p, num, ops), prev, <<len, ops[num]>>)
             made == Abb!Allocate(m, a, list, len, moves)
  <2>1. made = [mem |-> headed, alloc |-> r.alloc, ops |-> ops[num],
                list |-> [abbrevs |-> r.p, num_abbrevs |-> num + 1]]
    BY DEF Abb!Allocate
  <2>2. added = [made EXCEPT !.mem = Abb!Write(@, made.ops, new)]
    BY DEF Abb!AddAbbrev
  <2>3. Pushed(r.mem, r.p, num, size, new) = Abb!Write(headed, ops[num], new)
    BY DEF Pushed
  <2> HIDE DEF headed, made, ops, r, added
  <2>4. added = [mem |-> Abb!Write(headed, ops[num], new), alloc |-> r.alloc, ops |-> ops[num],
                 list |-> [abbrevs |-> r.p, num_abbrevs |-> num + 1]]
    BY <2>1, <2>2
  <2> QED BY <2>3, <2>4
<1> HIDE DEF r, added
<1> DEFINE
      Ready(at) ==
        /\ num = Len(c) /\ size \in Nat /\ base \in Nat /\ c \in Seq(Seq(Int))
        /\ base..(base + size - 1) \subseteq DOMAIN r.mem
        /\ Places(at, base, c, base + size)
        /\ \A i \in 1..Len(c) : /\ r.mem[base + 2 * (i - 1)] = Len(c[i])
                                /\ \A j \in 1..Len(c[i]) : r.mem[at[i] + j - 1] = c[i][j]
        /\ From(a, list) <= base /\ a.current <= base + size /\ From(a, list) \in Nat
        /\ \A x \in 0..(From(a, list) - 1) : x \in DOMAIN m => x \in DOMAIN r.mem /\ r.mem[x] = m[x]
      Grown == IsAdded(added, m, a, list, c, new)
<1>4. ASSUME NEW at, Ready(at) PROVE Grown
  <2> DEFINE w == Pushed(r.mem, base, Len(c), size, new)
             end == base + size + 2 + Len(new)
             low == From(a, list)
  <2> HIDE DEF base, size, num, above
  <2>1. /\ ListOK(w, [abbrevs |-> base, num_abbrevs |-> Len(c) + 1], Append(c, new), end)
        /\ \A x \in 0..(base - 1) : x \in DOMAIN r.mem => x \in DOMAIN w /\ w[x] = r.mem[x]
    BY <1>4, PushedList
  <2>2. /\ added.mem = w /\ added.list = [abbrevs |-> base, num_abbrevs |-> Len(c) + 1]
        /\ added.alloc = [current |-> end, last_alloc |-> base]
    <3>1. base + size + (2 + Len(new)) = end
      BY <1>1, <1>4
    <3> QED BY <1>2, <1>3, <1>4, <3>1
  <2>3. end \in Nat /\ a.current <= end
    BY <1>1, <1>4
  <2> HIDE DEF w, end, low
  <2>4. ASSUME NEW x \in 0..(low - 1), x \in DOMAIN m PROVE x \in DOMAIN w /\ w[x] = m[x]
    <3>1. x \in DOMAIN r.mem /\ r.mem[x] = m[x]
      BY <1>4, <2>4 DEF low
    <3>2. x \in 0..(base - 1)
      <4>1. low \in Nat /\ base \in Nat /\ low <= base
        BY <1>4 DEF low
      <4> QED BY <2>4, <4>1
    <3> QED BY <2>1, <3>1, <3>2
  <2>5. low <= base
    BY <1>4 DEF low
  <2>6. SameBelow(low, m, w)
    BY <2>4 DEF SameBelow
  <2>7. base \in Nat /\ Len(c) + 1 \in Nat
    BY <1>4
  <2>8. added.list \in Lists /\ added.alloc \in Marks /\ added.alloc.last_alloc = added.list.abbrevs
        /\ added.alloc.current = end /\ added.list.abbrevs = base
    BY <2>2, <2>3, <2>7 DEF Lists, Marks
  <2> QED BY <2>1, <2>2, <2>3, <2>5, <2>6, <2>8 DEF low, IsAdded
<1>5. ASSUME list = Abb!NoList /\ c = <<>> PROVE Grown
  <2>1. /\ p = Abb!NULL /\ num = 0 /\ size = 0 /\ Len(c) = 0 /\ From(a, list) = a.current
        /\ base = IF moves THEN above ELSE a.current
    BY <1>5 DEF Abb!NoList, Abb!NULL, From
  <2>2. r.mem = m
    BY <2>1 DEF r, Abb!Realloc, Abb!NULL
  <2>3. base \in Nat /\ a.current <= base
    BY <1>1, <2>1
  <2> DEFINE at == [i \in 1..(0 + 1) |-> base]
  <2> HIDE DEF base, above, size, num, p
  <2>4. Places(at, base, c, base + size)
    BY <2>1, <2>3 DEF Places
  <2>5. base..(base + size - 1) = {} /\ c \in Seq(Seq(Int)) /\ 1..Len(c) = {}
    BY <1>5, <2>1, <2>3
  <2> HIDE DEF at
  <2>6. /\ size \in Nat /\ From(a, list) <= base /\ a.current <= base + size
        /\ From(a, list) \in Nat
        /\ base..(base + size - 1) \subseteq DOMAIN r.mem
    BY <2>1, <2>3, <2>5
  <2>7. \A x \in 0..(From(a, list) - 1) : x \in DOMAIN m => x \in DOMAIN r.mem /\ r.mem[x] = m[x]
    BY <2>2
  <2>8. num = Len(c)
    BY <2>1
  <2>9. Ready(at)
    BY <2>3, <2>4, <2>5, <2>6, <2>7, <2>8
  <2> HIDE DEF Ready, Grown
  <2> QED BY <1>4, <2>9
<1>6. ASSUME ListOK(m, list, c, a.current) /\ list.abbrevs = a.last_alloc PROVE Grown
  <2>1. /\ c \in Seq(Seq(Int)) /\ num = Len(c) /\ p \in Nat /\ p..(a.current - 1) \subseteq DOMAIN m
        /\ Len(c) \in Nat /\ Len(c) >= 1 /\ \A i \in 1..Len(c) : Len(c[i]) \in Nat
    BY <1>6 DEF ListOK
  <2>2. PICK old : Places(old, p, c, a.current) /\ Holds(m, p, c, old)
    BY <1>6 DEF ListOK
  <2>3. /\ old \in [1..(Len(c) + 1) -> Nat] /\ old[1] = p + 2 * Len(c)
        /\ old[Len(c) + 1] = a.current
        /\ \A i \in 1..Len(c) : old[i + 1] = old[i] + Len(c[i])
        /\ \A i \in 1..(Len(c) + 1) : p + 2 * Len(c) <= old[i] /\ old[i] <= a.current
    BY <2>2 DEF Places
  <2>4. p + 2 * Len(c) <= a.current
    <3>1. 1 \in 1..(Len(c) + 1)
      BY <2>1
    <3> QED BY <2>3, <3>1
  <2>5. /\ p # Abb!NULL /\ size = a.current - p /\ From(a, list) = p
        /\ base = IF moves THEN above ELSE p
    BY <2>1 DEF Abb!NULL, From
  <2>6. size \in Nat /\ base \in Nat /\ p <= base /\ a.current <= base + size /\ 2 * Len(c) <= size
        /\ (moves => a.current < base)
    <3> HIDE DEF above, p
    <3> QED BY <1>1, <2>1, <2>4, <2>5
  <2>7. /\ \A k \in 1..size : base + k - 1 \in DOMAIN r.mem /\ r.mem[base + k - 1] = m[p + k - 1]
        /\ \A x \in 0..(p - 1) : x \in DOMAIN m => x \in DOMAIN r.mem /\ r.mem[x] = m[x]
    <3>1. CASE ~moves
      <4>1. r.mem = m /\ base = p
        BY <2>5, <3>1 DEF r, Abb!Realloc, Abb!NULL
      <4>2. \A k \in 1..size : p + k - 1 \in p..(a.current - 1)
        BY <2>1, <2>5, <2>6
      <4> QED BY <2>1, <4>1, <4>2
    <3>2. CASE moves
      <4> DEFINE rest == Abb!Restrict(m, DOMAIN m \
                                       {i \in DOMAIN m : p # Abb!NULL /\ i >= p /\ i < p + size})
                 cells == Abb!Cells(m, p, size)
      <4>1. r.mem = Abb!Write(rest, base, cells)
        <5>1. base # p
          BY <2>1, <2>4, <2>6, <3>2
        <5> QED BY <2>5, <3>2, <5>1 DEF r, Abb!Realloc
      <4>2. Len(cells) = size /\ \A k \in 1..size : cells[k] = m[p + k - 1]
        <5> HIDE DEF size, p
        <5> QED BY <2>6 DEF Abb!Cells
      <4>3. ASSUME NEW x \in 0..(p - 1), x \in DOMAIN m
            PROVE  x \in DOMAIN rest /\ rest[x] = m[x]
        <5>1. ~(x >= p)
          BY <2>1
        <5> QED BY <4>3, <5>1 DEF Abb!Restrict
      <4> HIDE DEF rest, cells, base, size, p, above
      <4>4. /\ \A x : x \in DOMAIN r.mem <=> x \in DOMAIN rest \/ x \in base..(base + size - 1)
            /\ \A k \in 1..size : r.mem[base + k - 1] = cells[k]
            /\ \A x \in DOMAIN rest : x \notin base..(base + size - 1) => r.mem[x] = rest[x]
        BY <2>6, <4>1, <4>2, Written
      <4>5. \A k \in 1..size : base + k - 1 \in base..(base + size - 1)
        BY <2>6
      <4>6. \A x \in 0..(p - 1) : x \notin base..(base + size - 1)
        BY <2>1, <2>6
      <4> QED BY <4>2, <4>3, <4>4, <4>5, <4>6
    <3> QED BY <3>1, <3>2
  <2> DEFINE at == [i \in 1..(Len(c) + 1) |-> old[i] - p + base]
  <2> HIDE DEF base, size, above, num, p
  <2>8. \A i \in 1..(Len(c) + 1) :
          /\ old[i] \in Nat /\ at[i] = old[i] - p + base /\ at[i] \in Nat
          /\ base + 2 * Len(c) <= at[i] /\ at[i] <= base + size
    <3> TAKE i \in 1..(Len(c) + 1)
    <3> DEFINE o == old[i]
               L == Len(c)
    <3>1. o \in Nat /\ p + 2 * L <= o /\ o <= a.current /\ at[i] = o - p + base /\ L \in Nat
      BY <2>1, <2>3
    <3>2. size = a.current - p
      BY <2>5
    <3> HIDE DEF o, L, at
    <3>3. at[i] \in Nat /\ base + 2 * L <= at[i] /\ at[i] <= base + size
      <4> DEFINE cur == a.current
      <4>1. /\ p \in Nat /\ base \in Nat /\ size = cur - p /\ cur \in Nat /\ o \in Nat /\ L \in Nat
            /\ p + 2 * L <= o /\ o <= cur /\ at[i] = o - p + base
        BY <2>1, <2>6, <3>1, <3>2
      <4> HIDE DEF cur
      <4> QED BY <4>1
    <3> QED BY <3>1, <3>3 DEF o, L
  <2>9. at \in [1..(Len(c) + 1) -> Nat]
    BY <2>8
  <2> HIDE DEF at
  <2>10. Places(at, base, c, base + size)
    <3>1. 1 \in 1..(Len(c) + 1) /\ Len(c) + 1 \in 1..(Len(c) + 1)
      BY <2>1
    <3>2. at[1] = base + 2 * Len(c)
      <4>1. at[1] = (p + 2 * Len(c)) - p + base
        BY <2>3, <2>8, <3>1
      <4> QED BY <2>1, <2>6, <4>1
    <3>3. at[Len(c) + 1] = base + size
      <4>1. at[Len(c) + 1] = a.current - p + base
        BY <2>3, <2>8, <3>1
      <4> QED BY <2>1, <2>5, <2>6, <4>1
    <3>4. ASSUME NEW i \in 1..Len(c) PROVE at[i + 1] = at[i] + Len(c[i])
      <4>1. i \in 1..(Len(c) + 1) /\ i + 1 \in 1..(Len(c) + 1)
        BY <2>1
      <4>2. at[i + 1] = old[i + 1] - p + base /\ at[i] = old[i] - p + base /\ old[i] \in Nat
            /\ old[i + 1] = old[i] + Len(c[i])
        BY <2>3, <2>8, <4>1
      <4>3. \A y, z \in Nat : (y + z) - p + base = (y - p + base) + z
        BY <2>1, <2>6
      <4> QED BY <2>1, <4>2, <4>3
    <3> QED BY <2>8, <2>9, <3>2, <3>3, <3>4 DEF Places
  <2>11. ASSUME NEW i \in 1..Len(c)
         PROVE  /\ r.mem[base + 2 * (i - 1)] = Len(c[i])
                /\ \A j \in 1..Len(c[i]) : r.mem[at[i] + j - 1] = c[i][j]
    <3>1. r.mem[base + 2 * (i - 1)] = Len(c[i])
      <4> DEFINE k == 2 * (i - 1) + 1
      <4>1. k \in 1..size /\ base + k - 1 = base + 2 * (i - 1) /\ p + k - 1 = p + 2 * (i - 1)
        BY <2>1, <2>6
      <4>2. m[p + 2 * (i - 1)] = Len(c[i])
        BY <2>2 DEF Holds
      <4> HIDE DEF k
      <4> QED BY <2>7, <4>1, <4>2
    <3>2. ASSUME NEW j \in 1..Len(c[i]) PROVE r.mem[at[i] + j - 1] = c[i][j]
      <4> DEFINE o == old[i]
                 L == Len(c[i])
                 k == o - p + j
                 b == at[i]
      <4>1. i \in 1..(Len(c) + 1) /\ i + 1 \in 1..(Len(c) + 1)
        BY <2>1
      <4>2. o \in Nat /\ L \in Nat /\ o + L <= a.current /\ p + 2 * Len(c) <= o
            /\ b = o - p + base /\ j \in 1..L
        BY <2>1, <2>3, <2>8, <4>1
      <4>3. k = o - p + j /\ Len(c) \in Nat
        BY <2>1
      <4>4. m[o + j - 1] = c[i][j]
        BY <2>2 DEF Holds
      <4> HIDE DEF o, L, k, b
      <4> DEFINE cur == a.current
                 num2 == 2 * Len(c)
      <4>6. /\ p \in Nat /\ base \in Nat /\ size \in Nat /\ size = cur - p /\ cur \in Nat
            /\ num2 \in Nat
            /\ o \in Nat /\ L \in Nat /\ o + L <= cur /\ p + num2 <= o /\ b = o - p + base
            /\ j \in 1..L
            /\ k = o - p + j
        BY <2>1, <2>5, <2>6, <4>2, <4>3
      <4> HIDE DEF cur, num2
      <4>5. k \in 1..size /\ base + k - 1 = b + j - 1 /\ p + k - 1 = o + j - 1
        BY <4>6
      <4> QED BY <2>7, <4>4, <4>5 DEF b
    <3> QED BY <3>1, <3>2
  <2>12. base..(base + size - 1) \subseteq DOMAIN r.mem
    <3> SUFFICES ASSUME NEW x \in base..(base + size - 1) PROVE x \in DOMAIN r.mem
      OBVIOUS
    <3>1. x - base + 1 \in 1..size /\ base + (x - base + 1) - 1 = x
      BY <2>6
    <3> QED BY <2>7, <3>1
  <2>13. From(a, list) <= base /\ From(a, list) \in Nat /\ num = Len(c)
         /\ \A x \in 0..(From(a, list) - 1) : x \in DOMAIN m => x \in DOMAIN r.mem
                                              /\ r.mem[x] = m[x]
    BY <2>1, <2>5, <2>6, <2>7
  <2>14. Ready(at)
    BY <2>1, <2>6, <2>10, <2>11, <2>12, <2>13
  <2> HIDE DEF Ready, Grown
  <2> QED BY <1>4, <2>14
<1>7. Grown
  <2> HIDE DEF Grown
  <2> QED BY <1>5, <1>6 DEF Growing
<1> QED BY <1>7 DEF added

\* s is what a new list of the abbreviations c makes of the memory and the allocator.
IsCopied(s, m, a, c) ==
  /\ s.list \in Lists /\ s.alloc \in Marks /\ a.current <= s.alloc.current
  /\ Growing(s.mem, s.alloc, s.list, c)
  /\ a.current <= From(s.alloc, s.list)
  /\ SameBelow(a.current, m, s.mem)

\* Adding to a list that was copied.
LEMMA Recopied ==
  ASSUME NEW m, NEW a \in Marks, NEW was, NEW c, NEW s, NEW new,
         IsCopied(was, m, a, c), IsAdded(s, was.mem, was.alloc, was.list, c, new)
  PROVE  IsCopied(s, m, a, Append(c, new))
<1> DEFINE low == a.current
           x1 == was.alloc.current
           x2 == s.alloc.current
           x3 == From(was.alloc, was.list)
           x4 == s.list.abbrevs
<1>1. s.list.abbrevs \in Nat
  BY DEF IsAdded, ListOK
<1>2. From(s.alloc, s.list) = s.list.abbrevs
  BY <1>1 DEF From, Abb!NULL
<1>3. low \in Nat /\ x1 \in Nat /\ x2 \in Nat
  BY DEF IsCopied, IsAdded, Marks
<1>4. x3 \in Nat
  BY <1>3 DEF From, Abb!NULL, IsCopied, Lists
<1>5. low <= x1 /\ x1 <= x2 /\ low <= x3 /\ x3 <= x4
  BY DEF IsCopied, IsAdded
<1>6. SameBelow(low, m, was.mem) /\ SameBelow(x3, was.mem, s.mem)
  BY DEF IsCopied, IsAdded
<1> HIDE DEF low, x1, x2, x3
<1>7. low <= x2 /\ low <= x4
  BY <1>1, <1>3, <1>4, <1>5
<1>8. SameBelow(low, m, s.mem)
  <2> SUFFICES ASSUME NEW x \in 0..(low - 1),
                      x \in DOMAIN m PROVE x \in DOMAIN s.mem /\ s.mem[x] = m[x]
    BY DEF SameBelow
  <2>1. x \in 0..(x3 - 1)
    BY <1>3, <1>4, <1>5
  <2> QED BY <1>6, <2>1 DEF SameBelow
<1>9. s.list \in Lists /\ s.alloc \in Marks /\ Growing(s.mem, s.alloc, s.list, Append(c, new))
  BY DEF IsAdded, Growing
<1> QED BY <1>2, <1>7, <1>8, <1>9 DEF IsCopied, low, x2

\* A new block gets the abbreviations of its block id, behind what was there.
LEMMA Copied ==
  ASSUME NEW b, NEW moves, NEW c, NEW end,
         (map[b] = Abb!NoList /\ c = <<>>) \/ ListOK(mem[Abb!Perm], map[b], c, end),
         alloc[Abb!Temp] \in Marks
  PROVE  IsCopied(Abb!CopyAbbrevs(b, moves), mem[Abb!Temp], alloc[Abb!Temp], c)
<1> DEFINE N == map[b].num_abbrevs
           low == alloc[Abb!Temp].current
           first == [mem |-> mem[Abb!Temp], alloc |-> alloc[Abb!Temp], list |-> Abb!NoList]
           step(i, was) == Abb!AddAbbrev(was.mem, was.alloc, was.list,
                                         Abb!Read(mem[Abb!Perm], map[b], i), i \in moves)
           W(f, k) == f = [i \in 0..k |-> IF i = 0 THEN first ELSE step(i, f[i - 1])]
           after == CHOOSE f : W(f, N)
           S(i, s) == IsCopied(s, mem[Abb!Temp], alloc[Abb!Temp], SubSeq(c, 1, i))
<1>0. low \in Nat
  BY DEF Marks
<1>1. N = Len(c) /\ N \in Nat /\ c \in Seq(Seq(Int)) /\ SubSeq(c, 1, N) = c
      /\ SubSeq(c, 1, 0) = <<>>
  <2>1. c \in Seq(Seq(Int)) /\ N = Len(c)
    <3>1. CASE map[b] = Abb!NoList /\ c = <<>>
      BY <3>1 DEF Abb!NoList
    <3>2. CASE ListOK(mem[Abb!Perm], map[b], c, end)
      BY <3>2 DEF ListOK
    <3> QED BY <3>1, <3>2
  <2> HIDE DEF N
  <2>2. SubSeq(c, 1, Len(c)) = c
    BY <2>1
  <2>3. SubSeq(c, 1, 0) = <<>>
    BY <2>1
  <2> QED BY <2>1, <2>2, <2>3
<1>2. \A i \in 1..N : Abb!Read(mem[Abb!Perm], map[b], i) = c[i] /\ c[i] \in Seq(Int)
  <2> TAKE i \in 1..N
  <2>1. ListOK(mem[Abb!Perm], map[b], c, end)
    BY <1>1 DEF Abb!NoList
  <2>2. i \in 1..Len(c)
    BY <1>1
  <2>3. Abb!Read(mem[Abb!Perm], map[b], i) = c[i]
    BY <2>1, <2>2, ReadsBack
  <2> QED BY <1>1, <2>2, <2>3
<1>3. Abb!CopyAbbrevs(b, moves) = after[N]
  BY DEF Abb!CopyAbbrevs
<1> HIDE DEF N, step, first
<1>4. \E f : W(f, N)
  <2> DEFINE Good == {k \in 0..N : \E f : W(f, k)}
  <2>1. 0 \in Good
    <3> DEFINE f == [i \in 0..0 |-> first]
    <3>1. W(f, 0)
      OBVIOUS
    <3>2. 0 \in 0..N
      BY <1>1
    <3> HIDE DEF f, W
    <3> QED BY <3>1, <3>2
  <2>2. ASSUME NEW k \in 0..N, k < N, k \in Good PROVE k + 1 \in Good
    <3>1. PICK f : W(f, k)
      BY <2>2
    <3> DEFINE y == step(k + 1, f[k])
               h == [i \in 0..(k + 1) |-> IF i = k + 1 THEN y ELSE f[i]]
    <3>2. \A i \in 0..k : f[i] = IF i = 0 THEN first ELSE step(i, f[i - 1])
      BY <3>1
    <3>3. h[k + 1] = y /\ (\A i \in 0..k : h[i] = f[i]) /\ DOMAIN h = 0..(k + 1)
          /\ h = [i \in 0..(k + 1) |-> h[i]]
      OBVIOUS
    <3> HIDE DEF h
    <3>4. ASSUME NEW i \in 0..(k + 1) PROVE h[i] = IF i = 0 THEN first ELSE step(i, h[i - 1])
      <4>1. CASE i = k + 1
        <5>1. i - 1 = k /\ k \in 0..k /\ i # 0
          BY <4>1
        <5>2. h[i - 1] = f[k]
          BY <3>3, <5>1
        <5> QED BY <3>3, <4>1, <5>1, <5>2
      <4>2. CASE i # k + 1
        <5>1. i \in 0..k
          BY <4>2
        <5>2. i # 0 => i - 1 \in 0..k
          BY <5>1
        <5> QED BY <3>2, <3>3, <5>1, <5>2
      <4> QED BY <4>1, <4>2
    <3>5. W(h, k + 1)
      BY <3>3, <3>4
    <3>6. k + 1 \in 0..N
      BY <1>1, <2>2
    <3> HIDE DEF W
    <3> QED BY <3>5, <3>6
  <2>3. N \in Good
    <3>1. N \in 0..N
      BY <1>1
    <3> HIDE DEF Good
    <3> QED BY <1>1, <2>1, <2>2, <3>1, NatSetUpTo
  <2> HIDE DEF W
  <2> QED BY <2>3
<1>5. W(after, N)
  <2> HIDE DEF W
  <2> QED BY <1>4
<1> HIDE DEF after
<1>6. after[0] = first /\ \A i \in 1..N : after[i] = step(i, after[i - 1])
  <2>1. 0 \in 0..N /\ \A i \in 1..N : i \in 0..N /\ i # 0
    BY <1>1
  <2> QED BY <1>5, <2>1
<1> HIDE DEF W
<1>7. S(0, after[0])
  <2>1. /\ first.alloc = alloc[Abb!Temp] /\ first.mem = mem[Abb!Temp] /\ first.list = Abb!NoList
    BY DEF first
  <2>2. From(first.alloc, first.list) = low
    BY <2>1 DEF From, Abb!NoList, Abb!NULL
  <2>3. Growing(first.mem, first.alloc, first.list, SubSeq(c, 1, 0))
    BY <1>1, <2>1 DEF Growing
  <2>4. low <= low /\ SameBelow(low, mem[Abb!Temp], first.mem)
    BY <1>0, <2>1 DEF SameBelow
  <2>5. Abb!NoList \in Lists
    BY DEF Abb!NoList, Lists, Abb!NULL
  <2> QED BY <1>6, <2>1, <2>2, <2>3, <2>4, <2>5 DEF IsCopied
<1>8. ASSUME NEW i \in 0..N, i < N, S(i, after[i]) PROVE S(i + 1, after[i + 1])
  <2> DEFINE was == after[i]
             new == c[i + 1]
             prefix == SubSeq(c, 1, i)
             move == (i + 1) \in moves
             s == Abb!AddAbbrev(was.mem, was.alloc, was.list, new, move)
  <2>1. i + 1 \in 1..N /\ (i + 1) - 1 = i
    BY <1>1, <1>8
  <2>2. after[i + 1] = s
    <3>1. after[i + 1] = step(i + 1, after[i])
      BY <1>6, <2>1
    <3>2. Abb!Read(mem[Abb!Perm], map[b], i + 1) = c[i + 1]
      BY <1>2, <2>1
    <3> QED BY <3>1, <3>2 DEF step
  <2>3. new \in Seq(Int) /\ move \in BOOLEAN
    BY <1>2, <2>1
  <2>4. Append(prefix, new) = SubSeq(c, 1, i + 1)
    BY <1>1, <1>8
  <2>5. /\ was.alloc \in Marks /\ low <= was.alloc.current
        /\ Growing(was.mem, was.alloc, was.list, prefix)
        /\ low <= From(was.alloc, was.list) /\ SameBelow(low, mem[Abb!Temp], was.mem)
    BY <1>8 DEF IsCopied
  <2>6. was.alloc.current \in Nat /\ IsCopied(was, mem[Abb!Temp], alloc[Abb!Temp], prefix)
    BY <1>8, <2>5 DEF Marks
  <2> HIDE DEF was, new, prefix, move
  <2>7. IsAdded(s, was.mem, was.alloc, was.list, prefix, new)
    BY <2>3, <2>5, <2>6, Added
  <2> HIDE DEF s
  <2>8. IsCopied(s, mem[Abb!Temp], alloc[Abb!Temp], Append(prefix, new))
    BY <2>6, <2>7, Recopied
  <2> QED BY <2>2, <2>4, <2>8
<1>9. S(N, after[N])
  <2> DEFINE Good == {i \in 0..N : S(i, after[i])}
  <2> HIDE DEF S
  <2>1. 0 \in Good
    BY <1>1, <1>7
  <2>2. ASSUME NEW i \in 0..N, i < N, i \in Good PROVE i + 1 \in Good
    <3>1. i + 1 \in 0..N
      BY <1>1, <2>2
    <3> QED BY <1>8, <2>2, <3>1
  <2>3. N \in Good
    <3>1. N \in 0..N
      BY <1>1
    <3> HIDE DEF Good
    <3> QED BY <1>1, <2>1, <2>2, <3>1, NatSetUpTo
  <2> QED BY <2>3
<1> QED BY <1>1, <1>3, <1>9

-----------------------------------------------------------------------------
(* The lists of the module's allocator.                                    *)

\* The list at hand of a block id, and where it ends: the block id that was appended to
\* last owns the last allocation, the lists of the others end before it.
OfId(b, m, a, list, c, app) ==
  \/ list = Abb!NoList /\ c = <<>>
  \/ /\ app # <<>>
     /\ \E end : /\ ListOK(m, list, c, end)
                 /\ IF b = app[Len(app)] THEN list.abbrevs = a.last_alloc /\ end = a.current
                    ELSE end <= a.last_alloc

\* The lists mp of the block ids, with the abbreviations cs, after appending to app.
MapOK(m, a, mp, cs, app) ==
  /\ a \in Marks /\ mp \in [BlockIds -> Lists] /\ cs \in [BlockIds -> Seq(Seq(Int))]
  /\ app \in Seq(BlockIds)
  /\ app # <<>> => a.last_alloc \in Nat /\ a.last_alloc <= a.current
  /\ \A b \in BlockIds : OfId(b, m, a, mp[b], cs[b], app)

\* A list begins before its end.
LEMMA ListLong ==
  ASSUME NEW m, NEW list, NEW c, NEW end, ListOK(m, list, c, end)
  PROVE  list.abbrevs \in Nat /\ end \in Nat /\ list.abbrevs < end
<1> DEFINE p == list.abbrevs
<1>1. p \in Nat /\ end \in Nat /\ Len(c) \in Nat /\ Len(c) >= 1
  BY DEF ListOK
<1>2. PICK at : Places(at, p, c, end)
  BY DEF ListOK
<1>3. 1 \in 1..(Len(c) + 1)
  BY <1>1
<1>4. p + 2 * Len(c) <= end
  BY <1>2, <1>3, <1>1 DEF Places
<1> HIDE DEF p
<1>5. p < end
  BY <1>1, <1>4
<1> QED BY <1>1, <1>5 DEF p

\* The list of a block id can grow unless another one was appended to since.
LEMMA MapGrows ==
  ASSUME NEW m, NEW a, NEW mp, NEW cs, NEW app, MapOK(m, a, mp, cs, app), NEW b \in BlockIds
  PROVE  /\ Abb!Growable(a, mp[b].abbrevs) => Growing(m, a, mp[b], cs[b])
         /\ ~Abb!Growable(a, mp[b].abbrevs) => cs[b] # <<>> /\ app[Len(app)] # b
<1> DEFINE list == mp[b]
           c == cs[b]
<1>1. OfId(b, m, a, list, c, app)
  BY DEF MapOK
<1> HIDE DEF list, c
<1>2. CASE list = Abb!NoList /\ c = <<>>
  BY <1>2 DEF Abb!Growable, Growing, Abb!NoList, list, c
<1>3. CASE app # <<>> /\ \E end : /\ ListOK(m, list, c, end)
                 /\ IF b = app[Len(app)] THEN list.abbrevs = a.last_alloc /\ end = a.current
                    ELSE end <= a.last_alloc
  <2>1. PICK end : /\ ListOK(m, list, c, end)
                   /\ IF b = app[Len(app)] THEN list.abbrevs = a.last_alloc /\ end = a.current
                      ELSE end <= a.last_alloc
    BY <1>3
  <2>2. list.abbrevs \in Nat /\ end \in Nat /\ list.abbrevs < end /\ c # <<>>
    BY <2>1, ListLong DEF ListOK
  <2>3. CASE b = app[Len(app)]
    BY <2>1, <2>3 DEF Abb!Growable, Growing, list, c
  <2>4. CASE b # app[Len(app)]
    <3>1. a.last_alloc \in Nat
      BY <1>3 DEF MapOK
    <3>2. list.abbrevs # a.last_alloc /\ list.abbrevs # Abb!NULL
      BY <2>1, <2>2, <2>4, <3>1 DEF Abb!NULL
    <3> QED BY <2>2, <2>4, <3>2 DEF Abb!Growable, list, c
  <2> QED BY <2>3, <2>4
<1> QED BY <1>1, <1>2, <1>3 DEF OfId

\* The list of a block id grows: it is the last of its allocator now, and the others are
\* as they were.
LEMMA MapAdded ==
  ASSUME NEW m, NEW a, NEW mp, NEW cs, NEW app, MapOK(m, a, mp, cs, app), NEW b \in BlockIds,
         Abb!Growable(a, mp[b].abbrevs), NEW new \in Seq(Int), NEW s,
         IsAdded(s, m, a, mp[b], cs[b], new)
  PROVE  MapOK(s.mem, s.alloc, [mp EXCEPT ![b] = s.list], [cs EXCEPT ![b] = Append(@, new)],
               Append(app, b))
<1> DEFINE mp2 == [mp EXCEPT ![b] = s.list]
           cs2 == [cs EXCEPT ![b] = Append(@, new)]
           app2 == Append(app, b)
<1>1. /\ a \in Marks /\ mp \in [BlockIds -> Lists] /\ cs \in [BlockIds -> Seq(Seq(Int))]
      /\ app \in Seq(BlockIds)
      /\ app # <<>> => a.last_alloc \in Nat /\ a.last_alloc <= a.current
      /\ \A i \in BlockIds : OfId(i, m, a, mp[i], cs[i], app)
  BY DEF MapOK
<1>2. /\ s.list \in Lists /\ s.alloc \in Marks
      /\ a.current <= s.alloc.current /\ s.alloc.last_alloc = s.list.abbrevs
      /\ ListOK(s.mem, s.list, Append(cs[b], new), s.alloc.current)
      /\ From(a, mp[b]) <= s.list.abbrevs
      /\ SameBelow(From(a, mp[b]), m, s.mem)
  BY DEF IsAdded
<1>3. /\ mp2 \in [BlockIds -> Lists] /\ mp2[b] = s.list
      /\ \A i \in BlockIds : i # b => mp2[i] = mp[i]
  BY <1>1, <1>2
<1>4. /\ cs2 \in [BlockIds -> Seq(Seq(Int))] /\ cs2[b] = Append(cs[b], new)
      /\ \A i \in BlockIds : i # b => cs2[i] = cs[i]
  <2>1. cs[b] \in Seq(Seq(Int))
    BY <1>1
  <2>2. Append(cs[b], new) \in Seq(Seq(Int))
    BY <2>1
  <2> QED BY <1>1, <2>2
<1>5. app2 \in Seq(BlockIds) /\ app2 # <<>> /\ app2[Len(app2)] = b
  <2>1. /\ app2 \in Seq(BlockIds) /\ Len(app) \in Nat
        /\ Len(app2) = Len(app) + 1 /\ app2[Len(app) + 1] = b
    BY <1>1, SeqAppend
  <2>2. app2 # <<>>
    BY <2>1
  <2> QED BY <2>1, <2>2
<1> HIDE DEF mp2, cs2, app2
<1>6. s.list.abbrevs \in Nat /\ s.alloc.current \in Nat /\ s.list.abbrevs < s.alloc.current
  BY <1>2, ListLong
<1>7. a.current \in Nat /\ From(a, mp[b]) \in Nat
  BY <1>1 DEF Marks, Lists, From, Abb!NULL
<1>8. OfId(b, s.mem, s.alloc, mp2[b], cs2[b], app2)
  BY <1>2, <1>3, <1>4, <1>5 DEF OfId
<1>9. ASSUME NEW i \in BlockIds, i # b PROVE OfId(i, s.mem, s.alloc, mp2[i], cs2[i], app2)
  <2>1. CASE mp[i] = Abb!NoList /\ cs[i] = <<>>
    BY <1>3, <1>4, <1>9, <2>1 DEF OfId
  <2>2. CASE ~(mp[i] = Abb!NoList /\ cs[i] = <<>>)
    <3>1. OfId(i, m, a, mp[i], cs[i], app)
      BY <1>1
    <3>2. PICK end : /\ app # <<>> /\ ListOK(m, mp[i], cs[i], end)
                     /\ IF i = app[Len(app)] THEN mp[i].abbrevs = a.last_alloc /\ end = a.current
                        ELSE end <= a.last_alloc
      BY <2>2, <3>1 DEF OfId
    <3>3. end \in Nat /\ mp[i].abbrevs \in Nat
      BY <3>2, ListLong
    <3>4. end <= From(a, mp[b])
      <4>1. CASE mp[b].abbrevs = Abb!NULL
        <5>1. From(a, mp[b]) = a.current
          BY <4>1 DEF From
        <5>2. a.last_alloc \in Nat /\ a.last_alloc <= a.current
          BY <1>1, <3>2
        <5> QED BY <1>7, <3>2, <3>3, <5>1, <5>2
      <4>2. CASE mp[b].abbrevs # Abb!NULL
        <5>1. From(a, mp[b]) = a.last_alloc
          BY <4>2 DEF From, Abb!Growable
        <5>2. app[Len(app)] = b
          <6>1. OfId(b, m, a, mp[b], cs[b], app)
            BY <1>1
          <6>2. PICK e : /\ ListOK(m, mp[b], cs[b], e)
                         /\ b # app[Len(app)] => e <= a.last_alloc
            BY <4>2, <6>1 DEF OfId, Abb!NoList
          <6>3. mp[b].abbrevs \in Nat /\ e \in Nat /\ mp[b].abbrevs < e
            BY <6>2, ListLong
          <6>4. mp[b].abbrevs = a.last_alloc
            BY <4>2 DEF Abb!Growable
          <6> QED BY <6>2, <6>3, <6>4
        <5> QED BY <1>9, <3>2, <5>1, <5>2
      <4> QED BY <4>1, <4>2
    <3>5. end <= s.alloc.last_alloc
      BY <1>2, <1>6, <1>7, <3>3, <3>4
    <3>6. \A x \in mp[i].abbrevs..(end - 1) : x \in DOMAIN s.mem /\ s.mem[x] = m[x]
      <4> TAKE x \in mp[i].abbrevs..(end - 1)
      <4>1. x \in DOMAIN m
        BY <3>2 DEF ListOK
      <4>2. x \in 0..(From(a, mp[b]) - 1)
        BY <1>7, <3>3, <3>4
      <4> QED BY <1>2, <4>1, <4>2 DEF SameBelow
    <3>7. ListOK(s.mem, mp[i], cs[i], end)
      BY <3>2, <3>6, ListKept
    <3> QED BY <1>3, <1>4, <1>5, <1>9, <3>5, <3>7 DEF OfId
  <2> QED BY <2>1, <2>2
<1>10. MapOK(s.mem, s.alloc, mp2, cs2, app2)
  <2>1. s.alloc.last_alloc \in Nat /\ s.alloc.last_alloc <= s.alloc.current
    BY <1>2, <1>6
  <2> QED BY <1>2, <1>3, <1>4, <1>5, <1>8, <1>9, <2>1 DEF MapOK
<1> QED BY <1>10 DEF mp2, cs2, app2

-----------------------------------------------------------------------------
(* The lists of the temporary allocator.                                   *)

\* An open block.
Opens == [id : BlockIds \cup {Abb!PN_BLOCKID_BLOCKINFO}, list : Lists,
          reloc_infos : Nat \cup {Abb!NULL}, mark : Marks,
          latest : {"none", "abbrevs", "record"}]

\* What an open block e, with the abbreviations c, has below its reach r: nothing, or its
\* list as the last allocation, or behind its list the record that it read last.
Lies(m, r, e, c) ==
  \/ /\ e.latest = "none" /\ e.list = Abb!NoList /\ c = <<>> /\ e.reloc_infos = Abb!NULL
  \/ /\ e.latest = "abbrevs"
     /\ ListOK(m, e.list, c, r.current) /\ e.list.abbrevs = r.last_alloc
     /\ e.reloc_infos = Abb!NULL \/ e.reloc_infos < r.last_alloc
  \/ /\ e.latest = "record"
     /\ r.last_alloc \in Nat /\ r.last_alloc < r.current /\ e.mark.current <= r.last_alloc
     /\ \/ e.list = Abb!NoList /\ c = <<>>
        \/ \E end : ListOK(m, e.list, c, end) /\ end <= r.last_alloc
     /\ e.reloc_infos \in {Abb!NULL, r.last_alloc}

\* Up to where the list of the d-th open block may reach: the allocator, or the mark that
\* was taken when the next block began.
Reach(a, ls, d) == IF d = Len(ls) THEN a ELSE ls[d + 1].mark

\* The list of the d-th open block lies between its mark and its reach.
LocalOK(m, a, ls, cs, d) ==
  /\ Lies(m, Reach(a, ls, d), ls[d], cs[d])
  /\ ls[d].mark.current <= From(Reach(a, ls, d), ls[d].list)
  /\ ls[d].mark.current <= Reach(a, ls, d).current
  /\ \A e \in d..Len(ls) : ls[d].mark.current <= ls[e].mark.current

\* The lists ls of the open blocks, with the abbreviations cs.
LocalsOK(m, a, ls, cs) ==
  /\ a \in Marks /\ ls \in Seq(Opens) /\ cs \in Seq(Seq(Seq(Int)))
  /\ Len(cs) = Len(ls)
  /\ \A d \in 1..Len(ls) : LocalOK(m, a, ls, cs, d)

\* A list is as it was where the cells below its end are.
LEMMA ListBelow ==
  ASSUME NEW m, NEW new, NEW list, NEW c, NEW end, ListOK(m, list, c, end),
         NEW low \in Nat, end <= low, SameBelow(low, m, new)
  PROVE  ListOK(new, list, c, end)
<1>1. list.abbrevs \in Nat /\ end \in Nat
  BY ListLong
<1>2. \A x \in list.abbrevs..(end - 1) : x \in DOMAIN new /\ new[x] = m[x]
  <2> TAKE x \in list.abbrevs..(end - 1)
  <2>1. x \in DOMAIN m
    BY DEF ListOK
  <2>2. x \in 0..(low - 1)
    BY <1>1
  <2> QED BY <2>1, <2>2 DEF SameBelow
<1> QED BY <1>2, ListKept

\* What a block has is as it was where the cells below its reach are.
LEMMA LiesKept ==
  ASSUME NEW m, NEW new, NEW a \in Marks, NEW e, NEW c, Lies(m, a, e, c),
         NEW low \in Nat, a.current <= low, SameBelow(low, m, new)
  PROVE  Lies(new, a, e, c)
<1>1. CASE e.latest = "none"
  BY <1>1 DEF Lies
<1>2. CASE e.latest = "abbrevs"
  <2>1. ListOK(m, e.list, c, a.current)
    BY <1>2 DEF Lies
  <2>2. ListOK(new, e.list, c, a.current)
    BY <2>1, ListBelow
  <2> QED BY <1>2, <2>2 DEF Lies
<1>3. CASE e.latest = "record"
  <2>1. a.last_alloc \in Nat /\ a.last_alloc < a.current /\ a.current \in Nat
    BY <1>3 DEF Lies, Marks
  <2>2. ASSUME NEW end, ListOK(m, e.list, c, end), end <= a.last_alloc
        PROVE  ListOK(new, e.list, c, end)
    <3>1. end \in Nat
      BY <2>2, ListLong
    <3>2. end <= low
      BY <2>1, <2>2, <3>1
    <3> QED BY <2>2, <3>2, ListBelow
  <2> QED BY <1>3, <2>2 DEF Lies
<1> QED BY <1>1, <1>2, <1>3 DEF Lies

\* What the parts of LocalsOK are.
LEMMA LocalsTypes ==
  ASSUME NEW m, NEW a, NEW ls, NEW cs, LocalsOK(m, a, ls, cs)
  PROVE  /\ Len(ls) \in Nat /\ Len(cs) = Len(ls) /\ a.current \in Nat
         /\ \A d \in 1..Len(ls) :
              /\ ls[d] \in Opens /\ ls[d].list \in Lists /\ ls[d].mark \in Marks
              /\ ls[d].mark.current \in Nat
              /\ cs[d] \in Seq(Seq(Int)) /\ Reach(a, ls, d) \in Marks
              /\ Reach(a, ls, d).current \in Nat
<1>1. /\ a \in Marks /\ ls \in Seq(Opens) /\ cs \in Seq(Seq(Seq(Int)))
      /\ Len(cs) = Len(ls)
  BY DEF LocalsOK
<1>2. Len(ls) \in Nat /\ \A d \in 1..Len(ls) : ls[d] \in Opens
  BY <1>1
<1>3. \A d \in 1..Len(ls) : cs[d] \in Seq(Seq(Int))
  BY <1>1
<1>4. \A d \in 1..Len(ls) : ls[d].list \in Lists /\ ls[d].mark \in Marks
  BY <1>2 DEF Opens
<1>5. \A d \in 1..Len(ls) : Reach(a, ls, d) \in Marks
  <2> TAKE d \in 1..Len(ls)
  <2>1. d # Len(ls) => d + 1 \in 1..Len(ls)
    BY <1>2
  <2> QED BY <1>1, <1>4, <2>1 DEF Reach
<1>6. \A k \in Marks : k.current \in Nat
  BY DEF Marks
<1> QED BY <1>1, <1>2, <1>3, <1>4, <1>5, <1>6

\* The innermost block changes, above its mark.
LEMMA TopChanged ==
  ASSUME NEW m, NEW a, NEW ls, NEW cs, LocalsOK(m, a, ls, cs), ls # <<>>,
         NEW new, NEW k \in Marks, NEW e2 \in Opens, NEW c2 \in Seq(Seq(Int)),
         e2.mark = ls[Len(ls)].mark, Lies(new, k, e2, c2),
         e2.mark.current <= From(k, e2.list), e2.mark.current <= k.current,
         SameBelow(e2.mark.current, m, new)
  PROVE  LocalsOK(new, k, [ls EXCEPT ![Len(ls)] = e2], [cs EXCEPT ![Len(ls)] = c2])
<1> DEFINE depth == Len(ls)
           ls2 == [ls EXCEPT ![depth] = e2]
           cs2 == [cs EXCEPT ![depth] = c2]
           low == ls[depth].mark.current
<1>1. /\ depth \in Nat /\ Len(cs) = depth /\ a.current \in Nat
      /\ \A d \in 1..depth :
           /\ ls[d] \in Opens /\ ls[d].list \in Lists /\ ls[d].mark \in Marks
           /\ ls[d].mark.current \in Nat
           /\ cs[d] \in Seq(Seq(Int)) /\ Reach(a, ls, d) \in Marks
           /\ Reach(a, ls, d).current \in Nat
  BY LocalsTypes
<1>2. /\ a \in Marks /\ ls \in Seq(Opens) /\ cs \in Seq(Seq(Seq(Int)))
      /\ \A d \in 1..depth : LocalOK(m, a, ls, cs, d)
  BY DEF LocalsOK
<1>3. depth \in 1..depth /\ depth \in DOMAIN ls /\ depth \in DOMAIN cs /\ DOMAIN ls = 1..depth
      /\ DOMAIN cs = 1..depth
  BY <1>1, <1>2
<1>4. low \in Nat /\ low = e2.mark.current
  BY <1>1, <1>3
<1> HIDE DEF depth
<1>5. /\ ls2 \in Seq(Opens) /\ Len(ls2) = depth /\ ls2[depth] = e2
      /\ \A d \in 1..depth : d # depth => ls2[d] = ls[d]
  <2>1. Len(ls) = depth
    BY DEF depth
  <2> QED BY <1>2, <1>3, <2>1, SeqUpdate
<1>6. /\ cs2 \in Seq(Seq(Seq(Int))) /\ Len(cs2) = depth /\ cs2[depth] = c2
      /\ \A d \in 1..depth : d # depth => cs2[d] = cs[d]
  BY <1>1, <1>2, <1>3, SeqUpdate
<1>l. Len(ls) = depth
  BY DEF depth
<1> HIDE DEF ls2, cs2
<1>7. \A d \in 1..depth : ls2[d].mark = ls[d].mark
  BY <1>5, <1>l
<1>8. \A d \in 1..depth : d # depth => Reach(k, ls2, d) = Reach(a, ls, d)
                           /\ Reach(a, ls, d) = ls[d + 1].mark
  <2> TAKE d \in 1..depth
  <2> HAVE d # depth
  <2>1. d + 1 \in 1..depth
    BY <1>1
  <2> QED BY <1>5, <1>7, <1>l, <2>1 DEF Reach
<1>9. ASSUME NEW d \in 1..depth, d # depth PROVE LocalOK(new, k, ls2, cs2, d)
  <2>1. LocalOK(m, a, ls, cs, d) /\ LocalOK(m, a, ls, cs, d + 1) /\ depth \in (d + 1)..depth
        /\ d + 1 \in 1..depth
    <3>1. depth \in (d + 1)..depth /\ d + 1 \in 1..depth
      BY <1>1, <1>9
    <3> QED BY <1>2, <3>1
  <2> DEFINE q == Reach(a, ls, d)
  <2>2. q \in Marks /\ q.current \in Nat /\ q = ls[d + 1].mark
    BY <1>1, <1>8, <1>9
  <2>3. q.current <= low
    BY <1>l, <2>1, <2>2 DEF LocalOK
  <2>4. Lies(m, q, ls[d], cs[d])
    BY <2>1 DEF LocalOK
  <2> HIDE DEF q, low
  <2>5. Lies(new, q, ls[d], cs[d])
    BY <1>4, <2>2, <2>3, <2>4, LiesKept
  <2>6. \A e \in d..depth : e \in 1..depth /\ ls[d].mark.current <= ls[e].mark.current
    BY <1>1, <1>l, <2>1 DEF LocalOK
  <2>7. /\ ls[d].mark.current <= From(q, ls[d].list) /\ ls[d].mark.current <= q.current
    BY <2>1 DEF LocalOK, q
  <2>8. Reach(k, ls2, d) = q /\ ls2[d] = ls[d] /\ cs2[d] = cs[d] /\ Len(ls2) = depth
    BY <1>5, <1>6, <1>8, <1>9 DEF q
  <2> QED BY <1>7, <2>5, <2>6, <2>7, <2>8 DEF LocalOK
<1>10. LocalOK(new, k, ls2, cs2, depth)
  <2>1. Reach(k, ls2, depth) = k
    BY <1>5 DEF Reach
  <2>2. ls2[depth] = e2 /\ cs2[depth] = c2 /\ Len(ls2) = depth /\ low <= low
    BY <1>4, <1>5, <1>6
  <2>3. \A e \in depth..depth : e = depth
    BY <1>1
  <2> HIDE DEF low
  <2> QED BY <1>4, <2>1, <2>2, <2>3 DEF LocalOK
<1>11. LocalsOK(new, k, ls2, cs2)
  BY <1>5, <1>6, <1>9, <1>10 DEF LocalsOK
<1> QED BY <1>11 DEF ls2, cs2, depth

\* The block at hand, when the list of the innermost block can grow.
LEMMA TopLies ==
  ASSUME NEW m, NEW a, NEW ls, NEW cs, LocalsOK(m, a, ls, cs), ls # <<>>
  PROVE  LET e == ls[Len(ls)] IN
         /\ e \in Opens /\ cs[Len(ls)] \in Seq(Seq(Int)) /\ a \in Marks
         /\ Lies(m, a, e, cs[Len(ls)])
         /\ e.mark.current <= From(a, e.list) /\ e.mark.current <= a.current
<1>1. Len(ls) \in 1..Len(ls)
  BY DEF LocalsOK
<1>2. ls[Len(ls)] \in Opens /\ cs[Len(ls)] \in Seq(Seq(Int))
  BY <1>1, LocalsTypes
<1> QED BY <1>1, <1>2 DEF LocalsOK, LocalOK, Reach

\* The list of a block can grow unless a record of the block was allocated since.
LEMMA TopGrows ==
  ASSUME NEW m, NEW a \in Marks, NEW e \in Opens, NEW c, Lies(m, a, e, c)
  PROVE  IF Abb!Growable(a, e.list.abbrevs) THEN Growing(m, a, e.list, c)
         ELSE e.list # Abb!NoList /\ e.latest = "record"
<1>1. CASE e.latest = "none"
  BY <1>1 DEF Lies, Growing, Abb!Growable, Abb!NoList
<1>2. CASE e.latest = "abbrevs"
  BY <1>2 DEF Lies, Growing, Abb!Growable
<1>3. CASE e.latest = "record"
  <2>1. CASE e.list = Abb!NoList /\ c = <<>>
    BY <2>1 DEF Growing, Abb!Growable, Abb!NoList
  <2>2. ASSUME NEW end, ListOK(m, e.list, c, end), end <= a.last_alloc
        PROVE  ~Abb!Growable(a, e.list.abbrevs) /\ e.list # Abb!NoList
    <3>1. e.list.abbrevs \in Nat /\ end \in Nat /\ e.list.abbrevs < end /\ a.last_alloc \in Nat
      BY <1>3, <2>2, ListLong DEF Lies
    <3>2. e.list.abbrevs # a.last_alloc /\ e.list.abbrevs # Abb!NULL
      BY <2>2, <3>1 DEF Abb!NULL
    <3> QED BY <3>2 DEF Abb!Growable, Abb!NoList
  <2> QED BY <1>3, <2>1, <2>2 DEF Lies
<1> QED BY <1>1, <1>2, <1>3 DEF Opens

\* The list of the innermost block grows.
LEMMA TopAdded ==
  ASSUME NEW m, NEW a, NEW ls, NEW cs, LocalsOK(m, a, ls, cs), ls # <<>>,
         Abb!Growable(a, ls[Len(ls)].list.abbrevs),
         NEW new \in Seq(Int), NEW s, IsAdded(s, m, a, ls[Len(ls)].list, cs[Len(ls)], new)
  PROVE  LocalsOK(s.mem, s.alloc,
                  [ls EXCEPT ![Len(ls)].list = s.list, ![Len(ls)].latest = "abbrevs"],
                  [cs EXCEPT ![Len(ls)] = Append(@, new)])
<1> DEFINE e == ls[Len(ls)]
           c == cs[Len(ls)]
           e2 == [e EXCEPT !.list = s.list, !.latest = "abbrevs"]
           low == e.mark.current
           from == From(a, e.list)
<1>1. /\ e \in Opens /\ c \in Seq(Seq(Int)) /\ a \in Marks /\ Lies(m, a, e, c)
      /\ low <= from /\ low <= a.current
  BY TopLies
<1>2. /\ s.list \in Lists /\ s.alloc \in Marks
      /\ a.current <= s.alloc.current /\ s.alloc.last_alloc = s.list.abbrevs
      /\ ListOK(s.mem, s.list, Append(c, new), s.alloc.current)
      /\ from <= s.list.abbrevs /\ SameBelow(from, m, s.mem)
  BY DEF IsAdded
<1>3. /\ s.list.abbrevs \in Nat /\ s.alloc.current \in Nat /\ a.current \in Nat
      /\ s.list.abbrevs < s.alloc.current
  BY <1>1, <1>2, ListLong DEF Marks
<1>4. low \in Nat /\ from \in Nat
  <2>1. low \in Nat /\ e.list \in Lists
    BY <1>1 DEF Opens, Marks
  <2> QED BY <1>3, <2>1 DEF From, Lists, Abb!NULL
<1>5. /\ e2 \in Opens /\ e2.list = s.list /\ e2.mark = e.mark /\ e2.latest = "abbrevs"
      /\ e2.reloc_infos = e.reloc_infos
  BY <1>1, <1>2 DEF Opens
<1>6. Append(c, new) \in Seq(Seq(Int))
  BY <1>1
<1>7. From(s.alloc, s.list) = s.list.abbrevs
  BY <1>3 DEF From, Abb!NULL
<1>8. e.reloc_infos = Abb!NULL \/ e.reloc_infos < s.alloc.last_alloc
  <2> DEFINE q == e.reloc_infos
             to == s.list.abbrevs
             top == a.last_alloc
  <2>1. CASE e.latest = "none"
    BY <1>1, <2>1 DEF Lies
  <2>2. CASE e.latest = "abbrevs"
    <3>1. CASE q # Abb!NULL
      <4>1. q \in Nat /\ q < top /\ top = e.list.abbrevs /\ top \in Nat
        BY <1>1, <2>2, <3>1, ListLong DEF Lies, Opens
      <4>2. from = top
        BY <4>1 DEF From, Abb!NULL
      <4> HIDE DEF q, to, top, from
      <4>3. q < to
        BY <1>2, <1>3, <4>1, <4>2 DEF to
      <4> QED BY <1>2, <4>3 DEF q, to
    <3> QED BY <3>1
  <2>3. CASE e.latest = "record"
    <3>1. e.list = Abb!NoList
      <4>1. e.list.abbrevs = Abb!NULL \/ e.list.abbrevs = top
        BY DEF Abb!Growable
      <4>2. ASSUME NEW end, ListOK(m, e.list, c, end), end <= top PROVE FALSE
        <5>1. /\ e.list.abbrevs \in Nat /\ end \in Nat /\ e.list.abbrevs < end
              /\ a.last_alloc \in Nat
          BY <1>1, <2>3, <4>2, ListLong DEF Lies
        <5> QED BY <4>1, <4>2, <5>1 DEF Abb!NULL
      <4> QED BY <1>1, <2>3, <4>2 DEF Lies
    <3>2. from = a.current
      BY <3>1 DEF From, Abb!NoList
    <3>3. q \in {Abb!NULL, top} /\ top \in Nat /\ top < a.current
      BY <1>1, <2>3 DEF Lies
    <3> HIDE DEF q, to, top, from
    <3>4. q = Abb!NULL \/ q < to
      BY <1>2, <1>3, <3>2, <3>3 DEF to
    <3> QED BY <1>2, <3>4 DEF q, to
  <2> QED BY <1>1, <2>1, <2>2, <2>3 DEF Opens
<1>9. Lies(s.mem, s.alloc, e2, Append(c, new))
  BY <1>2, <1>5, <1>8 DEF Lies
<1>10. SameBelow(low, m, s.mem) /\ low <= s.list.abbrevs /\ low <= s.alloc.current
  <2> DEFINE to == s.list.abbrevs
             x5 == a.current
             x6 == s.alloc.current
  <2>1. /\ from \in Nat /\ low \in Nat /\ low <= from /\ to \in Nat /\ from <= to
        /\ x5 \in Nat /\ low <= x5 /\ x6 \in Nat /\ x5 <= x6
    BY <1>1, <1>2, <1>3, <1>4
  <2>2. SameBelow(from, m, s.mem)
    BY <1>2
  <2> HIDE DEF from, low, to, x5, x6
  <2>3. low <= to /\ low <= x6
    BY <2>1
  <2>4. \A x \in 0..(low - 1) : x \in 0..(from - 1)
    BY <2>1
  <2>5. SameBelow(low, m, s.mem)
    BY <2>2, <2>4 DEF SameBelow
  <2> QED BY <2>3, <2>5 DEF to, x6
<1>11. /\ [ls EXCEPT ![Len(ls)].list = s.list, ![Len(ls)].latest = "abbrevs"]
           = [ls EXCEPT ![Len(ls)] = e2]
       /\ [cs EXCEPT ![Len(ls)] = Append(@, new)] = [cs EXCEPT ![Len(ls)] = Append(c, new)]
  <2>1. ls \in Seq(Opens) /\ Len(ls) \in DOMAIN ls
    BY DEF LocalsOK
  <2> QED BY <2>1
<1> HIDE DEF e2, c, low
<1>12. LocalsOK(s.mem, s.alloc, [ls EXCEPT ![Len(ls)] = e2], [cs EXCEPT ![Len(ls)] = Append(c, new)])
  BY <1>2, <1>5, <1>6, <1>7, <1>9, <1>10, TopChanged DEF low
<1> QED BY <1>11, <1>12

\* A record gets a cell at p, or anew where p is NULL, in place or after a move: the
\* allocator's other cells stay as they are.
LEMMA Recorded ==
  ASSUME NEW m, NEW a \in Marks, NEW p, p = Abb!NULL \/ (p \in Nat /\ p < a.current),
         NEW moves \in BOOLEAN
  PROVE  LET r == Abb!Realloc(m, a, p, 1, moves)
             low == IF p = Abb!NULL THEN a.current ELSE p
         IN  /\ r.alloc \in Marks /\ r.p \in Nat /\ r.alloc.last_alloc = r.p
             /\ low <= r.p /\ r.p < r.alloc.current
             /\ SameBelow(low, m, Abb!Write(r.mem, r.alloc.current - 1, <<0>>))
<1> DEFINE size == IF p = Abb!NULL THEN 0 ELSE a.current - p
           above == 100 * (a.current \div 100 + 1)
           base == IF moves THEN above ELSE IF p = Abb!NULL THEN a.current ELSE p
           r == Abb!Realloc(m, a, p, 1, moves)
           low == IF p = Abb!NULL THEN a.current ELSE p
           cells == Abb!Cells(m, p, size)
           rest == Abb!Restrict(m, DOMAIN m \
                                     {i \in DOMAIN m : p # Abb!NULL /\ i >= p /\ i < p + size})
           end == base + size
           w == Abb!Write(r.mem, end, <<0>>)
<1>1. a.current \in Nat /\ above \in Nat /\ a.current < above
  <2>1. \A y \in Nat : 100 * (y \div 100 + 1) \in Nat /\ y < 100 * (y \div 100 + 1)
    OBVIOUS
  <2>2. a.current \in Nat
    BY DEF Marks
  <2> QED BY <2>1, <2>2
<1>2. /\ r.p = base /\ r.alloc = [current |-> end + 1, last_alloc |-> base]
      /\ r.mem = IF p # Abb!NULL /\ base # p THEN Abb!Write(rest, base, cells) ELSE m
  BY DEF Abb!Realloc
<1>3. /\ base \in Nat /\ size \in Nat /\ low \in Nat /\ low <= base /\ end \in Nat /\ base <= end
  <2> HIDE DEF above
  <2> QED BY <1>1 DEF Abb!NULL
<1>4. ASSUME p # Abb!NULL
      PROVE  /\ p = low /\ Len(cells) = size
             /\ \A x \in 0..(low - 1) : x \in DOMAIN m => x \in DOMAIN rest /\ rest[x] = m[x]
  <2>1. p = low /\ p \in Nat
    BY <1>4
  <2>2. Len(cells) = size
    <3> HIDE DEF size
    <3> QED BY <1>3 DEF Abb!Cells
  <2>3. ASSUME NEW x \in 0..(low - 1), x \in DOMAIN m PROVE x \in DOMAIN rest /\ rest[x] = m[x]
    <3>1. ~(x >= p)
      BY <2>1
    <3> QED BY <2>3, <3>1 DEF Abb!Restrict
  <2> QED BY <2>1, <2>2, <2>3
<1> HIDE DEF size, above, base, r, low, cells, rest
<1>5. \A x \in 0..(low - 1) : x \notin base..(base + size - 1) /\ x \notin end..(end + 1 - 1)
  BY <1>3
<1>6. \A x \in 0..(low - 1) : x \in DOMAIN m => x \in DOMAIN r.mem /\ r.mem[x] = m[x]
  <2>1. CASE p # Abb!NULL /\ base # p
    <3>1. r.mem = Abb!Write(rest, base, cells)
      BY <1>2, <2>1
    <3>2. /\ \A x : x \in DOMAIN r.mem <=> x \in DOMAIN rest \/ x \in base..(base + Len(cells) - 1)
          /\ \A x \in DOMAIN rest : x \notin base..(base + Len(cells) - 1) => r.mem[x] = rest[x]
      BY <3>1 DEF Abb!Write
    <3> QED BY <1>4, <1>5, <2>1, <3>2
  <2> QED BY <1>2, <2>1
<1>7. \A x \in 0..(low - 1) : x \in DOMAIN r.mem => x \in DOMAIN w /\ w[x] = r.mem[x]
  <2>1. Len(<<0>>) = 1
    OBVIOUS
  <2> HIDE DEF end
  <2> QED BY <1>5, <2>1 DEF Abb!Write
<1>8. SameBelow(low, m, w)
  BY <1>6, <1>7 DEF SameBelow
<1>9. r.alloc \in Marks /\ r.alloc.last_alloc = base /\ r.alloc.current = end + 1
      /\ r.alloc.current - 1 = end /\ base < end + 1
  <2> HIDE DEF end
  <2> QED BY <1>2, <1>3 DEF Marks
<1> QED BY <1>2, <1>3, <1>8, <1>9 DEF r, low, w

\* A block begins: its list is behind the mark, the lists of the blocks around it are
\* before it.
LEMMA BlockEntered ==
  ASSUME NEW m, NEW a, NEW ls, NEW cs, LocalsOK(m, a, ls, cs), NEW b \in BlockIds,
         NEW c \in Seq(Seq(Int)), NEW s, IsCopied(s, m, a, c)
  PROVE  LocalsOK(s.mem, s.alloc, Append(ls, Abb!Open(b, s.list, a)), Append(cs, c))
<1> DEFINE depth == Len(ls)
           e2 == Abb!Open(b, s.list, a)
           ls2 == Append(ls, e2)
           cs2 == Append(cs, c)
           low == a.current
<1>1. /\ depth \in Nat /\ Len(cs) = depth /\ a.current \in Nat
      /\ \A d \in 1..depth :
           /\ ls[d] \in Opens /\ ls[d].list \in Lists /\ ls[d].mark \in Marks
           /\ ls[d].mark.current \in Nat
           /\ cs[d] \in Seq(Seq(Int)) /\ Reach(a, ls, d) \in Marks
           /\ Reach(a, ls, d).current \in Nat
  BY LocalsTypes
<1>2. /\ a \in Marks /\ ls \in Seq(Opens) /\ cs \in Seq(Seq(Seq(Int)))
      /\ \A d \in 1..depth : LocalOK(m, a, ls, cs, d)
  BY DEF LocalsOK
<1>3. /\ s.list \in Lists /\ s.alloc \in Marks /\ a.current <= s.alloc.current
      /\ Growing(s.mem, s.alloc, s.list, c)
      /\ a.current <= From(s.alloc, s.list)
      /\ SameBelow(a.current, m, s.mem)
  BY DEF IsCopied
<1>4. e2 \in Opens /\ e2.list = s.list /\ e2.mark = a /\ Lies(s.mem, s.alloc, e2, c)
  <2>1. /\ e2.list = s.list /\ e2.mark = a /\ e2.id = b /\ e2.reloc_infos = Abb!NULL
        /\ e2.latest = (IF s.list = Abb!NoList THEN "none" ELSE "abbrevs")
    BY DEF Abb!Open
  <2>2. e2 \in Opens
    BY <1>2, <1>3 DEF Opens, Abb!Open
  <2> HIDE DEF e2
  <2>3. CASE s.list = Abb!NoList /\ c = <<>>
    BY <2>1, <2>2, <2>3 DEF Lies
  <2>4. CASE ListOK(s.mem, s.list, c, s.alloc.current) /\ s.list.abbrevs = s.alloc.last_alloc
    <3>1. s.list # Abb!NoList
      BY <2>4, ListLong DEF Abb!NoList, Abb!NULL
    <3> QED BY <2>1, <2>2, <2>4, <3>1 DEF Lies
  <2> QED BY <1>3, <2>1, <2>2, <2>3, <2>4 DEF Growing
<1> HIDE DEF e2
<1>5. /\ ls2 \in Seq(Opens) /\ Len(ls2) = depth + 1 /\ ls2[depth + 1] = e2
      /\ \A d \in 1..depth : ls2[d] = ls[d]
  BY <1>2, <1>4, SeqAppend
<1>6. /\ cs2 \in Seq(Seq(Seq(Int))) /\ Len(cs2) = depth + 1 /\ cs2[depth + 1] = c
      /\ \A d \in 1..depth : cs2[d] = cs[d]
  BY <1>1, <1>2, SeqAppend
<1>l. Len(ls) = depth
  OBVIOUS
<1> HIDE DEF depth, ls2, cs2
<1>7. ASSUME NEW d \in 1..depth PROVE Reach(s.alloc, ls2, d) = Reach(a, ls, d)
  <2>1. d # depth + 1 /\ (d # depth => d + 1 \in 1..depth)
    BY <1>1
  <2> QED BY <1>4, <1>5, <1>l, <2>1 DEF Reach
<1>8. ASSUME NEW d \in 1..depth PROVE ls[d].mark.current <= low /\ Reach(a, ls, d).current <= low
  <2>1. depth \in 1..depth /\ depth \in d..depth
    BY <1>1
  <2>2. ls[depth].mark.current <= low
    BY <1>2, <1>l, <2>1 DEF LocalOK, Reach
  <2>3. ls[d].mark.current <= ls[depth].mark.current
    BY <1>2, <1>l, <2>1 DEF LocalOK
  <2>4. CASE d = depth
    BY <1>1, <1>l, <2>2, <2>4 DEF Reach
  <2>5. CASE d # depth
    <3>1. d + 1 \in 1..depth /\ depth \in (d + 1)..depth
      BY <1>1, <2>5
    <3>2. ls[d + 1].mark.current <= ls[depth].mark.current /\ Reach(a, ls, d) = ls[d + 1].mark
      BY <1>2, <1>l, <2>5, <3>1 DEF LocalOK, Reach
    <3>3. \A x, y, z \in Nat : x <= y /\ y <= z => x <= z
      OBVIOUS
    <3> QED BY <1>1, <2>1, <2>2, <2>3, <3>1, <3>2, <3>3
  <2> QED BY <2>4, <2>5
<1>9. ASSUME NEW d \in 1..depth PROVE LocalOK(s.mem, s.alloc, ls2, cs2, d)
  <2> DEFINE k == Reach(a, ls, d)
  <2>1. LocalOK(m, a, ls, cs, d)
    BY <1>2
  <2>2. k \in Marks /\ k.current <= low /\ low \in Nat
    BY <1>1, <1>8
  <2>3. Lies(m, k, ls[d], cs[d])
    BY <2>1 DEF LocalOK
  <2>4. SameBelow(low, m, s.mem)
    BY <1>3
  <2>5. /\ ls[d].mark.current <= From(k, ls[d].list) /\ ls[d].mark.current <= k.current
    BY <2>1 DEF LocalOK
  <2>6. Reach(s.alloc, ls2, d) = k
    BY <1>7
  <2>7. ASSUME NEW e \in d..(depth + 1) PROVE ls[d].mark.current <= ls2[e].mark.current
    <3>1. CASE e = depth + 1
      BY <1>4, <1>5, <1>8, <3>1
    <3>2. CASE e # depth + 1
      <4>1. e \in d..depth /\ e \in 1..depth
        <5>1. depth \in Nat
          BY <1>1
        <5> QED BY <3>2, <5>1
      <4> QED BY <1>5, <1>l, <2>1, <4>1 DEF LocalOK
    <3> QED BY <3>1, <3>2
  <2> HIDE DEF k, low
  <2>8. Lies(s.mem, k, ls[d], cs[d])
    BY <2>2, <2>3, <2>4, LiesKept
  <2> QED BY <1>5, <1>6, <2>5, <2>6, <2>7, <2>8 DEF LocalOK
<1>10. LocalOK(s.mem, s.alloc, ls2, cs2, depth + 1)
  <2>1. Reach(s.alloc, ls2, depth + 1) = s.alloc
    BY <1>5 DEF Reach
  <2>2. \A e \in (depth + 1)..(depth + 1) : e = depth + 1
    BY <1>1
  <2>3. low <= low
    BY <1>1
  <2> QED BY <1>3, <1>4, <1>5, <1>6, <2>1, <2>2, <2>3 DEF LocalOK
<1>11. LocalsOK(s.mem, s.alloc, ls2, cs2)
  <2>1. \A d \in 1..(depth + 1) : d # depth + 1 => d \in 1..depth
    BY <1>1
  <2> QED BY <1>3, <1>5, <1>6, <1>9, <1>10, <2>1 DEF LocalsOK
<1> QED BY <1>11 DEF ls2, cs2, e2

\* A block ends: the allocator goes back to its mark, and what the blocks around it had
\* is below.
LEMMA BlockLeft ==
  ASSUME NEW m, NEW a, NEW ls, NEW cs, LocalsOK(m, a, ls, cs), ls # <<>>
  PROVE  LocalsOK(Abb!Kept(m, ls[Len(ls)].mark), ls[Len(ls)].mark, Abb!Front(ls), Abb!Front(cs))
<1> DEFINE depth == Len(ls)
           k == ls[depth].mark
           m2 == Abb!Kept(m, k)
           ls2 == Abb!Front(ls)
           cs2 == Abb!Front(cs)
           low == k.current
<1>1. /\ depth \in Nat /\ Len(cs) = depth /\ a.current \in Nat
      /\ \A d \in 1..depth :
           /\ ls[d] \in Opens /\ ls[d].list \in Lists /\ ls[d].mark \in Marks
           /\ ls[d].mark.current \in Nat
           /\ cs[d] \in Seq(Seq(Int)) /\ Reach(a, ls, d) \in Marks
           /\ Reach(a, ls, d).current \in Nat
  BY LocalsTypes
<1>2. /\ a \in Marks /\ ls \in Seq(Opens) /\ cs \in Seq(Seq(Seq(Int)))
      /\ \A d \in 1..depth : LocalOK(m, a, ls, cs, d)
  BY DEF LocalsOK
<1>3. depth \in 1..depth /\ depth - 1 \in 0..depth /\ depth - 1 \in Nat
  BY <1>1, <1>2
<1>4. /\ ls2 = SubSeq(ls, 1, depth - 1) /\ cs2 = SubSeq(cs, 1, depth - 1)
  BY <1>1 DEF Abb!Front
<1>5. k \in Marks /\ low \in Nat
  BY <1>1, <1>3
<1>6. SameBelow(low, m, m2)
  <2> SUFFICES ASSUME NEW x \in 0..(low - 1), x \in DOMAIN m PROVE x \in DOMAIN m2 /\ m2[x] = m[x]
    BY DEF SameBelow
  <2>1. x < k.current
    BY <1>5
  <2> QED BY <2>1 DEF Abb!Kept, Abb!Restrict
<1>l. Len(ls) = depth
  OBVIOUS
<1> HIDE DEF depth, m2
<1>7. /\ ls2 \in Seq(Opens) /\ Len(ls2) = depth - 1 /\ \A d \in 1..(depth - 1) : ls2[d] = ls[d]
  BY <1>2, <1>3, <1>4, <1>l, SeqPrefix
<1>8. /\ cs2 \in Seq(Seq(Seq(Int))) /\ Len(cs2) = depth - 1
      /\ \A d \in 1..(depth - 1) : cs2[d] = cs[d]
  BY <1>1, <1>2, <1>3, <1>4, SeqPrefix
<1> HIDE DEF ls2, cs2
<1>9. ASSUME NEW d \in 1..(depth - 1) PROVE LocalOK(m2, k, ls2, cs2, d)
  <2> DEFINE r == Reach(a, ls, d)
  <2>1. /\ d \in 1..depth /\ d # depth /\ d + 1 \in 1..depth /\ depth \in (d + 1)..depth
        /\ \A e \in d..(depth - 1) : e \in d..depth /\ e \in 1..(depth - 1)
        /\ (d # depth - 1 => d + 1 \in 1..(depth - 1)) /\ (d = depth - 1 => d + 1 = depth)
    BY <1>1
  <2>2. LocalOK(m, a, ls, cs, d) /\ LocalOK(m, a, ls, cs, d + 1)
    BY <1>2, <2>1
  <2>3. r = ls[d + 1].mark /\ r \in Marks
    BY <1>1, <1>l, <2>1 DEF Reach
  <2>4. Reach(k, ls2, d) = r
    BY <1>7, <2>1, <2>3 DEF Reach
  <2>5. r.current <= low
    BY <1>l, <2>1, <2>2, <2>3 DEF LocalOK
  <2>6. Lies(m, r, ls[d], cs[d])
    BY <2>2 DEF LocalOK
  <2>7. /\ ls[d].mark.current <= From(r, ls[d].list) /\ ls[d].mark.current <= r.current
        /\ \A e \in d..depth : ls[d].mark.current <= ls[e].mark.current
    BY <1>l, <2>2 DEF LocalOK
  <2> HIDE DEF r, low
  <2>8. Lies(m2, r, ls[d], cs[d])
    BY <1>5, <1>6, <2>3, <2>5, <2>6, LiesKept
  <2> QED BY <1>7, <1>8, <2>1, <2>4, <2>7, <2>8 DEF LocalOK
<1>10. LocalsOK(m2, k, ls2, cs2)
  BY <1>5, <1>7, <1>8, <1>9 DEF LocalsOK
<1> QED BY <1>10 DEF m2, ls2, cs2, depth

-----------------------------------------------------------------------------
(* The invariant.                                                          *)

\* The inductive invariant: both allocators hold the lists, and what was refused.
AbbrevsInv ==
  /\ DOMAIN mem = {Abb!Temp, Abb!Perm} /\ DOMAIN alloc = {Abb!Temp, Abb!Perm}
  /\ content = [map |-> content.map, locals |-> content.locals]
  /\ block_id \in BlockIds \cup {Abb!NULL} /\ defined \in Nat
  /\ MapOK(mem[Abb!Perm], alloc[Abb!Perm], map, content.map, appended)
  /\ LocalsOK(mem[Abb!Temp], alloc[Abb!Temp], locals, content.locals)
  /\ reading = "blockinfo" => Len(locals) = 1 /\ locals[1].latest # "record"
  /\ Abb!RefusedOnlyWhenOvertaken

\* A change of the lists of the temporary allocator that leaves the module's alone.
LEMMA OnlyLocals ==
  ASSUME AbbrevsInv, NEW m, NEW a, NEW ls, NEW cs,
         LocalsOK(m, a, ls, cs),
         mem' = [mem EXCEPT ![Abb!Temp] = m], alloc' = [alloc EXCEPT ![Abb!Temp] = a],
         locals' = ls, content' = [content EXCEPT !.locals = cs],
         map' = map, block_id' = block_id, appended' = appended, defined' \in Nat,
         reading' = "blocks"
  PROVE  AbbrevsInv'
<1>1. /\ mem'[Abb!Temp] = m /\ mem'[Abb!Perm] = mem[Abb!Perm] /\ DOMAIN mem' = {Abb!Temp, Abb!Perm}
      /\ alloc'[Abb!Temp] = a /\ alloc'[Abb!Perm] = alloc[Abb!Perm]
      /\ DOMAIN alloc' = {Abb!Temp, Abb!Perm}
  BY DEF AbbrevsInv, Abb!Temp, Abb!Perm
<1>2. content' = [map |-> content.map, locals |-> cs]
  BY DEF AbbrevsInv
<1>3. content'.map = content.map /\ content'.locals = cs
  BY <1>2
<1>4. MapOK(mem'[Abb!Perm], alloc'[Abb!Perm], map', content'.map, appended')
  BY <1>1, <1>3 DEF AbbrevsInv
<1>5. LocalsOK(mem'[Abb!Temp], alloc'[Abb!Temp], locals', content'.locals)
  BY <1>1, <1>3
<1>6. Abb!RefusedOnlyWhenOvertaken'
  BY DEF Abb!RefusedOnlyWhenOvertaken
<1>7. block_id' \in BlockIds \cup {Abb!NULL} /\ reading' # "blockinfo"
  BY DEF AbbrevsInv
<1> QED BY <1>1, <1>2, <1>3, <1>4, <1>5, <1>6, <1>7 DEF AbbrevsInv

\* The new abbreviation.
LEMMA NextAbbrevType ==
  ASSUME MaxOps \in Nat, defined \in Nat, NEW num_ops \in 1..MaxOps
  PROVE  Abb!NextAbbrev(num_ops) \in Seq(Int)
<1> DEFINE f(i) == -(MaxOps * (defined + 1) + i)
<1>1. \A i \in 1..num_ops : f(i) \in Int
  <2>1. MaxOps * (defined + 1) \in Int
    OBVIOUS
  <2> QED BY <2>1
<1>2. Abb!NextAbbrev(num_ops) = [i \in 1..num_ops |-> f(i)]
  BY DEF Abb!NextAbbrev
<1> HIDE DEF f
<1>3. Abb!NextAbbrev(num_ops) \in [1..num_ops -> Int] /\ num_ops \in Nat
  BY <1>1, <1>2
<1> QED BY <1>3

\* The allocator, or the check of the block id, refuses.
LEMMA FatalKeeps ==
  ASSUME AbbrevsInv, Abb!Fatal, reading = "blockinfo",
         block_id = Abb!NULL \/ (content.map[block_id] # <<>> /\ appended[Len(appended)] # block_id)
  PROVE  AbbrevsInv'
<1>1. reading' = "fatal"
  BY DEF Abb!Fatal
<1>2. UNCHANGED <<mem, alloc, map, locals, block_id, content, appended, defined>>
  BY DEF Abb!Fatal
<1>3. Abb!RefusedOnlyWhenOvertaken'
  BY <1>1, <1>2 DEF Abb!RefusedOnlyWhenOvertaken
<1> QED BY <1>1, <1>2, <1>3 DEF AbbrevsInv

\* The allocator refuses in a block whose list and records are in each other's way.
LEMMA FatalInBlockKeeps ==
  ASSUME AbbrevsInv, Abb!Fatal, reading = "blocks", NEW top, top = locals[Len(locals)],
         \/ top.list # Abb!NoList /\ top.latest = "record"
         \/ top.reloc_infos # Abb!NULL /\ top.latest = "abbrevs"
  PROVE  AbbrevsInv'
<1>1. reading' = "fatal in a block"
  BY DEF Abb!Fatal
<1>2. UNCHANGED <<mem, alloc, map, locals, block_id, content, appended, defined>>
  BY DEF Abb!Fatal
<1>3. Abb!RefusedOnlyWhenOvertaken'
  BY <1>1, <1>2 DEF Abb!RefusedOnlyWhenOvertaken
<1> QED BY <1>1, <1>2, <1>3 DEF AbbrevsInv

\* DefineAbbrev adds what was read to the local list, and what reads back from there to
\* the list of the block id.
LEMMA DefineAbbrevKeeps ==
  ASSUME MaxOps \in Nat, AbbrevsInv, NEW num_ops \in 1..MaxOps, NEW moves \in BOOLEAN,
         Abb!DefineAbbrev(num_ops, moves)
  PROVE  AbbrevsInv'
<1> DEFINE depth == Len(locals)
           ops == Abb!NextAbbrev(num_ops)
           top == locals[depth]
           local == Abb!AddAbbrev(mem[Abb!Temp], alloc[Abb!Temp], top.list, ops, moves)
           read == Abb!Read(local.mem, local.list, local.list.num_abbrevs)
           copy == Abb!AddAbbrev(mem[Abb!Perm], alloc[Abb!Perm], map[block_id], read, moves)
           Refused == \/ block_id = Abb!NULL
                      \/ ~Abb!Growable(alloc[Abb!Temp], top.list.abbrevs)
                      \/ ~Abb!Growable(alloc[Abb!Perm], map[block_id].abbrevs)
<1>1. reading = "blockinfo" /\ depth = 1 /\ locals # <<>> /\ top.latest # "record"
  <2>1. reading = "blockinfo" /\ depth = 1 /\ top.latest # "record"
    BY DEF Abb!DefineAbbrev, AbbrevsInv
  <2> QED BY <2>1
<1>2. /\ LocalsOK(mem[Abb!Temp], alloc[Abb!Temp], locals, content.locals)
      /\ MapOK(mem[Abb!Perm], alloc[Abb!Perm], map, content.map, appended)
      /\ block_id \in BlockIds \cup {Abb!NULL} /\ defined \in Nat
  BY DEF AbbrevsInv
<1>3. Growing(mem[Abb!Temp], alloc[Abb!Temp], top.list, content.locals[depth])
      /\ Abb!Growable(alloc[Abb!Temp], top.list.abbrevs)
  BY <1>1, <1>2, TopLies, TopGrows
<1>4. ops \in Seq(Int)
  BY <1>2, NextAbbrevType
<1>5. CASE Refused
  <2>1. Abb!Fatal
    BY <1>5 DEF Abb!DefineAbbrev
  <2>2. CASE block_id = Abb!NULL
    BY <1>1, <2>1, <2>2, FatalKeeps
  <2>3. CASE block_id # Abb!NULL
    <3>1. block_id \in BlockIds /\ ~Abb!Growable(alloc[Abb!Perm], map[block_id].abbrevs)
      BY <1>2, <1>3, <1>5, <2>3
    <3>2. content.map[block_id] # <<>> /\ appended[Len(appended)] # block_id
      BY <1>2, <3>1, MapGrows
    <3> QED BY <1>1, <2>1, <3>2, FatalKeeps
  <2> QED BY <2>2, <2>3
<1>6. CASE ~Refused
  <2>1. /\ mem' = [mem EXCEPT ![Abb!Temp] = local.mem, ![Abb!Perm] = copy.mem]
        /\ alloc' = [alloc EXCEPT ![Abb!Temp] = local.alloc, ![Abb!Perm] = copy.alloc]
        /\ map' = [map EXCEPT ![block_id] = copy.list]
        /\ locals' = [locals EXCEPT ![Len(locals)].list = local.list,
                                    ![Len(locals)].latest = "abbrevs"]
        /\ content' = [content EXCEPT !.map[block_id] = Append(@, ops),
                                      !.locals[Len(locals)] = Append(@, ops)]
        /\ appended' = Append(appended, block_id)
        /\ defined' = defined + 1
        /\ UNCHANGED <<block_id, reading>>
    BY <1>6 DEF Abb!DefineAbbrev
  <2>2. block_id \in BlockIds /\ Abb!Growable(alloc[Abb!Perm], map[block_id].abbrevs)
    BY <1>2, <1>6
  <2>3. alloc[Abb!Temp].current \in Nat /\ alloc[Abb!Perm].current \in Nat
    BY <1>2 DEF LocalsOK, MapOK, Marks
  <2> HIDE DEF ops, top, copy, depth
  <2>4. IsAdded(local, mem[Abb!Temp], alloc[Abb!Temp], top.list, content.locals[depth], ops)
    BY <1>3, <1>4, <2>3, Added
  <2> HIDE DEF local
  <2>5. read = ops
    <3> DEFINE c == content.locals[depth]
    <3>1. ListOK(local.mem, local.list, Append(c, ops), local.alloc.current)
      BY <2>4 DEF IsAdded
    <3>2. c \in Seq(Seq(Int))
      <4>1. depth \in 1..Len(locals)
        BY <1>1 DEF depth
      <4> QED BY <1>2, <4>1, LocalsTypes
    <3>3. local.list.num_abbrevs = Len(Append(c, ops))
      BY <3>1 DEF ListOK
    <3> HIDE DEF c
    <3>4. /\ Len(c) \in Nat /\ Len(Append(c, ops)) = Len(c) + 1 /\ Append(c, ops)[Len(c) + 1] = ops
      BY <1>4, <3>2, SeqAppend
    <3>5. Len(c) + 1 \in 1..Len(Append(c, ops))
      BY <3>4
    <3> DEFINE i == Len(c) + 1
               c2 == Append(c, ops)
    <3>6. /\ ListOK(local.mem, local.list, c2, local.alloc.current)
          /\ local.list.num_abbrevs = i /\ c2[i] = ops /\ i \in 1..Len(c2)
      BY <3>1, <3>3, <3>4, <3>5
    <3> HIDE DEF i, c2
    <3>7. Abb!Read(local.mem, local.list, i) = c2[i]
      BY <3>6, ReadsBack
    <3> QED BY <3>6, <3>7
  <2>6. IsAdded(copy, mem[Abb!Perm], alloc[Abb!Perm], map[block_id], content.map[block_id], ops)
    <3>1. Growing(mem[Abb!Perm], alloc[Abb!Perm], map[block_id], content.map[block_id])
      BY <1>2, <2>2, MapGrows
    <3> QED BY <1>4, <2>3, <2>5, <3>1, Added DEF copy
  <2> DEFINE mp2 == [map EXCEPT ![block_id] = copy.list]
             mcs2 == [content.map EXCEPT ![block_id] = Append(@, ops)]
             ls2 == [locals EXCEPT ![Len(locals)].list = local.list,
                                   ![Len(locals)].latest = "abbrevs"]
             lcs2 == [content.locals EXCEPT ![Len(locals)] = Append(@, ops)]
  <2>7. MapOK(copy.mem, copy.alloc, mp2, mcs2, Append(appended, block_id))
    BY <1>2, <1>4, <2>2, <2>6, MapAdded
  <2>8. LocalsOK(local.mem, local.alloc, ls2, lcs2)
    BY <1>1, <1>2, <1>3, <1>4, <2>4, TopAdded DEF top, depth
  <2>9. /\ mem'[Abb!Temp] = local.mem /\ mem'[Abb!Perm] = copy.mem
        /\ DOMAIN mem' = {Abb!Temp, Abb!Perm}
        /\ alloc'[Abb!Temp] = local.alloc /\ alloc'[Abb!Perm] = copy.alloc
        /\ DOMAIN alloc' = {Abb!Temp, Abb!Perm}
    BY <2>1 DEF AbbrevsInv, Abb!Temp, Abb!Perm
  <2>10. content' = [map |-> mcs2, locals |-> lcs2]
    BY <2>1 DEF AbbrevsInv
  <2>11. Len(locals') = Len(locals) /\ locals'[1].latest # "record"
    <3>1. locals \in Seq(Opens) /\ Len(locals) = 1 /\ 1 \in DOMAIN locals /\ locals[1] \in Opens
      BY <1>1, <1>2 DEF LocalsOK, depth
    <3>2. locals'[1].latest = "abbrevs"
      BY <2>1, <3>1 DEF Opens
    <3> QED BY <2>1, <3>1, <3>2
  <2> HIDE DEF mp2, mcs2, ls2, lcs2
  <2>12. content'.map = mcs2 /\ content'.locals = lcs2
    BY <2>10
  <2>13. MapOK(mem'[Abb!Perm], alloc'[Abb!Perm], map', content'.map, appended')
    BY <2>1, <2>7, <2>9, <2>12 DEF mp2
  <2>14. LocalsOK(mem'[Abb!Temp], alloc'[Abb!Temp], locals', content'.locals)
    BY <2>1, <2>8, <2>9, <2>12 DEF ls2
  <2>15. Abb!RefusedOnlyWhenOvertaken' /\ defined' \in Nat /\ block_id' \in BlockIds \cup {Abb!NULL}
    BY <1>1, <1>2, <2>1 DEF Abb!RefusedOnlyWhenOvertaken
  <2>16. Len(locals') = 1
    BY <1>1, <2>11 DEF depth
  <2> QED BY <2>9, <2>10, <2>11, <2>12, <2>13, <2>14, <2>15, <2>16 DEF AbbrevsInv
<1> QED BY <1>5, <1>6

\* DefineLocalAbbrev is refused after a record of the block itself only: nested blocks
\* have given back the allocator.
LEMMA DefineLocalAbbrevKeeps ==
  ASSUME MaxOps \in Nat, AbbrevsInv, NEW num_ops \in 1..MaxOps, NEW moves \in BOOLEAN,
         Abb!DefineLocalAbbrev(num_ops, moves)
  PROVE  AbbrevsInv'
<1> DEFINE depth == Len(locals)
           ops == Abb!NextAbbrev(num_ops)
           top == locals[depth]
           local == Abb!AddAbbrev(mem[Abb!Temp], alloc[Abb!Temp], top.list, ops, moves)
           ls2 == [locals EXCEPT ![Len(locals)].list = local.list,
                                 ![Len(locals)].latest = "abbrevs"]
           lcs2 == [content.locals EXCEPT ![Len(locals)] = Append(@, ops)]
<1>1. reading = "blocks" /\ locals # <<>>
  BY DEF Abb!DefineLocalAbbrev
<1>2. /\ LocalsOK(mem[Abb!Temp], alloc[Abb!Temp], locals, content.locals) /\ defined \in Nat
  BY DEF AbbrevsInv
<1>3. IF Abb!Growable(alloc[Abb!Temp], top.list.abbrevs)
      THEN Growing(mem[Abb!Temp], alloc[Abb!Temp], top.list, content.locals[depth])
      ELSE top.list # Abb!NoList /\ top.latest = "record"
  BY <1>1, <1>2, TopLies, TopGrows
<1>4. CASE ~Abb!Growable(alloc[Abb!Temp], top.list.abbrevs)
  <2>1. Abb!Fatal
    BY <1>4 DEF Abb!DefineLocalAbbrev
  <2> QED BY <1>1, <1>3, <1>4, <2>1, FatalInBlockKeeps
<1>5. CASE Abb!Growable(alloc[Abb!Temp], top.list.abbrevs)
  <2>1. ops \in Seq(Int)
    BY <1>2, NextAbbrevType
  <2>2. /\ mem' = [mem EXCEPT ![Abb!Temp] = local.mem]
        /\ alloc' = [alloc EXCEPT ![Abb!Temp] = local.alloc]
        /\ locals' = ls2
        /\ content' = [content EXCEPT !.locals[Len(locals)] = Append(@, ops)]
        /\ defined' = defined + 1
        /\ UNCHANGED <<map, block_id, reading, appended>>
    BY <1>5 DEF Abb!DefineLocalAbbrev
  <2>3. alloc[Abb!Temp].current \in Nat
    BY <1>2 DEF LocalsOK, Marks
  <2> HIDE DEF ops, top, depth
  <2>4. IsAdded(local, mem[Abb!Temp], alloc[Abb!Temp], top.list, content.locals[depth], ops)
    BY <1>3, <1>5, <2>1, <2>3, Added
  <2> HIDE DEF local
  <2>5. LocalsOK(local.mem, local.alloc, ls2, lcs2)
    BY <1>1, <1>2, <1>5, <2>1, <2>4, TopAdded DEF top, depth
  <2>6. content' = [content EXCEPT !.locals = lcs2]
    BY <2>2
  <2> HIDE DEF ls2, lcs2
  <2>7. defined' \in Nat /\ reading' = "blocks"
    BY <1>1, <1>2, <2>2
  <2> QED BY <2>2, <2>5, <2>6, <2>7, OnlyLocals
<1> QED BY <1>4, <1>5

\* A record of the innermost block is allocated above the block's mark, and behind its
\* list.
LEMMA AllocateRecordKeeps ==
  ASSUME AbbrevsInv, reading = "blocks", locals # <<>>, NEW p, NEW moves \in BOOLEAN,
         NEW top, top = locals[Len(locals)],
         \/ p = Abb!NULL
         \/ p = alloc[Abb!Temp].last_alloc /\ top.latest = "record",
         Abb!AllocateRecord(p, moves)
  PROVE  AbbrevsInv'
<1> DEFINE m == mem[Abb!Temp]
           a == alloc[Abb!Temp]
           c == content.locals[Len(locals)]
           r == Abb!Realloc(m, a, p, 1, moves)
           w == Abb!Write(r.mem, r.alloc.current - 1, <<0>>)
           q == IF top.id = Abb!PN_BLOCKID_GLOBALVAR THEN r.p ELSE Abb!NULL
           e2 == [top EXCEPT !.latest = "record", !.reloc_infos = q]
           low == IF p = Abb!NULL THEN a.current ELSE p
           bottom == top.mark.current
           ls2 == [locals EXCEPT ![Len(locals)] = e2]
           cs2 == [content.locals EXCEPT ![Len(locals)] = c]
<1>1. LocalsOK(m, a, locals, content.locals) /\ defined \in Nat
  BY DEF AbbrevsInv
<1>2. /\ top \in Opens /\ c \in Seq(Seq(Int)) /\ a \in Marks /\ Lies(m, a, top, c)
      /\ bottom <= From(a, top.list) /\ bottom <= a.current
  BY <1>1, TopLies
<1>3. top.latest = "record" =>
        a.last_alloc \in Nat /\ a.last_alloc < a.current /\ bottom <= a.last_alloc
  BY <1>2 DEF Lies
<1>4. a.current \in Nat /\ bottom \in Nat
  BY <1>2 DEF Marks, Opens
<1>5. /\ r.alloc \in Marks /\ r.p \in Nat /\ r.alloc.last_alloc = r.p
      /\ low <= r.p /\ r.p < r.alloc.current /\ SameBelow(low, m, w)
  <2>1. p = Abb!NULL \/ (p \in Nat /\ p < a.current)
    BY <1>3
  <2> HIDE DEF m, a
  <2> QED BY <1>2, <2>1, Recorded
<1>6. low \in Nat /\ bottom <= low
  BY <1>2, <1>3, <1>4
<1>7. ASSUME NEW end, ListOK(m, top.list, c, end),
             \/ end = a.current /\ top.latest = "abbrevs"
             \/ end <= a.last_alloc /\ top.latest = "record"
      PROVE  end <= low /\ end \in Nat
  <2>1. end \in Nat
    BY <1>7, ListLong
  <2>2. CASE p = Abb!NULL
    <3>1. low = a.current
      BY <2>2
    <3> HIDE DEF a, low
    <3> QED BY <1>3, <1>4, <1>7, <2>1, <3>1
  <2>3. CASE p # Abb!NULL
    <3>1. low = a.last_alloc /\ top.latest = "record"
      BY <2>3
    <3> HIDE DEF a, low
    <3> QED BY <1>7, <2>1, <3>1
  <2> QED BY <2>2, <2>3
<1>8. \/ top.list = Abb!NoList /\ c = <<>>
      \/ \E end : ListOK(w, top.list, c, end) /\ end <= r.p
  <2>1. ASSUME NEW end, ListOK(m, top.list, c, end),
               \/ end = a.current /\ top.latest = "abbrevs"
               \/ end <= a.last_alloc /\ top.latest = "record"
        PROVE  ListOK(w, top.list, c, end) /\ end <= r.p
    <3>1. end <= low /\ end \in Nat
      BY <1>7, <2>1
    <3> HIDE DEF low, w, r, m, a, c
    <3>2. ListOK(w, top.list, c, end)
      BY <1>5, <1>6, <2>1, <3>1, ListBelow
    <3>3. end <= r.p
      BY <1>5, <1>6, <3>1
    <3> QED BY <3>2, <3>3
  <2> HIDE DEF w, r, m, a, c
  <2>2. CASE top.latest = "none"
    BY <1>2, <2>2 DEF Lies
  <2>3. CASE top.latest = "abbrevs"
    <3>1. ListOK(m, top.list, c, a.current)
      BY <1>2, <2>3 DEF Lies
    <3> DEFINE end == a.current
    <3>2. end = a.current /\ ListOK(m, top.list, c, end)
      BY <3>1
    <3> HIDE DEF end
    <3>3. ListOK(w, top.list, c, end) /\ end <= r.p
      BY <2>1, <2>3, <3>2
    <3> QED BY <3>3
  <2>4. CASE top.latest = "record"
    <3>1. (top.list = Abb!NoList /\ c = <<>>)
          \/ \E end : ListOK(m, top.list, c, end) /\ end <= a.last_alloc
      BY <1>2, <2>4 DEF Lies
    <3> QED BY <2>1, <2>4, <3>1
  <2> QED BY <1>2, <2>2, <2>3, <2>4 DEF Opens
<1>9. /\ e2 \in Opens /\ e2.mark = top.mark /\ e2.list = top.list /\ e2.latest = "record"
      /\ e2.reloc_infos \in {Abb!NULL, r.p}
  <2> HIDE DEF r
  <2>1. q \in Nat \cup {Abb!NULL} /\ q \in {Abb!NULL, r.p}
    BY <1>5
  <2> HIDE DEF q
  <2> QED BY <1>2, <2>1 DEF Opens
<1> HIDE DEF r, q, e2, w, low
<1>10. bottom <= r.p /\ bottom <= r.alloc.current /\ r.alloc.current \in Nat
  <2>1. r.alloc.current \in Nat
    BY <1>5 DEF Marks
  <2> HIDE DEF bottom
  <2> QED BY <1>4, <1>5, <1>6, <2>1
<1>11. Lies(w, r.alloc, e2, c)
  BY <1>5, <1>8, <1>9, <1>10 DEF Lies
<1>12. bottom <= From(r.alloc, e2.list)
  <2>1. CASE top.list.abbrevs = Abb!NULL
    BY <1>9, <1>10, <2>1 DEF From
  <2>2. CASE top.list.abbrevs # Abb!NULL
    BY <1>2, <1>9, <2>2 DEF From
  <2> QED BY <2>1, <2>2
<1>13. SameBelow(bottom, m, w)
  <2> HIDE DEF bottom, m
  <2>1. \A x \in 0..(bottom - 1) : x \in 0..(low - 1)
    BY <1>4, <1>6
  <2> QED BY <1>5, <2>1 DEF SameBelow
<1>14. LocalsOK(w, r.alloc, ls2, cs2)
  <2> HIDE DEF m, a, c
  <2> QED BY <1>1, <1>2, <1>5, <1>9, <1>10, <1>11, <1>12, <1>13, TopChanged
<1>15. /\ mem' = [mem EXCEPT ![Abb!Temp] = w] /\ alloc' = [alloc EXCEPT ![Abb!Temp] = r.alloc]
       /\ locals' = ls2 /\ UNCHANGED <<map, block_id, reading, content, appended, defined>>
  <2>1. locals \in Seq(Opens) /\ Len(locals) \in DOMAIN locals
    BY <1>1 DEF LocalsOK
  <2> QED BY <2>1 DEF Abb!AllocateRecord, e2, q, r, w
<1>16. content' = [content EXCEPT !.locals = cs2]
  <2>1. content = [map |-> content.map, locals |-> content.locals] /\ cs2 = content.locals
    BY <1>1 DEF AbbrevsInv, LocalsOK
  <2> QED BY <1>15, <2>1
<1> HIDE DEF ls2, cs2
<1> QED BY <1>1, <1>14, <1>15, <1>16, OnlyLocals

\* Relocation is refused after an abbreviation of the block only.
LEMMA RelocationKeeps ==
  ASSUME AbbrevsInv, NEW moves \in BOOLEAN, Abb!Relocation(moves)
  PROVE  AbbrevsInv'
<1> DEFINE top == locals[Len(locals)]
           p == top.reloc_infos
           a == alloc[Abb!Temp]
<1>1. reading = "blocks" /\ locals # <<>>
  BY DEF Abb!Relocation
<1>2. top \in Opens /\ Lies(mem[Abb!Temp], a, top, content.locals[Len(locals)]) /\ a \in Marks
  BY <1>1, TopLies DEF AbbrevsInv
<1>3. /\ top.latest = "none" => p = Abb!NULL
      /\ top.latest = "abbrevs" /\ p # Abb!NULL => p < a.last_alloc /\ a.last_alloc \in Nat
      /\ top.latest = "record" => p \in {Abb!NULL, a.last_alloc}
      /\ top.latest \in {"none", "abbrevs", "record"} /\ p \in Nat \cup {Abb!NULL}
  <2>1. top.latest \in {"none", "abbrevs", "record"} /\ p \in Nat \cup {Abb!NULL}
    BY <1>2 DEF Opens
  <2>2. top.latest = "abbrevs" => a.last_alloc \in Nat
    BY <1>2, ListLong DEF Lies
  <2> QED BY <1>2, <2>1, <2>2 DEF Lies
<1>4. CASE Abb!Growable(a, p)
  <2>1. p = Abb!NULL \/ (p = a.last_alloc /\ top.latest = "record")
    BY <1>3, <1>4 DEF Abb!Growable
  <2>2. Abb!AllocateRecord(p, moves)
    BY <1>4 DEF Abb!Relocation
  <2> QED BY <1>1, <2>1, <2>2, AllocateRecordKeeps
<1>5. CASE ~Abb!Growable(a, p)
  <2>1. p # Abb!NULL /\ top.latest = "abbrevs"
    BY <1>3, <1>5 DEF Abb!Growable
  <2>2. Abb!Fatal
    BY <1>5 DEF Abb!Relocation
  <2> QED BY <1>1, <2>1, <2>2, FatalInBlockKeeps
<1> QED BY <1>4, <1>5

\* AppendInstruction is never refused.
LEMMA AppendInstructionKeeps ==
  ASSUME AbbrevsInv, NEW moves \in BOOLEAN, Abb!AppendInstruction(moves)
  PROVE  AbbrevsInv'
BY AllocateRecordKeeps DEF Abb!AppendInstruction

\* EnterBlock copies the list of the block id behind the lists of the open blocks.
LEMMA EnterBlockKeeps ==
  ASSUME AbbrevsInv, NEW b \in BlockIds, NEW moves, Abb!EnterBlock(b, moves)
  PROVE  AbbrevsInv'
<1> DEFINE copy == Abb!CopyAbbrevs(b, moves)
           c == content.map[b]
           ls2 == Append(locals, Abb!Open(b, copy.list, alloc[Abb!Temp]))
           lcs2 == Append(content.locals, c)
<1>1. /\ LocalsOK(mem[Abb!Temp], alloc[Abb!Temp], locals, content.locals) /\ defined \in Nat
      /\ MapOK(mem[Abb!Perm], alloc[Abb!Perm], map, content.map, appended)
  BY DEF AbbrevsInv
<1>2. /\ reading = "blocks"
      /\ mem' = [mem EXCEPT ![Abb!Temp] = copy.mem]
      /\ alloc' = [alloc EXCEPT ![Abb!Temp] = copy.alloc]
      /\ locals' = ls2
      /\ content' = [content EXCEPT !.locals = lcs2]
      /\ UNCHANGED <<map, block_id, reading, appended, defined>>
  BY DEF Abb!EnterBlock
<1>3. alloc[Abb!Temp] \in Marks /\ c \in Seq(Seq(Int))
  BY <1>1 DEF LocalsOK, MapOK
<1>4. OfId(b, mem[Abb!Perm], alloc[Abb!Perm], map[b], c, appended)
  BY <1>1 DEF MapOK
<1> HIDE DEF copy, c
<1>5. \E end : (map[b] = Abb!NoList /\ c = <<>>) \/ ListOK(mem[Abb!Perm], map[b], c, end)
  BY <1>4 DEF OfId
<1>6. IsCopied(copy, mem[Abb!Temp], alloc[Abb!Temp], c)
  BY <1>3, <1>5, Copied DEF copy
<1>7. LocalsOK(copy.mem, copy.alloc, ls2, lcs2)
  BY <1>1, <1>3, <1>6, BlockEntered
<1> HIDE DEF ls2, lcs2
<1>8. defined' \in Nat /\ reading' = "blocks"
  BY <1>1, <1>2
<1> QED BY <1>2, <1>7, <1>8, OnlyLocals

\* LeaveBlock frees only the list of the block it leaves.
LEMMA LeaveBlockKeeps ==
  ASSUME AbbrevsInv, Abb!LeaveBlock
  PROVE  AbbrevsInv'
<1> DEFINE k == locals[Len(locals)].mark
           ls2 == Abb!Front(locals)
           lcs2 == Abb!Front(content.locals)
           m2 == Abb!Kept(mem[Abb!Temp], k)
<1>1. /\ LocalsOK(mem[Abb!Temp], alloc[Abb!Temp], locals, content.locals) /\ defined \in Nat
  BY DEF AbbrevsInv
<1>2. /\ reading = "blocks" /\ locals # <<>>
      /\ mem' = [mem EXCEPT ![Abb!Temp] = m2]
      /\ alloc' = [alloc EXCEPT ![Abb!Temp] = k]
      /\ locals' = ls2
      /\ content' = [content EXCEPT !.locals = lcs2]
      /\ UNCHANGED <<map, block_id, reading, appended, defined>>
  BY DEF Abb!LeaveBlock
<1>3. LocalsOK(m2, k, ls2, lcs2)
  BY <1>1, <1>2, BlockLeft
<1> HIDE DEF ls2, lcs2, m2, k
<1>4. defined' \in Nat /\ reading' = "blocks"
  BY <1>1, <1>2
<1> QED BY <1>2, <1>3, <1>4, OnlyLocals

\* EndBlockInfo frees the local list.
LEMMA EndBlockInfoKeeps ==
  ASSUME AbbrevsInv, Abb!EndBlockInfo
  PROVE  AbbrevsInv'
<1> DEFINE k == locals[1].mark
           m2 == Abb!Kept(mem[Abb!Temp], k)
<1>1. /\ LocalsOK(mem[Abb!Temp], alloc[Abb!Temp], locals, content.locals) /\ defined \in Nat
      /\ Len(locals) = 1
  BY DEF AbbrevsInv, Abb!EndBlockInfo
<1>2. /\ mem' = [mem EXCEPT ![Abb!Temp] = m2]
      /\ alloc' = [alloc EXCEPT ![Abb!Temp] = k]
      /\ locals' = <<>>
      /\ content' = [content EXCEPT !.locals = <<>>]
      /\ reading' = "blocks"
      /\ UNCHANGED <<map, block_id, appended, defined>>
  BY DEF Abb!EndBlockInfo
<1>3. k \in Marks
  <2>1. 1 \in 1..Len(locals)
    BY <1>1
  <2> QED BY <1>1, <2>1, LocalsTypes
<1> HIDE DEF m2, k
<1>4. LocalsOK(m2, k, <<>>, <<>>)
  <2>1. <<>> \in Seq(Opens) /\ <<>> \in Seq(Seq(Seq(Int))) /\ Len(<<>>) = 0 /\ 1..0 = {}
    OBVIOUS
  <2> QED BY <1>3, <2>1 DEF LocalsOK
<1>5. defined' \in Nat
  BY <1>1, <1>2
<1> QED BY <1>2, <1>4, <1>5, OnlyLocals

\* SetBid changes no list.
LEMMA SetBidKeeps ==
  ASSUME AbbrevsInv, NEW b \in BlockIds, Abb!SetBid(b)
  PROVE  AbbrevsInv'
<1>1. /\ reading = "blockinfo" /\ block_id' = b
      /\ UNCHANGED <<mem, alloc, map, locals, reading, content, appended, defined>>
  BY DEF Abb!SetBid
<1>2. Abb!RefusedOnlyWhenOvertaken'
  BY <1>1 DEF Abb!RefusedOnlyWhenOvertaken
<1> QED BY <1>1, <1>2 DEF AbbrevsInv

\* There are no lists at first.
LEMMA AbbrevsInitially ==
  ASSUME Abb!Init PROVE AbbrevsInv
<1> USE DEF Abb!Init
<1>1. Abb!NoList \in Lists /\ Abb!Unused \in Marks
  BY DEF Abb!NoList, Abb!Unused, Lists, Marks, Abb!NULL
<1>2. /\ mem[Abb!Temp] = <<>> /\ mem[Abb!Perm] = <<>> /\ DOMAIN mem = {Abb!Temp, Abb!Perm}
      /\ alloc[Abb!Temp] = Abb!Unused /\ alloc[Abb!Perm] = Abb!Unused
      /\ DOMAIN alloc = {Abb!Temp, Abb!Perm}
      /\ content.map = [b \in BlockIds |-> <<>>] /\ content.locals = <<<<>>>>
  OBVIOUS
<1>3. MapOK(mem[Abb!Perm], alloc[Abb!Perm], map, content.map, appended)
  <2>1. map \in [BlockIds -> Lists]
    BY <1>1
  <2>2. content.map \in [BlockIds -> Seq(Seq(Int))] /\ appended \in Seq(BlockIds) /\ appended = <<>>
    BY <1>2
  <2>3. \A b \in BlockIds :
          OfId(b, mem[Abb!Perm], alloc[Abb!Perm], map[b], content.map[b], appended)
    BY <1>2 DEF OfId
  <2> QED BY <1>1, <1>2, <2>1, <2>2, <2>3 DEF MapOK
<1>4. LocalsOK(mem[Abb!Temp], alloc[Abb!Temp], locals, content.locals)
  <2> DEFINE e == Abb!Open(Abb!PN_BLOCKID_BLOCKINFO, Abb!NoList, Abb!Unused)
  <2>1. /\ e \in Opens /\ e.list = Abb!NoList /\ e.mark = Abb!Unused /\ e.latest = "none"
        /\ e.reloc_infos = Abb!NULL
    BY <1>1 DEF Opens, Abb!Open
  <2>2. locals = <<e>>
    OBVIOUS
  <2> HIDE DEF e
  <2>3. locals \in Seq(Opens) /\ Len(locals) = 1 /\ locals[1] = e
    BY <2>1, <2>2
  <2>4. content.locals \in Seq(Seq(Seq(Int))) /\ Len(content.locals) = 1 /\ content.locals[1] = <<>>
    BY <1>2
  <2>5. Reach(Abb!Unused, locals, 1) = Abb!Unused
    BY <2>3 DEF Reach
  <2>6. From(Abb!Unused, Abb!NoList) = 0 /\ Abb!Unused.current = 0
    BY DEF From, Abb!Unused, Abb!NoList
  <2>7. LocalOK(mem[Abb!Temp], Abb!Unused, locals, content.locals, 1)
    <3>1. Lies(mem[Abb!Temp], Abb!Unused, e, <<>>)
      BY <2>1 DEF Lies
    <3>2. \A i \in 1..1 : i = 1
      OBVIOUS
    <3> QED BY <2>1, <2>3, <2>4, <2>5, <2>6, <3>1, <3>2 DEF LocalOK
  <2>8. \A i \in 1..1 : i = 1
    OBVIOUS
  <2> QED BY <1>1, <1>2, <2>3, <2>4, <2>7, <2>8 DEF LocalsOK
<1>5. content = [map |-> content.map, locals |-> content.locals]
  OBVIOUS
<1>6. Len(locals) = 1 /\ locals[1].latest # "record" /\ Abb!RefusedOnlyWhenOvertaken
  BY DEF Abb!RefusedOnlyWhenOvertaken, Abb!Open
<1> QED BY <1>2, <1>3, <1>4, <1>5, <1>6 DEF AbbrevsInv, Abb!NULL

\* Every step keeps the invariant.
LEMMA AbbrevsKeep ==
  ASSUME MaxOps \in Nat, AbbrevsInv, [Abb!Next]_(Abb!vars) PROVE AbbrevsInv'
<1>1. CASE UNCHANGED Abb!vars
  <2>1. UNCHANGED <<mem, alloc, map, locals, block_id, reading, content, appended, defined>>
    BY <1>1 DEF Abb!vars
  <2> QED BY <2>1 DEF AbbrevsInv, Abb!RefusedOnlyWhenOvertaken
<1>2. ASSUME NEW b \in BlockIds, Abb!SetBid(b) PROVE AbbrevsInv'
  BY <1>2, SetBidKeeps
<1>3. ASSUME NEW num_ops \in 1..MaxOps, NEW moves \in BOOLEAN,
             Abb!DefineAbbrev(num_ops, moves) PROVE AbbrevsInv'
  BY <1>3, DefineAbbrevKeeps
<1>4. ASSUME NEW num_ops \in 1..MaxOps, NEW moves \in BOOLEAN,
             Abb!DefineLocalAbbrev(num_ops, moves) PROVE AbbrevsInv'
  BY <1>4, DefineLocalAbbrevKeeps
<1>5. CASE Abb!EndBlockInfo
  BY <1>5, EndBlockInfoKeeps
<1>6. ASSUME NEW b \in BlockIds, NEW moves, Abb!EnterBlock(b, moves) PROVE AbbrevsInv'
  BY <1>6, EnterBlockKeeps
<1>7. CASE Abb!LeaveBlock
  BY <1>7, LeaveBlockKeeps
<1>8. ASSUME NEW moves \in BOOLEAN, Abb!AppendInstruction(moves) \/ Abb!Relocation(moves)
      PROVE  AbbrevsInv'
  BY <1>8, AppendInstructionKeeps, RelocationKeeps
<1> QED BY <1>1, <1>2, <1>3, <1>4, <1>5, <1>6, <1>7, <1>8 DEF Abb!Next

\* What the lists hold reads back.
LEMMA AbbrevsRead ==
  ASSUME AbbrevsInv PROVE Abb!OpsIntact
<1>1. ASSUME NEW a, NEW list, NEW c, NEW end,
             (list = Abb!NoList /\ c = <<>>) \/ ListOK(mem[a], list, c, end)
      PROVE  Abb!Reads(a, list) = c
  <2>1. CASE list = Abb!NoList /\ c = <<>>
    <3>1. list.num_abbrevs = 0 /\ 1..0 = {}
      BY <2>1 DEF Abb!NoList
    <3> QED BY <2>1, <3>1 DEF Abb!Reads
  <2>2. CASE ListOK(mem[a], list, c, end)
    <3>1. c \in Seq(Seq(Int)) /\ list.num_abbrevs = Len(c)
      BY <2>2 DEF ListOK
    <3>2. \A i \in 1..Len(c) : Abb!Read(mem[a], list, i) = c[i]
      BY <2>2, ReadsBack
    <3>3. c = [i \in 1..Len(c) |-> c[i]]
      BY <3>1
    <3> QED BY <3>1, <3>2, <3>3 DEF Abb!Reads
  <2> QED BY <1>1, <2>1, <2>2
<1>2. ASSUME NEW b \in BlockIds PROVE Abb!Reads(Abb!Perm, map[b]) = content.map[b]
  <2>1. OfId(b, mem[Abb!Perm], alloc[Abb!Perm], map[b], content.map[b], appended)
    BY DEF AbbrevsInv, MapOK
  <2>2. \E end : (map[b] = Abb!NoList /\ content.map[b] = <<>>)
                 \/ ListOK(mem[Abb!Perm], map[b], content.map[b], end)
    BY <2>1 DEF OfId
  <2> QED BY <1>1, <2>2
<1>3. ASSUME NEW d \in 1..Len(locals) PROVE Abb!Reads(Abb!Temp, locals[d].list) = content.locals[d]
  <2>1. Lies(mem[Abb!Temp], Reach(alloc[Abb!Temp], locals, d), locals[d], content.locals[d])
    BY DEF AbbrevsInv, LocalsOK, LocalOK
  <2>2. \E end : (locals[d].list = Abb!NoList /\ content.locals[d] = <<>>)
                 \/ ListOK(mem[Abb!Temp], locals[d].list, content.locals[d], end)
    BY <2>1 DEF Lies
  <2> QED BY <1>1, <2>2
<1> QED BY <1>2, <1>3 DEF Abb!OpsIntact

-----------------------------------------------------------------------------
(* MCDecoder.                                                              *)

\* pn_abbrev.h, for any block ids, operands, abbreviations and records: every abbreviation
\* of every list reads back as it was defined; what is refused is a return to a block id
\* and, in a block, a list that a record of the block has overtaken, or the reverse.
THEOREM AbbrevsCorrect == DecoderSpec => []AbbrevsIntact
<1>1. DecoderInit => AbbrevsInv
  BY AbbrevsInitially DEF DecoderInit
<1>2. AbbrevsInv /\ [DecoderNext]_allVars => AbbrevsInv'
  <2> SUFFICES ASSUME AbbrevsInv, [DecoderNext]_allVars PROVE AbbrevsInv'
    OBVIOUS
  <2>1. [Abb!Next]_(Abb!vars)
    BY DEF DecoderNext, allVars, abbrevVars, Abb!vars
  <2>2. MaxOps \in Nat
    BY DecoderAssumption DEF Abb!AbbrevsAssumption
  <2> QED BY <2>1, <2>2, AbbrevsKeep
<1>3. AbbrevsInv => AbbrevsIntact
  <2>1. AbbrevsInv => Abb!RefusedOnlyWhenOvertaken
    BY DEF AbbrevsInv
  <2> QED BY <2>1, AbbrevsRead DEF AbbrevsIntact
<1> QED BY <1>1, <1>2, <1>3, PTL DEF DecoderSpec

\* Each layer rests or moves: what the decoder does is a behaviour of the bitstream.
LEMMA BitsBehave ==
  DecoderSpec => Spec
<1>1. DecoderInit => Init
  <2>1. 0 \in 0..MaxLen
    BY DecoderAssumption DEF WidthsAssumption
  <2>2. BitsRest => Init
    BY <2>1 DEF BitsRest, Init
  <2> QED BY <2>2 DEF DecoderInit
<1>2. [DecoderNext]_allVars => [Next]_vars
  BY DEF DecoderNext, allVars, vars
<1> QED BY <1>1, <1>2, PTL DEF DecoderSpec, Spec

\* pn_bitstream.h, for buffers of any length and bytes and words of any width: the word
\* holds the next bits of the buffer.
THEOREM WordsCorrect == DecoderSpec => []WordIsNext
<1>1. WidthsAssumption
  BY DecoderAssumption
<1>2. Spec => []WordIsNext
  BY <1>1, WordCorrect
<1> QED BY <1>2, BitsBehave, PTL

\* The reads and seeks of the decoder's bitstream, with fields of any number of pieces,
\* are those of a plain cursor.  FieldsRead says the same of bytes of one bit.
THEOREM CursorCorrect == DecoderSpec => ImplementsCursor
<1>1. WidthsAssumption
  BY DecoderAssumption
<1>2. Spec => ImplementsCursor
  BY <1>1, CursorImplemented
<1> QED BY <1>2, BitsBehave, PTL
=============================================================================
