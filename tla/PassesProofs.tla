---------------------------- MODULE PassesProofs ----------------------------
(***************************************************************************)
(* Proofs about the passes of MCPasses, for functions of any size: the     *)
(* reader of function bodies, the types of results and the phi             *)
(* assignments.  Each has an inductive invariant of its own (RInv,         *)
(* TypesInv, PhiInv); a step of the whole is a step of the part that was   *)
(* chosen (PartSteps).                                                     *)
(***************************************************************************)
EXTENDS MCPasses, CommonLemmas, SequencesExt

-----------------------------------------------------------------------------
\* A step is one of the part that was chosen, or of none.
LEMMA PartSteps ==
  ASSUME [Next]_vars
  PROVE  /\ part' = part
         /\ part = "read" => Reader!Next \/ UNCHANGED Reader!vars
         /\ part = "types" => Typing!Next \/ UNCHANGED Typing!vars
         /\ part = "phis" => Phis!Next \/ UNCHANGED Phis!vars
         /\ part = "stream" => Stream!Next \/ UNCHANGED Stream!vars
<1>1. CASE Next
  BY <1>1 DEF Next
<1>2. CASE UNCHANGED vars
  BY <1>2 DEF vars, readVars, typeVars, phiVars, streamVars, Reader!vars, Reader!function,
              Typing!vars, Phis!vars, Stream!vars
<1> QED BY <1>1, <1>2

-----------------------------------------------------------------------------
(* ResultTypes.                                                             *)

\* The values whose type is known.
HasType(v) == type_id[v] # Typing!Invalid
Resolved == {v \in Typing!Values : HasType(v)}

\* The list of the values that are to be tried again has each at most once.
Listed(v) == \E k \in DOMAIN invalid : invalid[k] = v
ListApart == \A j, k \in DOMAIN invalid : invalid[j] = invalid[k] => j = k

\* A value with operands has its type from theirs.
TypesFit ==
  LET basic(t) == IF t = "function" THEN "i32" ELSE t IN
  \A v \in Typing!Values : HasType(v) =>
    \A i \in DOMAIN insts[v].operands :
      /\ HasType(insts[v].operands[i])
      /\ basic(type_id[insts[v].operands[i]]) = basic(type_id[v])

\* A value without operands has a type.
KnownTyped == \A v \in Typing!Values : insts[v].operands = <<>> => HasType(v)

\* The types of the variables.
Shapes ==
  /\ insts \in [Typing!Values -> Typing!Known \cup Typing!Joins]
  /\ type_id \in [Typing!Values -> Typing!Types \cup {Typing!Invalid}]
  /\ invalid \in Seq(Typing!Values)
  /\ type_n \in Nat \ {0} /\ last_invalid \in Nat
  /\ type_phase \in {"first", "again", "done", "unresolved", "mismatch"}

\* In the first pass the list has those that were passed without a type.
FirstInv ==
  type_phase = "first" =>
    /\ type_n <= TypeValues + 1 /\ last_invalid = 0
    /\ \A v \in Typing!Values : Listed(v) <=> v < type_n /\ ~HasType(v)
    /\ \A v \in Typing!Values : v >= type_n => type_id[v] = insts[v].type

\* Later it has all without one; if it is as long as at the start of the round,
\* none that the round has passed can be typed.
AgainInv ==
  type_phase = "again" =>
    /\ type_n <= Len(invalid) + 1 /\ Len(invalid) <= last_invalid
    /\ \A v \in Typing!Values : Listed(v) <=> ~HasType(v)
    /\ Len(invalid) = last_invalid => \A k \in 1..(type_n - 1) : ~Typing!Resolves(invalid[k])

\* With no more rounds all have a type, or none of the rest can get one.
EndInv ==
  /\ type_phase = "done" => \A v \in Typing!Values : HasType(v)
  /\ type_phase = "unresolved" =>
       /\ \E v \in Typing!Values : ~HasType(v)
       /\ \A v \in Typing!Values : ~HasType(v) => ~Typing!Resolves(v)

\* The inductive invariant: until two types differ, only what is determined by the
\* values of known type has one (Resolved lies in every closed set).
TypesInv ==
  /\ Shapes
  /\ type_phase # "mismatch" =>
       /\ ListApart /\ KnownTyped /\ TypesFit
       /\ \A S \in SUBSET Typing!Values : Typing!Closed(S) => Resolved \subseteq S
  /\ FirstInv /\ AgainInv /\ EndInv

\* A value has a type and no operands, or two operands and no type yet.
LEMMA OperandShapes ==
  ASSUME Typing!OperandsAssumption, insts \in [Typing!Values -> Typing!Known \cup Typing!Joins],
         NEW v \in Typing!Values
  PROVE  \/ /\ insts[v].operands = <<>> /\ DOMAIN insts[v].operands = {}
            /\ insts[v].type # Typing!Invalid
         \/ /\ insts[v].operands # <<>> /\ DOMAIN insts[v].operands = 1..2
            /\ insts[v].type = Typing!Invalid
            /\ insts[v].operands[1] \in Typing!Values /\ insts[v].operands[2] \in Typing!Values
<1>1. CASE insts[v] \in Typing!Known
  <2>1. PICK t \in Typing!Types : insts[v] = [type |-> t, operands |-> <<>>]
    BY <1>1 DEF Typing!Known
  <2> QED
    BY <2>1 DEF Typing!Types, Typing!Invalid
<1>2. CASE insts[v] \in Typing!Joins
  <2>1. PICK o \in Operands : insts[v] = [type |-> Typing!Invalid, operands |-> o]
    BY <1>2 DEF Typing!Joins
  <2>2. o \in Typing!Values \X Typing!Values
    BY <2>1 DEF Typing!OperandsAssumption
  <2>3. DOMAIN o = 1..2 /\ o[1] \in Typing!Values /\ o[2] \in Typing!Values
    BY <2>2
  <2>4. o # <<>>
    <3>1. DOMAIN <<>> = {} /\ 1 \in DOMAIN o
      BY <2>3
    <3> QED
      BY <3>1
  <2> QED
    BY <2>1, <2>3, <2>4
<1> QED
  BY <1>1, <1>2

\* What finding the type of v does, when all of its operands have one.
LEMMA AssignSound ==
  ASSUME Typing!OperandsAssumption, Shapes, type_phase # "mismatch", KnownTyped, TypesFit,
         \A S \in SUBSET Typing!Values : Typing!Closed(S) => Resolved \subseteq S,
         NEW v \in Typing!Values, Typing!Resolves(v), insts[v].operands # <<>> => ~HasType(v),
         Typing!Assign(v, type_phase), insts' = insts, type_phase' # "mismatch"
  PROVE  /\ type_id' \in [Typing!Values -> Typing!Types \cup {Typing!Invalid}]
         /\ type_phase' = type_phase
         /\ type_id'[v] # Typing!Invalid
         /\ \A u \in Typing!Values : u # v => type_id'[u] = type_id[u]
         /\ KnownTyped' /\ TypesFit'
         /\ (\A S \in SUBSET Typing!Values : Typing!Closed(S) => Resolved \subseteq S)'
<1>1. CASE insts[v].operands = <<>>
  <2>1. type_id' = type_id /\ type_phase' = type_phase
    BY <1>1 DEF Typing!Assign
  <2>2. KnownTyped' /\ TypesFit'
    BY <2>1 DEF KnownTyped, TypesFit, HasType
  <2>3. (\A S \in SUBSET Typing!Values : Typing!Closed(S) => Resolved \subseteq S)'
    BY <2>1 DEF Typing!Closed, Resolved, HasType
  <2> QED
    BY <1>1, <2>1, <2>2, <2>3 DEF KnownTyped, HasType, Shapes
<1>2. CASE insts[v].operands # <<>>
  <2> DEFINE a == insts[v].operands[1]
             b == insts[v].operands[2]
             type == Typing!ImplicitCast(type_id[a], type_id[b])
  <2>1. DOMAIN insts[v].operands = 1..2 /\ a \in Typing!Values /\ b \in Typing!Values
    BY <1>2, OperandShapes DEF Shapes
  <2>2. /\ type_id' = [type_id EXCEPT ![v] = type]
        /\ type_phase' = IF type = Typing!Invalid THEN "mismatch" ELSE type_phase
    BY <1>2 DEF Typing!Assign
  <2>3. type # Typing!Invalid /\ type_phase' = type_phase
    BY <2>2
  <2>4. type_id[a] # Typing!Invalid /\ type_id[b] # Typing!Invalid
    BY <2>1 DEF Typing!Resolves
  <2>5. type = type_id[b]
        /\ (type_id[a] = type_id[b] \/ {type_id[a], type_id[b]} = {"function", "i32"})
    BY <2>3 DEF Typing!ImplicitCast
  <2>6. type_id' \in [Typing!Values -> Typing!Types \cup {Typing!Invalid}]
    BY <2>1, <2>2, <2>5 DEF Shapes
  <2>7. type_id'[v] = type /\ \A u \in Typing!Values : u # v => type_id'[u] = type_id[u]
    BY <2>2 DEF Shapes
  <2>8. a # v /\ b # v /\ KnownTyped'
    BY <1>2, <2>4, <2>7 DEF HasType, KnownTyped
  <2>9. TypesFit'
    <3> DEFINE basic(t) == IF t = "function" THEN "i32" ELSE t
    <3> SUFFICES ASSUME NEW u \in Typing!Values, type_id'[u] # Typing!Invalid,
                        NEW i \in DOMAIN insts[u].operands
                 PROVE  /\ type_id'[insts[u].operands[i]] # Typing!Invalid
                        /\ basic(type_id'[insts[u].operands[i]]) = basic(type_id'[u])
      BY DEF TypesFit, HasType
    <3>1. CASE u = v
      <4>1. insts[u].operands[i] \in {a, b}
        BY <2>1, <3>1
      <4>2. basic(type_id[a]) = basic(type_id[b])
        <5>1. CASE type_id[a] = type_id[b]
          BY <5>1
        <5>2. CASE {type_id[a], type_id[b]} = {"function", "i32"}
          <6>1. type_id[a] \in {"function", "i32"} /\ type_id[b] \in {"function", "i32"}
            BY <5>2
          <6> QED
            BY <6>1
        <5> QED
          BY <2>5, <5>1, <5>2
      <4> QED
        BY <2>1, <2>4, <2>5, <2>7, <2>8, <3>1, <4>1, <4>2
    <3>2. CASE u # v
      <4>1. HasType(u)
        BY <2>7, <3>2 DEF HasType
      <4>2. /\ HasType(insts[u].operands[i])
            /\ basic(type_id[insts[u].operands[i]]) = basic(type_id[u])
        BY <4>1 DEF TypesFit
      <4>3. insts[u].operands[i] # v
        BY <1>2, <4>2
      <4>4. insts[u].operands[i] \in Typing!Values
        BY OperandShapes DEF Shapes
      <4> QED
        BY <2>7, <3>2, <4>2, <4>3, <4>4 DEF HasType
    <3> QED
      BY <3>1, <3>2
  <2>10. (\A S \in SUBSET Typing!Values : Typing!Closed(S) => Resolved \subseteq S)'
    <3> SUFFICES ASSUME NEW S \in SUBSET Typing!Values, Typing!Closed(S)',
                        NEW u \in Typing!Values, type_id'[u] # Typing!Invalid
                 PROVE  u \in S
      BY DEF Resolved, HasType
    <3>1. Typing!Closed(S)
      BY DEF Typing!Closed
    <3>2. a \in S /\ b \in S
      BY <2>1, <2>4, <3>1 DEF Resolved, HasType
    <3>3. CASE u = v
      BY <2>1, <3>1, <3>2, <3>3 DEF Typing!Closed
    <3>4. CASE u # v
      BY <2>7, <3>1, <3>4 DEF Resolved, HasType
    <3> QED
      BY <3>3, <3>4
  <2> QED
    BY <2>3, <2>6, <2>7, <2>8, <2>9, <2>10
<1> QED
  BY <1>1, <1>2

\* Before the first pass every value has the type it was read with.
LEMMA TypesInitially == ASSUME Typing!OperandsAssumption, Typing!Init PROVE TypesInv
<1>1. insts \in [Typing!Values -> Typing!Known \cup Typing!Joins]
  BY DEF Typing!Init
<1>2. \A v \in Typing!Values : type_id[v] = insts[v].type
  BY DEF Typing!Init
<1>3. \A v \in Typing!Values : insts[v].type \in Typing!Types \cup {Typing!Invalid}
  BY <1>1 DEF Typing!Known, Typing!Joins
<1>4. type_id \in [Typing!Values -> Typing!Types \cup {Typing!Invalid}]
  BY <1>3 DEF Typing!Init
<1>5. Shapes
  BY <1>1, <1>4 DEF Shapes, Typing!Init
<1>6. ListApart
  BY DEF Typing!Init, ListApart
<1>7. KnownTyped /\ TypesFit
  BY <1>1, <1>2, OperandShapes DEF KnownTyped, TypesFit, HasType
<1>8. \A S \in SUBSET Typing!Values : Typing!Closed(S) => Resolved \subseteq S
  BY <1>1, <1>2, OperandShapes DEF Typing!Closed, Resolved, HasType
<1>9. FirstInv
  <2>1. \A v \in Typing!Values : ~Listed(v)
    BY DEF Listed, Typing!Init
  <2>2. \A v \in Typing!Values : ~(v < 1)
    BY DEF Typing!Values, Typing!OperandsAssumption
  <2> QED
    BY <1>2, <2>1, <2>2 DEF FirstInv, Typing!Init, Typing!OperandsAssumption
<1> QED
  BY <1>5, <1>6, <1>7, <1>8, <1>9 DEF TypesInv, AgainInv, EndInv, Typing!Init

\* The first pass types a value or puts it on the list, at its end.
LEMMA FirstTryKeeps == ASSUME Typing!OperandsAssumption, TypesInv, Typing!FirstTry PROVE TypesInv'
<1>1. /\ type_phase = "first" /\ type_n <= TypeValues /\ type_n \in Typing!Values
      /\ type_n' = type_n + 1
      /\ insts' = insts /\ last_invalid' = last_invalid /\ last_invalid = 0
  BY DEF Typing!FirstTry, TypesInv, Shapes, FirstInv, Typing!Values, Typing!OperandsAssumption
<1>2. /\ \A v \in Typing!Values : Listed(v) <=> v < type_n /\ ~HasType(v)
      /\ \A v \in Typing!Values : v >= type_n => type_id[v] = insts[v].type
  BY <1>1 DEF TypesInv, FirstInv
<1>3. /\ insts[type_n].operands # <<>> => ~HasType(type_n)
      /\ insts[type_n].operands = <<>> => HasType(type_n)
  BY <1>1, <1>2, OperandShapes DEF HasType, TypesInv, Shapes, Typing!Values
<1>4. CASE Typing!Resolves(type_n)
  <2>1. Typing!Assign(type_n, type_phase) /\ invalid' = invalid
    BY <1>4 DEF Typing!FirstTry
  <2>2. Shapes'
    <3>1. type_id' \in [Typing!Values -> Typing!Types \cup {Typing!Invalid}]
          /\ type_phase' \in {"first", "mismatch"}
      <4>1. CASE insts[type_n].operands = <<>>
        BY <1>1, <2>1, <4>1 DEF Typing!Assign, TypesInv, Shapes
      <4>2. CASE insts[type_n].operands # <<>>
        <5> DEFINE a == insts[type_n].operands[1]
                   b == insts[type_n].operands[2]
        <5>1. a \in Typing!Values /\ b \in Typing!Values
          BY <1>1, <4>2, OperandShapes DEF TypesInv, Shapes
        <5>2. Typing!ImplicitCast(type_id[a], type_id[b]) \in Typing!Types \cup {Typing!Invalid}
          BY <5>1 DEF Typing!ImplicitCast, TypesInv, Shapes
        <5> QED
          BY <1>1, <2>1, <4>2, <5>2 DEF Typing!Assign, TypesInv, Shapes
      <4> QED
        BY <4>1, <4>2
    <3> QED
      BY <1>1, <2>1, <3>1 DEF TypesInv, Shapes
  <2>3. CASE type_phase' = "mismatch"
    BY <2>2, <2>3 DEF TypesInv, FirstInv, AgainInv, EndInv
  <2>4. CASE type_phase' # "mismatch"
    <3>1. /\ type_phase' = type_phase
          /\ type_id'[type_n] # Typing!Invalid
          /\ \A u \in Typing!Values : u # type_n => type_id'[u] = type_id[u]
          /\ KnownTyped' /\ TypesFit'
          /\ (\A S \in SUBSET Typing!Values : Typing!Closed(S) => Resolved \subseteq S)'
      BY <1>1, <1>3, <1>4, <2>1, <2>4, AssignSound DEF TypesInv
    <3>2. ListApart'
      BY <1>1, <2>1 DEF TypesInv, ListApart
    <3>3. FirstInv'
      <4>2. \A v \in Typing!Values : Listed(v)' <=> (v < type_n' /\ type_id'[v] = Typing!Invalid)
        BY <1>1, <1>2, <2>1, <3>1 DEF Listed, HasType, Typing!Values, TypesInv, Shapes
      <4>3. \A v \in Typing!Values : v >= type_n' => type_id'[v] = insts[v].type
        BY <1>1, <1>2, <3>1 DEF Typing!Values, TypesInv, Shapes
      <4>4. type_n' <= TypeValues + 1
        BY <1>1 DEF Typing!OperandsAssumption, TypesInv, Shapes
      <4> QED
        BY <1>1, <4>2, <4>3, <4>4 DEF FirstInv, HasType
    <3> QED
      BY <1>1, <2>2, <3>1, <3>2, <3>3 DEF TypesInv, AgainInv, EndInv
  <2> QED
    BY <2>3, <2>4
<1>5. CASE ~Typing!Resolves(type_n)
  <2>1. invalid' = Append(invalid, type_n) /\ type_id' = type_id /\ type_phase' = type_phase
    BY <1>5 DEF Typing!FirstTry
  <2>2. /\ invalid \in Seq(Typing!Values) /\ invalid' \in Seq(Typing!Values)
        /\ Len(invalid') = Len(invalid) + 1
        /\ \A k \in 1..Len(invalid) : invalid'[k] = invalid[k]
        /\ invalid'[Len(invalid) + 1] = type_n
        /\ DOMAIN invalid = 1..Len(invalid) /\ DOMAIN invalid' = 1..(Len(invalid) + 1)
        /\ Len(invalid) \in Nat
    BY <1>1, <2>1 DEF TypesInv, Shapes
  <2>3. Shapes'
    BY <1>1, <2>1, <2>2 DEF TypesInv, Shapes
  <2>4. \A k \in 1..Len(invalid) : invalid[k] < type_n
    BY <1>2, <2>2 DEF Listed
  <2>5. ListApart'
    <3> SUFFICES ASSUME NEW j \in 1..(Len(invalid) + 1), NEW k \in 1..(Len(invalid) + 1),
                        invalid'[j] = invalid'[k]
                 PROVE  j = k
      BY <2>2 DEF ListApart
    <3>1. CASE j \in 1..Len(invalid) /\ k \in 1..Len(invalid)
      BY <1>1, <2>2, <3>1 DEF TypesInv, ListApart
    <3>2. CASE ~(j \in 1..Len(invalid) /\ k \in 1..Len(invalid))
      BY <1>1, <2>2, <2>4, <3>2 DEF Typing!Values
    <3> QED
      BY <3>1, <3>2
  <2>6. \A v \in Typing!Values : Listed(v)' <=> (Listed(v) \/ v = type_n)
    <3> TAKE v \in Typing!Values
    <3>1. Listed(v) => Listed(v)'
      BY <2>2 DEF Listed
    <3>2. v = type_n => Listed(v)'
      BY <2>2 DEF Listed
    <3>3. Listed(v)' => Listed(v) \/ v = type_n
      <4> SUFFICES ASSUME NEW k \in 1..(Len(invalid) + 1),
                          invalid'[k] = v PROVE Listed(v) \/ v = type_n
        BY <2>2 DEF Listed
      <4> QED
        BY <2>2 DEF Listed
    <3> QED
      BY <3>1, <3>2, <3>3
  <2>7. ~HasType(type_n)
    <3>1. insts[type_n].operands # <<>>
      BY <1>1, <1>5, OperandShapes DEF Typing!Resolves, TypesInv, Shapes
    <3> QED
      BY <1>3, <3>1
  <2>8. FirstInv'
    <3>1. \A v \in Typing!Values : Listed(v)' <=> v < type_n' /\ ~HasType(v)'
      BY <1>1, <1>2, <2>1, <2>6, <2>7 DEF HasType, Typing!Values, TypesInv, Shapes
    <3>2. \A v \in Typing!Values : v >= type_n' => type_id'[v] = insts'[v].type
      BY <1>1, <1>2, <2>1 DEF Typing!Values, TypesInv, Shapes
    <3> QED
      BY <1>1, <2>1, <3>1, <3>2 DEF FirstInv, Typing!OperandsAssumption, TypesInv, Shapes
  <2>9. KnownTyped' /\ TypesFit'
        /\ (\A S \in SUBSET Typing!Values : Typing!Closed(S) => Resolved \subseteq S)'
    BY <1>1, <2>1 DEF TypesInv, KnownTyped, TypesFit, Typing!Closed, Resolved, HasType
  <2> QED
    BY <1>1, <2>1, <2>3, <2>5, <2>8, <2>9 DEF TypesInv, AgainInv, EndInv
<1> QED
  BY <1>4, <1>5

\* A round starts, or the passes end: with nothing left, or with nothing gained.
LEMMA BeginRoundKeeps == ASSUME Typing!OperandsAssumption, TypesInv, Typing!BeginRound PROVE TypesInv'
<1>1. /\ insts' = insts /\ type_id' = type_id /\ invalid' = invalid
      /\ type_n' = 1 /\ last_invalid' = Len(invalid) /\ Len(invalid) \in Nat
      /\ type_phase # "mismatch"
      /\ DOMAIN invalid = 1..Len(invalid)
  BY DEF Typing!BeginRound, TypesInv, Shapes
<1>2. \A v \in Typing!Values : Listed(v) <=> ~HasType(v)
  <2>1. CASE type_phase = "first" /\ type_n > TypeValues
    BY <2>1 DEF TypesInv, FirstInv, Typing!Values, Shapes, Typing!OperandsAssumption
  <2>2. CASE type_phase = "again"
    BY <2>2 DEF TypesInv, AgainInv
  <2> QED
    BY <2>1, <2>2 DEF Typing!BeginRound
<1>3. /\ ListApart' /\ KnownTyped' /\ TypesFit'
      /\ (\A S \in SUBSET Typing!Values : Typing!Closed(S) => Resolved \subseteq S)'
  BY <1>1 DEF TypesInv, ListApart, KnownTyped, TypesFit, Typing!Closed, Resolved, HasType
<1>4. CASE invalid = <<>>
  <2>1. type_phase' = "done"
    BY <1>4 DEF Typing!BeginRound
  <2>2. \A v \in Typing!Values : HasType(v)
    BY <1>1, <1>2, <1>4 DEF Listed
  <2>3. EndInv'
    BY <1>1, <2>1, <2>2 DEF EndInv, HasType
  <2>4. Shapes'
    BY <1>1, <2>1 DEF TypesInv, Shapes
  <2> QED
    BY <1>3, <2>1, <2>3, <2>4 DEF TypesInv, FirstInv, AgainInv
<1>5. CASE invalid # <<>> /\ last_invalid # Len(invalid)
  <2>1. type_phase' = "again"
    BY <1>5 DEF Typing!BeginRound
  <2>2. AgainInv'
    <3>1. \A v \in Typing!Values : Listed(v)' <=> ~HasType(v)'
      BY <1>1, <1>2 DEF Listed, HasType
    <3> QED
      BY <1>1, <2>1, <3>1 DEF AgainInv
  <2>3. Shapes'
    BY <1>1, <2>1 DEF TypesInv, Shapes
  <2> QED
    BY <1>3, <2>1, <2>2, <2>3 DEF TypesInv, FirstInv, EndInv
<1>6. CASE invalid # <<>> /\ last_invalid = Len(invalid)
  <2>1. type_phase' = "unresolved"
    BY <1>6 DEF Typing!BeginRound
  <2>2. Len(invalid) # 0
    BY <1>6 DEF TypesInv, Shapes
  <2>3. type_phase = "again" /\ type_n > Len(invalid)
    BY <1>6, <2>2 DEF Typing!BeginRound, TypesInv, FirstInv
  <2>4. \A k \in 1..Len(invalid) : ~Typing!Resolves(invalid[k])
    BY <1>1, <1>6, <2>3 DEF TypesInv, AgainInv, Shapes
  <2>5. \A v \in Typing!Values : ~HasType(v) => ~Typing!Resolves(v)
    BY <1>1, <1>2, <2>4 DEF Listed
  <2>6. \E v \in Typing!Values : ~HasType(v)
    <3>1. invalid[1] \in Typing!Values /\ Listed(invalid[1])
      BY <1>1, <2>2 DEF TypesInv, Shapes, Listed
    <3> QED
      BY <1>2, <3>1
  <2>7. EndInv'
    BY <1>1, <2>1, <2>5, <2>6 DEF EndInv, HasType, Typing!Resolves
  <2>8. Shapes'
    BY <1>1, <2>1 DEF TypesInv, Shapes
  <2> QED
    BY <1>3, <2>1, <2>7, <2>8 DEF TypesInv, FirstInv, AgainInv
<1> QED
  BY <1>4, <1>5, <1>6

\* A value of the list is typed and leaves it, or stays; the last one takes its place.
LEMMA TryAgainKeeps == ASSUME Typing!OperandsAssumption, TypesInv, Typing!TryAgain PROVE TypesInv'
<1> DEFINE len == Len(invalid)
<1>1. /\ type_phase = "again" /\ type_n \in 1..len /\ len \in Nat /\ invalid \in Seq(Typing!Values)
      /\ DOMAIN invalid = 1..len /\ invalid[type_n] \in Typing!Values
      /\ insts' = insts /\ last_invalid' = last_invalid
  BY DEF Typing!TryAgain, TypesInv, Shapes
<1>2. /\ \A v \in Typing!Values : Listed(v) <=> ~HasType(v)
      /\ len <= last_invalid /\ last_invalid \in Nat
      /\ len = last_invalid => \A k \in 1..(type_n - 1) : ~Typing!Resolves(invalid[k])
  BY <1>1 DEF TypesInv, AgainInv, Shapes
<1>a. /\ type_n \in Nat /\ type_n <= len /\ len \in Nat
      /\ last_invalid \in Nat /\ len <= last_invalid /\ last_invalid' = last_invalid
  <2>1. type_n \in 1..len /\ len \in Nat /\ len <= last_invalid /\ last_invalid \in Nat
        /\ last_invalid' = last_invalid
    BY <1>1, <1>2
  <2> HIDE DEF len
  <2> QED
    BY <2>1
<1>3. ~HasType(invalid[type_n])
  BY <1>1, <1>2 DEF Listed
<1>4. CASE Typing!Resolves(invalid[type_n])
  <2> DEFINE v == invalid[type_n]
  <2>1. /\ Typing!Assign(v, type_phase) /\ type_n' = type_n
        /\ invalid' = SubSeq([invalid EXCEPT ![type_n] = invalid[len]], 1, len - 1)
    BY <1>4 DEF Typing!TryAgain
  <2>2. /\ invalid' \in Seq(Typing!Values) /\ Len(invalid') = len - 1
        /\ DOMAIN invalid' = 1..(len - 1)
        /\ \A k \in 1..(len - 1) : invalid'[k] = IF k = type_n THEN invalid[len] ELSE invalid[k]
    <3> DEFINE moved == [invalid EXCEPT ![type_n] = invalid[len]]
    <3>1. moved \in Seq(Typing!Values) /\ Len(moved) = len
          /\ \A k \in 1..len : moved[k] = IF k = type_n THEN invalid[len] ELSE invalid[k]
      BY <1>1
    <3> HIDE DEF moved
    <3>2. invalid' = SubSeq(moved, 1, len - 1)
      BY <2>1 DEF moved
    <3> QED
      BY <1>1, <3>1, <3>2
  <2>3. insts[v].operands # <<>> /\ type_phase' \in {"again", "mismatch"}
        /\ type_id' \in [Typing!Values -> Typing!Types \cup {Typing!Invalid}]
    <3>1. insts[v].operands # <<>>
      <4>1. SUFFICES ASSUME insts[v].operands = <<>> PROVE FALSE
        OBVIOUS
      <4>2. UNCHANGED type_id
        BY <2>1, <4>1 DEF Typing!Assign
      <4> QED
        BY <1>1, <1>3, <4>1 DEF TypesInv, KnownTyped
    <3> DEFINE a == insts[v].operands[1]
               b == insts[v].operands[2]
    <3>2. a \in Typing!Values /\ b \in Typing!Values
      BY <1>1, <3>1, OperandShapes DEF TypesInv, Shapes
    <3>3. Typing!ImplicitCast(type_id[a], type_id[b]) \in Typing!Types \cup {Typing!Invalid}
      BY <3>2 DEF Typing!ImplicitCast, TypesInv, Shapes
    <3> QED
      BY <1>1, <2>1, <3>1, <3>3 DEF Typing!Assign, TypesInv, Shapes
  <2>4. Shapes'
    BY <1>1, <2>1, <2>2, <2>3 DEF TypesInv, Shapes
  <2>5. CASE type_phase' = "mismatch"
    BY <2>4, <2>5 DEF TypesInv, FirstInv, AgainInv, EndInv
  <2>6. CASE type_phase' = "again"
    <3>1. /\ type_id'[v] # Typing!Invalid
          /\ \A u \in Typing!Values : u # v => type_id'[u] = type_id[u]
          /\ KnownTyped' /\ TypesFit'
          /\ (\A S \in SUBSET Typing!Values : Typing!Closed(S) => Resolved \subseteq S)'
      BY <1>1, <1>3, <1>4, <2>1, <2>3, <2>6, AssignSound DEF TypesInv
    <3>2. ListApart
      BY <1>1 DEF TypesInv
    <3>3. ListApart'
      BY <1>1, <2>2, <3>2 DEF ListApart
    <3>4. \A u \in Typing!Values : Listed(u)' <=> Listed(u) /\ u # v
      <4> TAKE u \in Typing!Values
      <4>1. Listed(u)' => Listed(u) /\ u # v
        BY <1>1, <2>2, <3>2 DEF Listed, ListApart
      <4>2. ASSUME Listed(u), u # v PROVE Listed(u)'
        <5>1. PICK k \in 1..len : invalid[k] = u
          BY <1>1, <4>2 DEF Listed
        <5>2. CASE k = len
          <6>1. type_n \in 1..(len - 1) /\ invalid'[type_n] = u
            BY <1>1, <2>2, <4>2, <5>1, <5>2
          <6> QED
            BY <2>2, <6>1 DEF Listed
        <5>3. CASE k # len
          <6>1. k # type_n
            BY <4>2, <5>1
          <6>2. k \in 1..(len - 1)
            BY <1>a, <5>3
          <6>3. invalid'[k] = u
            BY <2>2, <5>1, <6>1, <6>2
          <6> QED
            BY <2>2, <6>2, <6>3 DEF Listed
        <5> QED
          BY <5>2, <5>3
      <4> QED
        BY <4>1, <4>2
    <3>5. \A u \in Typing!Values : Listed(u)' <=> ~HasType(u)'
      BY <1>1, <1>2, <3>1, <3>4 DEF HasType
    <3>6. /\ type_n' <= Len(invalid') + 1 /\ Len(invalid') <= last_invalid'
          /\ Len(invalid') # last_invalid'
      <4>1. type_n' = type_n /\ Len(invalid') = len - 1
        BY <2>1, <2>2
      <4> HIDE DEF len
      <4> QED
        BY <1>a, <4>1
    <3>7. AgainInv'
      BY <3>5, <3>6 DEF AgainInv
    <3> QED
      BY <2>4, <2>6, <3>1, <3>3, <3>7 DEF TypesInv, FirstInv, EndInv
  <2> QED
    BY <2>3, <2>5, <2>6
<1>5. CASE ~Typing!Resolves(invalid[type_n])
  <2>1. type_id' = type_id /\ type_phase' = type_phase /\ invalid' = invalid /\ type_n' = type_n + 1
    BY <1>5 DEF Typing!TryAgain
  <2>2. Shapes'
    BY <1>1, <2>1 DEF TypesInv, Shapes
  <2>3. /\ ListApart' /\ KnownTyped' /\ TypesFit'
        /\ (\A S \in SUBSET Typing!Values : Typing!Closed(S) => Resolved \subseteq S)'
    BY <1>1, <2>1 DEF TypesInv, ListApart, KnownTyped, TypesFit, Typing!Closed, Resolved, HasType
  <2>4. AgainInv'
    <3>1. \A u \in Typing!Values : Listed(u)' <=> ~HasType(u)'
      BY <1>2, <2>1 DEF Listed, HasType
    <3>2. len = last_invalid => \A k \in 1..type_n : ~Typing!Resolves(invalid[k])
      BY <1>1, <1>2, <1>5
    <3>3. \A u \in Typing!Values : Typing!Resolves(u)' = Typing!Resolves(u)
      BY <1>1, <2>1 DEF Typing!Resolves
    <3>4. ASSUME Len(invalid') = last_invalid', NEW k \in 1..(type_n' - 1)
          PROVE  ~Typing!Resolves(invalid[k])'
      <4>1. k \in 1..type_n /\ invalid[k] \in Typing!Values /\ len = last_invalid
        BY <1>1, <2>1, <3>4
      <4>2. ~Typing!Resolves(invalid[k])
        BY <3>2, <4>1
      <4> QED
        BY <1>1, <2>1, <4>2 DEF Typing!Resolves
    <3>5. type_n' <= Len(invalid') + 1 /\ Len(invalid') <= last_invalid'
      <4>1. type_n' = type_n + 1 /\ Len(invalid') = len
        BY <2>1
      <4> HIDE DEF len
      <4> QED
        BY <1>a, <4>1
    <3> QED
      BY <2>1, <3>1, <3>4, <3>5 DEF AgainInv
  <2> QED
    BY <1>1, <2>1, <2>2, <2>3, <2>4 DEF TypesInv, FirstInv, EndInv
<1> QED
  BY <1>4, <1>5

\* What has ended does not change.
LEMMA EndedKeeps == ASSUME TypesInv, UNCHANGED Typing!vars PROVE TypesInv'
<1>1. Shapes' /\ ListApart' /\ KnownTyped' /\ TypesFit'
      <=> Shapes /\ ListApart /\ KnownTyped /\ TypesFit
  BY DEF Typing!vars, Shapes, ListApart, KnownTyped, TypesFit, HasType
<1>2. (\A S \in SUBSET Typing!Values : Typing!Closed(S) => Resolved \subseteq S)' <=>
        \A S \in SUBSET Typing!Values : Typing!Closed(S) => Resolved \subseteq S
  BY DEF Typing!vars, Typing!Closed, Resolved, HasType
<1>3. FirstInv' <=> FirstInv
  BY DEF Typing!vars, FirstInv, Listed, HasType
<1>4. AgainInv' <=> AgainInv
  BY DEF Typing!vars, AgainInv, Listed, HasType, Typing!Resolves
<1>5. EndInv' <=> EndInv
  BY DEF Typing!vars, EndInv, HasType, Typing!Resolves
<1>6. Shapes' <=> Shapes
  BY DEF Typing!vars, Shapes
<1> QED
  BY <1>1, <1>2, <1>3, <1>4, <1>5, <1>6 DEF TypesInv, Typing!vars

\* The invariant gives what TypesResolved says.
LEMMA TypesAnswer ==
  ASSUME Typing!OperandsAssumption, TypesInv
  PROVE  Typing!GivesUpOnlyOnCycles /\ Typing!ResultsFitOperands
<1>1. ASSUME type_phase = "unresolved" PROVE Typing!Determined # Typing!Values
  <2>1. /\ \A v \in Typing!Values : ~HasType(v) => ~Typing!Resolves(v)
        /\ \A S \in SUBSET Typing!Values : Typing!Closed(S) => Resolved \subseteq S
    BY <1>1 DEF TypesInv, EndInv
  <2>2. PICK v \in Typing!Values : ~HasType(v)
    BY <1>1 DEF TypesInv, EndInv
  <2>3. Typing!Closed(Resolved)
    BY <2>1 DEF Typing!Closed, Resolved, Typing!Resolves, HasType
  <2>4. Resolved \in SUBSET Typing!Values /\ v \notin Resolved
    BY <2>2 DEF Resolved
  <2>5. v \notin Typing!Determined
    BY <2>3, <2>4 DEF Typing!Determined
  <2> QED
    BY <2>5
<1>2. ASSUME type_phase = "done" PROVE Typing!Determined = Typing!Values
  <2>1. /\ \A v \in Typing!Values : HasType(v)
        /\ \A S \in SUBSET Typing!Values : Typing!Closed(S) => Resolved \subseteq S
    BY <1>2 DEF TypesInv, EndInv
  <2> QED
    BY <2>1 DEF Typing!Determined, Resolved
<1>3. Typing!ResultsFitOperands
  BY DEF Typing!ResultsFitOperands, TypesInv, EndInv, TypesFit, HasType
<1> QED
  BY <1>1, <1>2, <1>3 DEF Typing!GivesUpOnlyOnCycles

-----------------------------------------------------------------------------
(* Sequences of sequences.                                                  *)

\* flat are the first num of seqs, one behind the other; from says which one each is of.
Joined(flat, seqs, num, from) ==
  /\ DOMAIN from = 1..Len(flat)
  /\ \A k \in 1..Len(flat) : from[k] \in 1..num
                             /\ \E j \in 1..Len(seqs[from[k]]) : seqs[from[k]][j] = flat[k]
  /\ \A i \in 1..num : \A j \in 1..Len(seqs[i]) :
       \E k \in 1..Len(flat) : from[k] = i /\ flat[k] = seqs[i][j]
  /\ \A k, l \in 1..Len(flat) : k < l => from[k] <= from[l]

\* One more sequence behind those that are joined.
LEMMA JoinedMore ==
  ASSUME NEW T, NEW seqs \in Seq(Seq(T)), NEW num \in Nat, num < Len(seqs), NEW flat \in Seq(T),
         NEW from,
         Joined(flat, seqs, num, from)
  PROVE  \E more : Joined(flat \o seqs[num + 1], seqs, num + 1, more)
<1> DEFINE s == seqs[num + 1]
           all == flat \o s
           more == [k \in 1..(Len(flat) + Len(s)) |-> IF k <= Len(flat) THEN from[k] ELSE num + 1]
<1>1. /\ num + 1 \in 1..Len(seqs) /\ s \in Seq(T) /\ Len(s) \in Nat /\ Len(flat) \in Nat
      /\ Len(seqs) \in Nat
  OBVIOUS
<1>2. /\ all \in Seq(T) /\ Len(all) = Len(flat) + Len(s)
      /\ \A k \in 1..Len(flat) : all[k] = flat[k]
      /\ \A k \in 1..Len(s) : all[Len(flat) + k] = s[k]
  BY <1>1
<1> HIDE DEF all
<1>3. /\ \A k \in 1..Len(flat) : k \in 1..Len(all) /\ more[k] = from[k] /\ from[k] \in 1..num
      /\ \A k \in 1..Len(s) : Len(flat) + k \in 1..Len(all) /\ more[Len(flat) + k] = num + 1
  BY <1>1, <1>2 DEF Joined
<1>4. ASSUME NEW k \in 1..Len(all)
      PROVE  k \in 1..Len(flat) \/ \E j \in 1..Len(s) : k = Len(flat) + j
  <2>1. CASE k <= Len(flat)
    BY <1>1, <2>1
  <2>2. CASE k > Len(flat)
    <3>1. k - Len(flat) \in 1..Len(s) /\ k = Len(flat) + (k - Len(flat))
      BY <1>1, <1>2, <2>2
    <3> QED BY <3>1
  <2> QED BY <1>1, <2>1, <2>2
<1>5. DOMAIN more = 1..Len(all)
  BY <1>2
<1>b. \A k \in 1..Len(s) :
        /\ Len(flat) + k \in 1..Len(all) /\ more[Len(flat) + k] = num + 1
        /\ all[Len(flat) + k] = s[k]
  BY <1>2, <1>3
<1> HIDE DEF more
<1>6. ASSUME NEW k \in 1..Len(all)
      PROVE  more[k] \in 1..(num + 1) /\ \E j \in 1..Len(seqs[more[k]]) : seqs[more[k]][j] = all[k]
  <2>1. CASE k \in 1..Len(flat)
    <3>1. more[k] = from[k] /\ from[k] \in 1..num /\ all[k] = flat[k]
      BY <1>2, <1>3, <2>1
    <3>2. \E j \in 1..Len(seqs[from[k]]) : seqs[from[k]][j] = flat[k]
      BY <2>1 DEF Joined
    <3>3. from[k] \in 1..(num + 1)
      BY <3>1
    <3> QED BY <3>1, <3>2, <3>3
  <2>2. CASE \E j \in 1..Len(s) : k = Len(flat) + j
    <3>1. PICK j \in 1..Len(s) : k = Len(flat) + j
      BY <2>2
    <3>2. more[k] = num + 1 /\ all[k] = s[j]
      <4> HIDE DEF s
      <4> QED BY <1>b, <3>1, Zenon
    <3>3. num + 1 \in 1..(num + 1)
      OBVIOUS
    <3> QED BY <3>2, <3>3
  <2> QED BY <1>4, <2>1, <2>2
<1>7. ASSUME NEW i \in 1..(num + 1), NEW j \in 1..Len(seqs[i])
      PROVE  \E k \in 1..Len(all) : more[k] = i /\ all[k] = seqs[i][j]
  <2>1. CASE i = num + 1
    <3>1. j \in 1..Len(s)
      BY <2>1
    <3>2. Len(flat) + j \in 1..Len(all) /\ more[Len(flat) + j] = num + 1
          /\ all[Len(flat) + j] = s[j]
      <4> HIDE DEF s
      <4> QED BY <1>b, <3>1, Zenon
    <3> QED BY <2>1, <3>2
  <2>2. CASE i # num + 1
    <3>1. i \in 1..num
      BY <2>2
    <3>2. PICK k \in 1..Len(flat) : from[k] = i /\ flat[k] = seqs[i][j]
      BY <3>1 DEF Joined
    <3> QED BY <1>2, <1>3, <3>2
  <2> QED BY <2>1, <2>2
<1>8. ASSUME NEW k \in 1..Len(all), NEW l \in 1..Len(all), k < l PROVE more[k] <= more[l]
  <2>1. CASE l \in 1..Len(flat)
    <3>1. k \in 1..Len(flat)
      BY <1>1, <1>8, <2>1
    <3>2. from[k] <= from[l]
      BY <1>8, <2>1, <3>1 DEF Joined
    <3> QED BY <1>3, <2>1, <3>1, <3>2
  <2>2. CASE \E j \in 1..Len(s) : l = Len(flat) + j
    <3>1. more[l] = num + 1 /\ more[k] \in 1..(num + 1)
      BY <1>3, <1>6, <2>2
    <3> QED BY <3>1
  <2> QED BY <1>4, <2>1, <2>2
<1>9. Joined(all, seqs, num + 1, more)
  BY <1>5, <1>6, <1>7, <1>8 DEF Joined
<1> QED BY <1>9 DEF all

\* FlattenSeq joins all the sequences.
LEMMA Flattened ==
  ASSUME NEW T, NEW seqs \in Seq(Seq(T))
  PROVE  /\ FlattenSeq(seqs) \in Seq(T)
         /\ \E from : Joined(FlattenSeq(seqs), seqs, Len(seqs), from)
<1> DEFINE N == Len(seqs)
<1>1. N \in Nat /\ \A i \in 1..N : seqs[i] \in Seq(T)
  OBVIOUS
<1>2. CASE N = 0
  <2>1. FlattenSeq(seqs) = seqs /\ seqs = <<>>
    BY <1>2 DEF FlattenSeq
  <2>2. Len(seqs) = 0
    BY <1>2
  <2>3. Joined(seqs, seqs, 0, <<>>)
    BY <2>1, <2>2 DEF Joined
  <2> QED BY <2>1, <2>2, <2>3
<1>3. CASE N # 0
  <2> DEFINE S == Seq(T)
             g == [k \in 1..N |-> [y \in S |-> y \o seqs[k]]]
             W(c) == c = [i \in 1..N |-> IF i = 1 THEN seqs[i] ELSE c[i - 1] \o seqs[i]]
  <2>1. g \in [1..N -> [S -> S]]
    BY <1>1
  <2>2. <<>> \in S
    OBVIOUS
  <2>a. PICK f : Steps(f, N, S, g, <<>>)
    <3> HIDE DEF S, g, N
    <3> QED BY <1>1, <2>1, <2>2, Stepped
  <2>3. f \in [0..N -> S] /\ f[0] = <<>> /\ \A k \in 1..N : f[k] = g[k][f[k - 1]]
    BY <2>a DEF Steps
  <2>4. \A k \in 1..N : f[k - 1] \in S /\ f[k] = f[k - 1] \o seqs[k]
    <3> SUFFICES ASSUME NEW k \in 1..N PROVE f[k - 1] \in S /\ f[k] = f[k - 1] \o seqs[k]
      OBVIOUS
    <3>1. k - 1 \in 0..N
      BY <1>1
    <3>2. f[k - 1] \in S
      BY <2>3, <3>1
    <3>3. f[k] = g[k][f[k - 1]]
      BY <2>3
    <3> HIDE DEF S
    <3> QED BY <3>2, <3>3
  <2>5. 1 \in 1..N /\ f[1] = seqs[1]
    <3>1. 1 \in 1..N /\ 1 - 1 = 0
      BY <1>1, <1>3
    <3>2. f[1] = f[1 - 1] \o seqs[1] /\ f[1 - 1] = <<>> /\ seqs[1] \in Seq(T)
      <4> HIDE DEF N, g
      <4> QED BY <1>1, <2>3, <2>4, <3>1
    <3>3. \A s \in Seq(T) : <<>> \o s = s
      OBVIOUS
    <3> QED BY <3>1, <3>2, <3>3
  <2> DEFINE c == [i \in 1..N |-> f[i]]
  <2>6. W(c)
    <3>1. \A i \in 1..N : f[i] = IF i = 1 THEN seqs[i] ELSE c[i - 1] \o seqs[i]
      <4> SUFFICES ASSUME NEW i \in 1..N
                   PROVE f[i] = IF i = 1 THEN seqs[i] ELSE c[i - 1] \o seqs[i]
        OBVIOUS
      <4>1. CASE i = 1
        BY <2>5, <4>1
      <4>2. CASE i # 1
        <5>1. i - 1 \in 1..N
          BY <1>1, <4>2
        <5>2. c[i - 1] = f[i - 1]
          BY <5>1
        <5> HIDE DEF c
        <5> QED BY <2>4, <4>2, <5>2
      <4> QED BY <4>1, <4>2
    <3>2. c = [i \in 1..N |-> IF i = 1 THEN seqs[i] ELSE c[i - 1] \o seqs[i]]
      BY <3>1, Zenon
    <3> QED BY <3>2
  <2> DEFINE h == CHOOSE d : W(d)
  <2>7. W(h)
    <3> HIDE DEF W
    <3> QED BY <2>6
  <2>8. h[1] = seqs[1] /\ \A i \in 2..N : h[i] = h[i - 1] \o seqs[i]
    <3>1. h = [i \in 1..N |-> IF i = 1 THEN seqs[i] ELSE h[i - 1] \o seqs[i]]
      BY <2>7
    <3>2. 1 \in 1..N /\ \A i \in 2..N : i \in 1..N /\ i # 1
      BY <1>1, <1>3
    <3> HIDE DEF h, N
    <3> QED BY <3>1, <3>2
  <2>9. FlattenSeq(seqs) = h[N]
    BY <1>3, Zenon DEF FlattenSeq
  <2> HIDE DEF h, W
  <2> DEFINE Good == {i \in 0..(N - 1) : h[i + 1] \in Seq(T) /\ \E from : Joined(h[i + 1], seqs, i + 1, from)}
  <2>10. 0 \in Good
    <3>1. Joined(<<>>, seqs, 0, <<>>)
      BY DEF Joined
    <3>2. \E from : Joined(<<>> \o seqs[0 + 1], seqs, 0 + 1, from)
      <4>1. 0 \in Nat /\ 0 < Len(seqs) /\ <<>> \in Seq(T)
        BY <1>1, <1>3
      <4> HIDE DEF N
      <4> QED BY <3>1, <4>1, JoinedMore
    <3>3. <<>> \o seqs[0 + 1] = h[1] /\ h[1] \in Seq(T) /\ 0 + 1 = 1 /\ 0 \in 0..(N - 1)
      BY <1>1, <1>3, <2>8
    <3> QED BY <3>2, <3>3
  <2>11. ASSUME NEW i \in 0..(N - 1), i < N - 1, i \in Good PROVE i + 1 \in Good
    <3>1. /\ i + 1 \in Nat /\ i + 1 < Len(seqs) /\ (i + 1) + 1 \in 2..N /\ i + 1 \in 0..(N - 1)
          /\ ((i + 1) + 1) - 1 = i + 1 /\ (i + 1) + 1 \in 1..N
      BY <1>1, <2>11
    <3>2. h[i + 1] \in Seq(T)
      BY <2>11
    <3>3. PICK from : Joined(h[i + 1], seqs, i + 1, from)
      BY <2>11
    <3>4. h[(i + 1) + 1] = h[i + 1] \o seqs[(i + 1) + 1]
      BY <2>8, <3>1
    <3>5. \E more : Joined(h[i + 1] \o seqs[(i + 1) + 1], seqs, (i + 1) + 1, more)
      <4> HIDE DEF N, Good
      <4> QED BY <3>1, <3>2, <3>3, JoinedMore
    <3>6. h[(i + 1) + 1] \in Seq(T)
      BY <1>1, <3>1, <3>2, <3>4
    <3> QED BY <3>1, <3>4, <3>5, <3>6
  <2>12. N - 1 \in Good
    <3>1. N - 1 \in Nat /\ N - 1 \in 0..(N - 1)
      BY <1>1, <1>3
    <3> HIDE DEF Good, N
    <3>2. \A i \in 0..(N - 1) : i \in Good
      BY <2>10, <2>11, <3>1, NatSetUpTo
    <3> QED BY <3>1, <3>2
  <2>13. (N - 1) + 1 = N
    BY <1>1
  <2> QED BY <2>9, <2>12, <2>13
<1> QED BY <1>2, <1>3

\* flat has the elements of the N sequences seqs, which are sequences over T.
FlatOf(flat, seqs, N, T) ==
  /\ flat \in Seq(T) /\ DOMAIN flat = 1..Len(flat) /\ Len(flat) \in Nat
  /\ \A k \in 1..Len(flat) : \E i \in 1..N : \E j \in 1..Len(seqs[i]) : seqs[i][j] = flat[k]
  /\ \A i \in 1..N : \A j \in 1..Len(seqs[i]) : \E k \in 1..Len(flat) : flat[k] = seqs[i][j]

\* flat has the elements r[i] for which P[i] holds.
OptionsOf(flat, P, r, N, T) ==
  /\ flat \in Seq(T) /\ DOMAIN flat = 1..Len(flat) /\ Len(flat) \in Nat
  /\ \A k \in 1..Len(flat) : \E i \in 1..N : P[i] /\ flat[k] = r[i]
  /\ \A i \in 1..N : P[i] => \E k \in 1..Len(flat) : flat[k] = r[i]

\* The elements of a flattened sequence of sequences.
LEMMA FlatElements ==
  ASSUME NEW T, NEW N \in Nat, NEW seqs, seqs \in [1..N -> Seq(T)]
  PROVE  FlatOf(FlattenSeq(seqs), seqs, N, T)
<1>1. seqs \in Seq(Seq(T)) /\ Len(seqs) = N
  OBVIOUS
<1>2. /\ FlattenSeq(seqs) \in Seq(T)
      /\ \E from : Joined(FlattenSeq(seqs), seqs, N, from)
  BY <1>1, Flattened
<1> DEFINE flat == FlattenSeq(seqs)
<1> HIDE DEF flat
<1>3. flat \in Seq(T) /\ \E from : Joined(flat, seqs, N, from)
  BY <1>2 DEF flat
<1>4. DOMAIN flat = 1..Len(flat) /\ Len(flat) \in Nat
  BY <1>3
<1>5. PICK from : Joined(flat, seqs, N, from)
  BY <1>3
<1>6. /\ \A k \in 1..Len(flat) : \E i \in 1..N : \E j \in 1..Len(seqs[i]) : seqs[i][j] = flat[k]
      /\ \A i \in 1..N : \A j \in 1..Len(seqs[i]) : \E k \in 1..Len(flat) : flat[k] = seqs[i][j]
  BY <1>5 DEF Joined
<1>7. FlatOf(flat, seqs, N, T)
  BY <1>3, <1>4, <1>6 DEF FlatOf
<1> QED BY <1>7 DEF flat

\* The same of a sequence of sequences of at most one element each.
LEMMA FlatOptions ==
  ASSUME NEW T, NEW N \in Nat, NEW P \in [1..N -> BOOLEAN], NEW r,
         \A i \in 1..N : P[i] => r[i] \in T
  PROVE  OptionsOf(FlattenSeq([i \in 1..N |-> IF ~P[i] THEN <<>> ELSE <<r[i]>>]), P, r, N, T)
<1> DEFINE s == [i \in 1..N |-> IF ~P[i] THEN <<>> ELSE <<r[i]>>]
<1>1. s \in [1..N -> Seq(T)]
  OBVIOUS
<1>2. \A i \in 1..N : IF P[i] THEN Len(s[i]) = 1 /\ s[i][1] = r[i] ELSE Len(s[i]) = 0
  OBVIOUS
<1> DEFINE flat == FlattenSeq(s)
<1>3. /\ flat \in Seq(T) /\ DOMAIN flat = 1..Len(flat) /\ Len(flat) \in Nat
      /\ \A k \in 1..Len(flat) : \E i \in 1..N : \E j \in 1..Len(s[i]) : s[i][j] = flat[k]
      /\ \A i \in 1..N : \A j \in 1..Len(s[i]) : \E k \in 1..Len(flat) : flat[k] = s[i][j]
  <2> HIDE DEF s
  <2>1. FlatOf(flat, s, N, T)
    BY <1>1, FlatElements
  <2> HIDE DEF flat
  <2> QED BY <2>1 DEF FlatOf
<1> HIDE DEF flat, s
<1>4. ASSUME NEW k \in 1..Len(flat) PROVE \E i \in 1..N : P[i] /\ flat[k] = r[i]
  <2>1. PICK i \in 1..N : \E j \in 1..Len(s[i]) : s[i][j] = flat[k]
    BY <1>3
  <2>2. PICK j \in 1..Len(s[i]) : s[i][j] = flat[k]
    BY <2>1
  <2>3. CASE P[i]
    <3>1. Len(s[i]) = 1 /\ s[i][1] = r[i]
      BY <1>2, <2>3
    <3>2. j = 1
      BY <3>1
    <3> QED BY <2>2, <2>3, <3>1, <3>2
  <2>4. CASE ~P[i]
    <3>1. Len(s[i]) = 0
      BY <1>2, <2>4
    <3> QED BY <3>1
  <2> QED BY <2>3, <2>4
<1>5. ASSUME NEW i \in 1..N, P[i] PROVE \E k \in 1..Len(flat) : flat[k] = r[i]
  <2>1. Len(s[i]) = 1 /\ s[i][1] = r[i] /\ 1 \in 1..Len(s[i])
    BY <1>2, <1>5
  <2>2. \E k \in 1..Len(flat) : flat[k] = s[i][1]
    BY <1>3, <2>1, Zenon
  <2> QED BY <2>1, <2>2
<1>6. OptionsOf(flat, P, r, N, T)
  BY <1>3, <1>4, <1>5 DEF OptionsOf
<1> QED BY <1>6 DEF flat, s

-----------------------------------------------------------------------------
(* PhiAssigns.                                                              *)

\* The same of the flattening that Phis uses.
LEMMA PhiFlatElements ==
  ASSUME NEW T, NEW N \in Nat, NEW seqs, seqs \in [1..N -> Seq(T)]
  PROVE  FlatOf(Phis!FlattenSeq(seqs), seqs, N, T)
<1>1. Phis!FlattenSeq(seqs) = FlattenSeq(seqs)
  BY DEF Phis!FlattenSeq, FlattenSeq
<1> QED BY <1>1, FlatElements

\* The same of the flattening that Phis uses.
LEMMA PhiFlatOptions ==
  ASSUME NEW T, NEW N \in Nat, NEW P \in [1..N -> BOOLEAN], NEW r,
         \A i \in 1..N : P[i] => r[i] \in T
  PROVE  OptionsOf(Phis!FlattenSeq([i \in 1..N |-> IF ~P[i] THEN <<>> ELSE <<r[i]>>]), P, r, N, T)
<1> DEFINE s == [i \in 1..N |-> IF ~P[i] THEN <<>> ELSE <<r[i]>>]
<1>1. Phis!FlattenSeq(s) = FlattenSeq(s)
  BY DEF Phis!FlattenSeq, FlattenSeq
<1>2. OptionsOf(FlattenSeq(s), P, r, N, T)
  BY FlatOptions
<1> QED BY <1>1, <1>2

-----------------------------------------------------------------------------
(* PhiAssigns.                                                              *)

\* A function with at most one successor that has phis (as in Init).
FuncOK ==
  /\ phi_func.succs \in [Phis!Bbs -> SUBSET (Phis!Bbs \ {Phis!Entry})]
  /\ phi_func.phi_bb \in [Phis!Values -> {Phis!None} \cup (Phis!Bbs \ {Phis!Entry})]
  /\ \A p \in Phis!Bbs : phi_func.incoming[p] \in [Phis!PhisFrom(phi_func.succs, phi_func.phi_bb, p) -> Phis!Values]
  /\ \A p \in Phis!Bbs : Phis!Cardinality(Phis!PhiSuccs(phi_func.succs, phi_func.phi_bb, p)) <= 1

Uses    == [dest : Phis!Values, bb : Phis!Bbs, source : Phis!Values]
Assigns == [bb : Phis!Bbs, dest : Phis!Values, source : Phis!Values]

\* A list of assignments gives every phi of a successor of block b its incoming value.
AssignsSound(assigns, b) ==
  /\ assigns \in Seq(Assigns)
  /\ \A k \in 1..Len(assigns) :
       /\ phi_func.phi_bb[assigns[k].dest] = assigns[k].bb
       /\ assigns[k].bb \in phi_func.succs[b]
       /\ assigns[k].source = phi_func.incoming[b][assigns[k].dest]
  /\ \A v \in Phis!Values : phi_func.phi_bb[v] \in phi_func.succs[b] =>
       \E k \in 1..Len(assigns) : assigns[k].dest = v

\* The phi uses of block d are its phis, each once for every predecessor.
LEMMA UsesSound ==
  ASSUME Phis!SizesAssumption, FuncOK, NEW d \in Phis!Bbs
  PROVE  LET uses == Phis!phi_uses(d) IN
         /\ uses \in Seq(Uses) /\ Len(uses) \in Nat
         /\ \A k \in 1..Len(uses) :
              /\ phi_func.phi_bb[uses[k].dest] = d /\ d \in phi_func.succs[uses[k].bb]
              /\ uses[k].source = phi_func.incoming[uses[k].bb][uses[k].dest]
         /\ \A v \in Phis!Values, p \in Phis!Bbs : phi_func.phi_bb[v] = d
                                                   /\ d \in phi_func.succs[p] =>
              \E k \in 1..Len(uses) : uses[k].dest = v /\ uses[k].bb = p
<1> DEFINE P == [p \in Phis!Bbs |-> d \in phi_func.succs[p]]
           R(v) == [p \in Phis!Bbs |-> [dest |-> v, bb |-> p, source |-> phi_func.incoming[p][v]]]
           Of(v) == Phis!FlattenSeq([p \in Phis!Bbs |-> IF ~P[p] THEN <<>> ELSE <<R(v)[p]>>])
           all == [v \in Phis!Values |-> IF phi_func.phi_bb[v] # d THEN <<>> ELSE Of(v)]
<1>1. PhiBbs \in Nat /\ PhiValues \in Nat /\ P \in [1..PhiBbs -> BOOLEAN]
      /\ Phis!Bbs = 1..PhiBbs /\ Phis!Values = 1..PhiValues
  BY DEF Phis!SizesAssumption, Phis!Bbs, Phis!Values
<1>2. ASSUME NEW v \in Phis!Values, phi_func.phi_bb[v] = d
      PROVE  /\ Of(v) \in Seq(Uses) /\ Len(Of(v)) \in Nat
             /\ \A k \in 1..Len(Of(v)) : \E p \in Phis!Bbs : P[p] /\ Of(v)[k] = R(v)[p]
             /\ \A p \in Phis!Bbs : P[p] => \E k \in 1..Len(Of(v)) : Of(v)[k] = R(v)[p]
  <2>1. \A p \in Phis!Bbs : P[p] => R(v)[p] \in Uses
    <3> SUFFICES ASSUME NEW p \in Phis!Bbs, d \in phi_func.succs[p]
                 PROVE  [dest |-> v, bb |-> p, source |-> phi_func.incoming[p][v]] \in Uses
      OBVIOUS
    <3>1. v \in Phis!PhisFrom(phi_func.succs, phi_func.phi_bb, p)
      BY <1>2 DEF Phis!PhisFrom
    <3>2. phi_func.incoming[p][v] \in Phis!Values
      BY <3>1 DEF FuncOK
    <3> QED BY <3>2 DEF Uses
  <2> DEFINE r == R(v)
  <2>2. \A p \in 1..PhiBbs : P[p] => r[p] \in Uses
    BY <1>1, <2>1
  <2> HIDE DEF P, r
  <2>3. OptionsOf(Phis!FlattenSeq([i \in 1..PhiBbs |-> IF ~P[i] THEN <<>> ELSE <<r[i]>>]), P, r, PhiBbs, Uses)
    BY <1>1, <2>2, PhiFlatOptions
  <2>4. Of(v) = Phis!FlattenSeq([i \in 1..PhiBbs |-> IF ~P[i] THEN <<>> ELSE <<r[i]>>])
    BY <1>1, Zenon DEF r
  <2> HIDE DEF Of
  <2>5. /\ Of(v) \in Seq(Uses) /\ Len(Of(v)) \in Nat
        /\ \A k \in 1..Len(Of(v)) : \E i \in 1..PhiBbs : P[i] /\ Of(v)[k] = r[i]
        /\ \A i \in 1..PhiBbs : P[i] => \E k \in 1..Len(Of(v)) : Of(v)[k] = r[i]
    BY <2>3, <2>4 DEF OptionsOf
  <2> QED BY <1>1, <2>5 DEF r
<1>3. Phis!phi_uses(d) = Phis!FlattenSeq(all)
  <2>1. \A v \in Phis!Values : Of(v) = Phis!FlattenSeq([p \in Phis!Bbs |->
           IF d \notin phi_func.succs[p] THEN <<>>
           ELSE <<[dest |-> v, bb |-> p, source |-> phi_func.incoming[p][v]]>>])
    <3> SUFFICES ASSUME NEW v \in Phis!Values
                 PROVE  [p \in Phis!Bbs |-> IF ~P[p] THEN <<>> ELSE <<R(v)[p]>>] =
                        [p \in Phis!Bbs |-> IF d \notin phi_func.succs[p] THEN <<>>
                            ELSE <<[dest |-> v, bb |-> p, source |-> phi_func.incoming[p][v]]>>]
      BY Zenon
    <3> QED OBVIOUS
  <2> HIDE DEF Of
  <2>2. all = [v \in Phis!Values |-> IF phi_func.phi_bb[v] # d THEN <<>>
                ELSE Phis!FlattenSeq([p \in Phis!Bbs |->
           IF d \notin phi_func.succs[p] THEN <<>>
           ELSE <<[dest |-> v, bb |-> p, source |-> phi_func.incoming[p][v]]>>])]
    BY <2>1, Zenon
  <2> HIDE DEF all
  <2> QED BY <2>2, Zenon DEF Phis!phi_uses
<1>4. all \in [1..PhiValues -> Seq(Uses)]
  <2> HIDE DEF Of, P
  <2> QED BY <1>1, <1>2
<1>5. \A v \in Phis!Values : IF phi_func.phi_bb[v] = d THEN all[v] = Of(v) ELSE Len(all[v]) = 0
  <2> HIDE DEF Of, P
  <2> QED OBVIOUS
<1> DEFINE uses == Phis!FlattenSeq(all)
<1> HIDE DEF all, Of, uses
<1>6. /\ uses \in Seq(Uses) /\ Len(uses) \in Nat
      /\ \A k \in 1..Len(uses) : \E i \in 1..PhiValues : \E j \in 1..Len(all[i]) : all[i][j] = uses[k]
      /\ \A i \in 1..PhiValues : \A j \in 1..Len(all[i]) : \E k \in 1..Len(uses) : uses[k] = all[i][j]
  <2>1. FlatOf(uses, all, PhiValues, Uses)
    BY <1>1, <1>4, PhiFlatElements DEF uses
  <2> QED BY <2>1 DEF FlatOf
<1>7. ASSUME NEW k \in 1..Len(uses)
      PROVE  /\ phi_func.phi_bb[uses[k].dest] = d /\ d \in phi_func.succs[uses[k].bb]
             /\ uses[k].source = phi_func.incoming[uses[k].bb][uses[k].dest]
  <2>1. PICK v \in Phis!Values : \E j \in 1..Len(all[v]) : all[v][j] = uses[k]
    BY <1>1, <1>6
  <2>2. PICK j \in 1..Len(all[v]) : all[v][j] = uses[k]
    BY <2>1
  <2>3. phi_func.phi_bb[v] = d /\ all[v] = Of(v)
    BY <1>5, <2>2
  <2>4. PICK p \in Phis!Bbs : P[p] /\ uses[k] = R(v)[p]
    BY <1>2, <2>2, <2>3
  <2>5. uses[k].dest = v /\ uses[k].bb = p /\ uses[k].source = phi_func.incoming[p][v]
    BY <2>4
  <2>6. d \in phi_func.succs[p]
    BY <2>4
  <2> QED BY <2>3, <2>5, <2>6
<1>8. ASSUME NEW v \in Phis!Values, NEW p \in Phis!Bbs, phi_func.phi_bb[v] = d,
             d \in phi_func.succs[p]
      PROVE  \E k \in 1..Len(uses) : uses[k].dest = v /\ uses[k].bb = p
  <2>1. P[p] /\ all[v] = Of(v)
    BY <1>5, <1>8
  <2>2. PICK j \in 1..Len(Of(v)) : Of(v)[j] = R(v)[p]
    BY <1>2, <1>8, <2>1
  <2>3. PICK k \in 1..Len(uses) : uses[k] = all[v][j]
    BY <1>1, <1>6, <2>1, <2>2
  <2>4. uses[k] = R(v)[p]
    BY <2>1, <2>2, <2>3
  <2>5. uses[k].dest = v /\ uses[k].bb = p
    BY <2>4
  <2> QED BY <2>5
<1> QED BY <1>3, <1>6, <1>7, <1>8 DEF uses

\* pn_function_calculate_phi_assigns finds the assignments of a block.
LEMMA AssignsFound ==
  ASSUME Phis!SizesAssumption, FuncOK, NEW b \in Phis!Bbs
  PROVE  AssignsSound(Phis!AssignsOf(b), b)
<1> DEFINE num(d) == Len(Phis!phi_uses(d))
           P(d) == [k \in 1..num(d) |-> Phis!phi_uses(d)[k].bb = b]
           R(d) == [k \in 1..num(d) |-> [bb |-> d, dest |-> Phis!phi_uses(d)[k].dest,
                                         source |-> Phis!phi_uses(d)[k].source]]
           Of(d) == Phis!FlattenSeq([k \in 1..num(d) |-> IF ~P(d)[k] THEN <<>> ELSE <<R(d)[k]>>])
           all == [d \in Phis!Bbs |-> Of(d)]
<1>1. PhiBbs \in Nat /\ Phis!Bbs = 1..PhiBbs
  BY DEF Phis!SizesAssumption, Phis!Bbs
<1>2. ASSUME NEW d \in Phis!Bbs
      PROVE  /\ Phis!phi_uses(d) \in Seq(Uses) /\ num(d) \in Nat
             /\ \A k \in 1..num(d) :
                  /\ Phis!phi_uses(d)[k] \in Uses
                  /\ phi_func.phi_bb[Phis!phi_uses(d)[k].dest] = d
                  /\ d \in phi_func.succs[Phis!phi_uses(d)[k].bb]
                  /\ Phis!phi_uses(d)[k].source = phi_func.incoming[Phis!phi_uses(d)[k].bb][Phis!phi_uses(d)[k].dest]
             /\ \A v \in Phis!Values, p \in Phis!Bbs : phi_func.phi_bb[v] = d
                                                       /\ d \in phi_func.succs[p] =>
                  \E k \in 1..num(d) : Phis!phi_uses(d)[k].dest = v /\ Phis!phi_uses(d)[k].bb = p
  <2>1. \A k \in 1..num(d) : Phis!phi_uses(d)[k] \in Uses
    BY UsesSound
  <2> QED BY <2>1, UsesSound
<1>3. ASSUME NEW d \in Phis!Bbs
      PROVE  OptionsOf(Of(d), P(d), R(d), num(d), Assigns)
  <2> DEFINE N == num(d)
             p == P(d)
             r == R(d)
  <2>1. N \in Nat /\ p \in [1..N -> BOOLEAN]
    BY <1>2
  <2>2. \A k \in 1..N : p[k] => r[k] \in Assigns
    BY <1>2 DEF Uses, Assigns
  <2> HIDE DEF p, r, N
  <2>3. OptionsOf(Phis!FlattenSeq([k \in 1..N |-> IF ~p[k] THEN <<>> ELSE <<r[k]>>]), p, r, N, Assigns)
    BY <2>1, <2>2, PhiFlatOptions
  <2> QED BY <2>3 DEF p, r, N
<1>4. Phis!AssignsOf(b) = Phis!FlattenSeq(all)
  <2>1. ASSUME NEW d \in Phis!Bbs
        PROVE  Of(d) = LET uses == Phis!phi_uses(d)
                       IN  Phis!FlattenSeq([u \in 1..Len(uses) |->
                             IF uses[u].bb # b THEN <<>>
                             ELSE <<[bb |-> d, dest |-> uses[u].dest, source |-> uses[u].source]>>])
    <3>1. [k \in 1..num(d) |-> IF ~P(d)[k] THEN <<>> ELSE <<R(d)[k]>>] =
          [u \in 1..num(d) |-> IF Phis!phi_uses(d)[u].bb # b THEN <<>>
             ELSE <<[bb |-> d, dest |-> Phis!phi_uses(d)[u].dest, source |-> Phis!phi_uses(d)[u].source]>>]
      OBVIOUS
    <3> QED BY <3>1, Zenon
  <2> HIDE DEF Of
  <2>2. all = [d \in Phis!Bbs |-> LET uses == Phis!phi_uses(d)
                       IN  Phis!FlattenSeq([u \in 1..Len(uses) |->
                             IF uses[u].bb # b THEN <<>>
                             ELSE <<[bb |-> d, dest |-> uses[u].dest, source |-> uses[u].source]>>])]
    BY <2>1, Zenon
  <2> HIDE DEF all
  <2> QED BY <2>2, Zenon DEF Phis!AssignsOf
<1> HIDE DEF Of
<1>5. all \in [1..PhiBbs -> Seq(Assigns)] /\ \A d \in Phis!Bbs : all[d] = Of(d)
  <2>1. \A d \in Phis!Bbs : Of(d) \in Seq(Assigns)
    BY <1>3 DEF OptionsOf
  <2> QED BY <1>1, <2>1
<1> DEFINE flat == Phis!FlattenSeq(all)
<1>6. FlatOf(flat, all, PhiBbs, Assigns)
  <2> HIDE DEF all
  <2> QED BY <1>1, <1>5, PhiFlatElements
<1> HIDE DEF flat, all
<1>7. /\ flat \in Seq(Assigns) /\ Len(flat) \in Nat
      /\ \A k \in 1..Len(flat) : \E i \in Phis!Bbs : \E j \in 1..Len(all[i]) : all[i][j] = flat[k]
      /\ \A i \in Phis!Bbs : \A j \in 1..Len(all[i]) : \E k \in 1..Len(flat) : flat[k] = all[i][j]
  BY <1>1, <1>6 DEF FlatOf
<1>8. ASSUME NEW k \in 1..Len(flat)
      PROVE  /\ phi_func.phi_bb[flat[k].dest] = flat[k].bb
             /\ flat[k].bb \in phi_func.succs[b]
             /\ flat[k].source = phi_func.incoming[b][flat[k].dest]
  <2>1. PICK d \in Phis!Bbs : \E j \in 1..Len(all[d]) : all[d][j] = flat[k]
    BY <1>7
  <2>2. PICK j \in 1..Len(Of(d)) : Of(d)[j] = flat[k]
    BY <1>5, <2>1
  <2>3. PICK i \in 1..num(d) : P(d)[i] /\ Of(d)[j] = R(d)[i]
    BY <1>3, <2>2 DEF OptionsOf
  <2>4. flat[k].bb = d /\ flat[k].dest = Phis!phi_uses(d)[i].dest
        /\ flat[k].source = Phis!phi_uses(d)[i].source
        /\ Phis!phi_uses(d)[i].bb = b
    <3>1. flat[k] = [bb |-> d, dest |-> Phis!phi_uses(d)[i].dest, source |-> Phis!phi_uses(d)[i].source]
      BY <2>2, <2>3
    <3>2. Phis!phi_uses(d)[i].bb = b
      BY <2>3
    <3> QED BY <3>1, <3>2
  <2> QED BY <1>2, <2>4
<1>9. ASSUME NEW v \in Phis!Values, phi_func.phi_bb[v] \in phi_func.succs[b]
      PROVE  \E k \in 1..Len(flat) : flat[k].dest = v
  <2> DEFINE d == phi_func.phi_bb[v]
  <2>1. d \in Phis!Bbs
    BY <1>9 DEF FuncOK
  <2>2. PICK i \in 1..num(d) : Phis!phi_uses(d)[i].dest = v /\ Phis!phi_uses(d)[i].bb = b
    BY <1>2, <1>9, <2>1
  <2>3. P(d)[i] /\ R(d)[i].dest = v
    BY <2>2
  <2> HIDE DEF d, P, R
  <2>4. PICK j \in 1..Len(Of(d)) : Of(d)[j] = R(d)[i]
    BY <1>3, <2>1, <2>3 DEF OptionsOf
  <2>5. all[d] = Of(d) /\ j \in 1..Len(all[d])
    BY <1>5, <2>1
  <2>6. PICK k \in 1..Len(flat) : flat[k] = all[d][j]
    BY <1>7, <2>1, <2>5
  <2> QED BY <2>3, <2>4, <2>5, <2>6
<1>10. AssignsSound(flat, b)
  BY <1>7, <1>8, <1>9 DEF AssignsSound
<1> QED BY <1>4, <1>10 DEF flat

\* What the first i assignments leave in register v, of the branch from block b to d.
After(assigns, b, d, i, v) ==
  IF \E k \in 1..i : assigns[k].bb = d /\ assigns[k].dest = v THEN phi_func.incoming[b][v] ELSE v

\* No register was assigned.
Identity == registers = [v \in Phis!Values |-> v]

\* The registers after the whole list are what PhisAreParallel asks for.
LEMMA AfterAll ==
  ASSUME Phis!SizesAssumption, FuncOK, NEW b \in Phis!Bbs, NEW d \in phi_func.succs[b],
         NEW assigns, AssignsSound(assigns, b),
         NEW v \in Phis!Values
  PROVE  After(assigns, b, d, Len(assigns), v) = IF phi_func.phi_bb[v] = d THEN phi_func.incoming[b][v] ELSE v
<1>1. ASSUME NEW k \in 1..Len(assigns), assigns[k].bb = d,
             assigns[k].dest = v PROVE phi_func.phi_bb[v] = d
  BY <1>1 DEF AssignsSound
<1>2. ASSUME phi_func.phi_bb[v] = d
      PROVE  \E k \in 1..Len(assigns) : assigns[k].bb = d /\ assigns[k].dest = v
  BY <1>2 DEF AssignsSound
<1> QED BY <1>1, <1>2 DEF After

\* One more assignment, from what register source held at first.
LEMMA AfterOne ==
  ASSUME Phis!SizesAssumption, FuncOK, NEW b \in Phis!Bbs, NEW d \in phi_func.succs[b],
         NEW assigns, AssignsSound(assigns, b),
         NEW i \in 1..Len(assigns), NEW v \in Phis!Values
  PROVE  After(assigns, b, d, i, v) =
           IF assigns[i].bb = d /\ assigns[i].dest = v THEN assigns[i].source
           ELSE After(assigns, b, d, i - 1, v)
<1>1. i \in Nat /\ i >= 1 /\ 1..i = (1..(i - 1)) \cup {i}
  BY DEF AssignsSound
<1>2. assigns[i].dest = v => assigns[i].source = phi_func.incoming[b][v]
  BY DEF AssignsSound
<1> QED BY <1>1, <1>2 DEF After

\* No assignment leaves every register as it is.
LEMMA AfterNone ==
  ASSUME NEW assigns, NEW b, NEW d, NEW v
  PROVE  After(assigns, b, d, 0, v) = v
<1>1. 1..0 = {}
  OBVIOUS
<1> QED BY <1>1 DEF After

\* The fields of an assignment.
LEMMA AssignTypes ==
  ASSUME Phis!SizesAssumption, FuncOK, NEW b \in Phis!Bbs, NEW assigns, AssignsSound(assigns, b)
  PROVE  /\ Len(assigns) \in Nat /\ DOMAIN assigns = 1..Len(assigns)
         /\ \A i \in 1..Len(assigns) : assigns[i].dest \in Phis!Values
                                       /\ assigns[i].source \in Phis!Values
                                         /\ assigns[i].bb \in Phis!Bbs
<1>1. assigns \in Seq(Assigns)
  BY DEF AssignsSound
<1>2. \A i \in 1..Len(assigns) : assigns[i] \in Assigns
  BY <1>1
<1> QED BY <1>1, <1>2 DEF Assigns

\* The fast way, of a list in which no source is the destination of an earlier one.
LEMMA InOrder ==
  ASSUME Phis!SizesAssumption, FuncOK, NEW b \in Phis!Bbs, NEW d \in phi_func.succs[b],
         NEW assigns, AssignsSound(assigns, b),
         Identity,
         \A m \in 1..Len(assigns) : \A k \in 1..(m - 1) :
           assigns[m].bb = d /\ assigns[k].bb = d => assigns[m].source # assigns[k].dest
  PROVE  /\ Phis!CopyInOrder(assigns, d) \in [Phis!Values -> Phis!Values]
         /\ \A v \in Phis!Values : Phis!CopyInOrder(assigns, d)[v]
              = IF phi_func.phi_bb[v] = d THEN phi_func.incoming[b][v] ELSE v
<1> DEFINE N == Len(assigns)
           S == [Phis!Values -> Phis!Values]
           to(i) == assigns[i].dest
           of(i) == assigns[i].source
           g == [i \in 1..N |-> [y \in S |-> IF assigns[i].bb = d
                                             THEN [y EXCEPT ![to(i)] = y[of(i)]] ELSE y]]
           W(c) == c = [i \in 0..N |-> IF i = 0 THEN registers
                        ELSE IF assigns[i].bb = d
                             THEN [c[i - 1] EXCEPT ![assigns[i].dest] = c[i - 1][assigns[i].source]]
                             ELSE c[i - 1]]
<1>1. N \in Nat /\ \A i \in 1..N : to(i) \in Phis!Values /\ of(i) \in Phis!Values
  BY AssignTypes
<1>2. registers \in S /\ \A v \in Phis!Values : registers[v] = v
  BY DEF Identity
<1>3. g \in [1..N -> [S -> S]]
  BY <1>1
<1>4. PICK f : Steps(f, N, S, g, registers)
  <2> HIDE DEF S, g, N
  <2> QED BY <1>1, <1>2, <1>3, Stepped
<1>5. f \in [0..N -> S] /\ f[0] = registers /\ \A i \in 1..N : f[i] = g[i][f[i - 1]]
  BY <1>4 DEF Steps
<1>6. \A i \in 0..N : f[i] = IF i = 0 THEN registers
                        ELSE IF assigns[i].bb = d
                             THEN [f[i - 1] EXCEPT ![assigns[i].dest] = f[i - 1][assigns[i].source]]
                             ELSE f[i - 1]
  <2> SUFFICES ASSUME NEW i \in 1..N
               PROVE  f[i] = IF assigns[i].bb = d
                             THEN [f[i - 1] EXCEPT ![assigns[i].dest] = f[i - 1][assigns[i].source]]
                             ELSE f[i - 1]
    <3>1. \A i \in 0..N : i # 0 => i \in 1..N
      BY <1>1
    <3> QED BY <1>5, <3>1
  <2>1. f[i - 1] \in S
    <3>1. i - 1 \in 0..N
      BY <1>1
    <3> HIDE DEF S, N, g
    <3> QED BY <1>5, <3>1
  <2> HIDE DEF S, N
  <2> QED BY <1>5, <2>1
<1> HIDE DEF g
<1>7. W(f)
  <2>1. f = [i \in 0..N |-> f[i]]
    <3> HIDE DEF S, N
    <3> QED BY <1>5
  <2> HIDE DEF N
  <2> QED BY <1>6, <2>1, Zenon
<1> DEFINE h == CHOOSE c : W(c)
<1>8. W(h)
  <2> HIDE DEF W
  <2> QED BY <1>7
<1>9. Phis!CopyInOrder(assigns, d) = h[N]
  BY Zenon DEF Phis!CopyInOrder
<1>10. /\ h[0] = registers
       /\ \A i \in 1..N : h[i] = IF assigns[i].bb = d
                                 THEN [h[i - 1] EXCEPT ![to(i)] = h[i - 1][of(i)]] ELSE h[i - 1]
  <2>1. 0 \in 0..N /\ \A i \in 1..N : i \in 0..N /\ i # 0
    BY <1>1
  <2>2. h = [i \in 0..N |-> IF i = 0 THEN registers
                        ELSE IF assigns[i].bb = d
                             THEN [h[i - 1] EXCEPT ![assigns[i].dest] = h[i - 1][assigns[i].source]]
                             ELSE h[i - 1]]
    BY <1>8
  <2> HIDE DEF h, N
  <2> QED BY <2>1, <2>2
<1> HIDE DEF h, W
<1> DEFINE Good == {i \in 0..N : h[i] \in S /\ \A v \in Phis!Values : h[i][v] = After(assigns, b, d, i, v)}
<1>11. 0 \in Good
  <2>1. \A v \in Phis!Values : After(assigns, b, d, 0, v) = v
    BY AfterNone
  <2> QED BY <1>1, <1>2, <1>10, <2>1
<1>12. ASSUME NEW i \in 0..N, i < N, i \in Good PROVE i + 1 \in Good
  <2> DEFINE m == i + 1
  <2>1. m \in 1..N /\ m - 1 = i /\ m \in 0..N
    BY <1>1, <1>12
  <2> HIDE DEF m
  <2>2. h[i] \in S /\ \A v \in Phis!Values : h[i][v] = After(assigns, b, d, i, v)
    BY <1>12
  <2>3. \A v \in Phis!Values : After(assigns, b, d, m, v) =
           IF assigns[m].bb = d /\ to(m) = v THEN of(m) ELSE After(assigns, b, d, i, v)
    BY <2>1, AfterOne
  <2>4. h[m] = IF assigns[m].bb = d THEN [h[i] EXCEPT ![to(m)] = h[i][of(m)]] ELSE h[i]
    BY <1>10, <2>1
  <2>5. to(m) \in Phis!Values /\ of(m) \in Phis!Values
    BY <1>1, <2>1
  <2>6. ASSUME assigns[m].bb = d PROVE h[i][of(m)] = of(m)
    <3>1. \A k \in 1..i : assigns[k].bb = d => assigns[k].dest # of(m)
      BY <2>1, <2>6
    <3>2. After(assigns, b, d, i, of(m)) = of(m)
      BY <3>1 DEF After
    <3> QED BY <2>2, <2>5, <3>2
  <2>7. h[m] \in S
    BY <2>2, <2>4, <2>5
  <2>8. \A v \in Phis!Values : h[m][v] = After(assigns, b, d, m, v)
    BY <2>2, <2>3, <2>4, <2>5, <2>6
  <2> QED BY <2>1, <2>7, <2>8 DEF m
<1>13. N \in Good
  <2>1. N \in 0..N
    BY <1>1
  <2> HIDE DEF Good, N
  <2> QED BY <1>1, <1>11, <1>12, <2>1, NatSetUpTo
<1>14. h[N] \in S /\ \A v \in Phis!Values : h[N][v] = After(assigns, b, d, N, v)
  BY <1>13
<1>15. \A v \in Phis!Values : After(assigns, b, d, N, v) = IF phi_func.phi_bb[v] = d THEN phi_func.incoming[b][v] ELSE v
  BY AfterAll
<1> HIDE DEF N, Good
<1> QED BY <1>9, <1>14, <1>15

\* The slow way, of any list.
LEMMA ThroughTemp ==
  ASSUME Phis!SizesAssumption, FuncOK, NEW b \in Phis!Bbs, NEW d \in phi_func.succs[b],
         NEW assigns, AssignsSound(assigns, b),
         Identity
  PROVE  /\ Phis!CopyThroughTemp(assigns, d) \in [Phis!Values -> Phis!Values]
         /\ \A v \in Phis!Values : Phis!CopyThroughTemp(assigns, d)[v]
              = IF phi_func.phi_bb[v] = d THEN phi_func.incoming[b][v] ELSE v
<1> DEFINE N == Len(assigns)
           S == [Phis!Values -> Phis!Values]
           to(i) == assigns[i].dest
           temp == [i \in 1..N |-> registers[assigns[i].source]]
           g == [i \in 1..N |-> [y \in S |-> IF assigns[i].bb = d
                                             THEN [y EXCEPT ![to(i)] = temp[i]] ELSE y]]
           W(c) == c = [i \in 0..N |-> IF i = 0 THEN registers
                        ELSE IF assigns[i].bb = d
                             THEN [c[i - 1] EXCEPT ![assigns[i].dest] = temp[i]]
                             ELSE c[i - 1]]
<1>1. N \in Nat /\ \A i \in 1..N : to(i) \in Phis!Values /\ assigns[i].source \in Phis!Values
  BY AssignTypes
<1>2. registers \in S /\ \A v \in Phis!Values : registers[v] = v
  BY DEF Identity
<1>a. \A i \in 1..N : temp[i] = assigns[i].source /\ temp[i] \in Phis!Values
  BY <1>1, <1>2
<1>9. Phis!CopyThroughTemp(assigns, d) = (CHOOSE c : W(c))[N]
  BY Zenon DEF Phis!CopyThroughTemp
<1> HIDE DEF temp
<1>3. g \in [1..N -> [S -> S]]
  BY <1>1, <1>a
<1>4. PICK f : Steps(f, N, S, g, registers)
  <2> HIDE DEF S, g, N
  <2> QED BY <1>1, <1>2, <1>3, Stepped
<1>5. f \in [0..N -> S] /\ f[0] = registers /\ \A i \in 1..N : f[i] = g[i][f[i - 1]]
  BY <1>4 DEF Steps
<1>6. \A i \in 0..N : f[i] = IF i = 0 THEN registers
                        ELSE IF assigns[i].bb = d
                             THEN [f[i - 1] EXCEPT ![assigns[i].dest] = temp[i]]
                             ELSE f[i - 1]
  <2> SUFFICES ASSUME NEW i \in 1..N
               PROVE  f[i] = IF assigns[i].bb = d
                             THEN [f[i - 1] EXCEPT ![assigns[i].dest] = temp[i]]
                             ELSE f[i - 1]
    <3>1. \A i \in 0..N : i # 0 => i \in 1..N
      BY <1>1
    <3> QED BY <1>5, <3>1
  <2>1. f[i - 1] \in S
    <3>1. i - 1 \in 0..N
      BY <1>1
    <3> HIDE DEF S, N, g
    <3> QED BY <1>5, <3>1
  <2> HIDE DEF S, N
  <2> QED BY <1>5, <2>1
<1> HIDE DEF g
<1>7. W(f)
  <2>1. f = [i \in 0..N |-> f[i]]
    <3> HIDE DEF S, N
    <3> QED BY <1>5
  <2> HIDE DEF N
  <2> QED BY <1>6, <2>1, Zenon
<1> DEFINE h == CHOOSE c : W(c)
<1>8. W(h)
  <2> HIDE DEF W
  <2> QED BY <1>7
<1>10. /\ h[0] = registers
       /\ \A i \in 1..N : h[i] = IF assigns[i].bb = d
                                 THEN [h[i - 1] EXCEPT ![to(i)] = temp[i]] ELSE h[i - 1]
  <2>1. 0 \in 0..N /\ \A i \in 1..N : i \in 0..N /\ i # 0
    BY <1>1
  <2>2. h = [i \in 0..N |-> IF i = 0 THEN registers
                        ELSE IF assigns[i].bb = d
                             THEN [h[i - 1] EXCEPT ![assigns[i].dest] = temp[i]]
                             ELSE h[i - 1]]
    BY <1>8
  <2> HIDE DEF h, N
  <2> QED BY <2>1, <2>2
<1> HIDE DEF h, W
<1> DEFINE Good == {i \in 0..N : h[i] \in S /\ \A v \in Phis!Values : h[i][v] = After(assigns, b, d, i, v)}
<1>11. 0 \in Good
  <2>1. \A v \in Phis!Values : After(assigns, b, d, 0, v) = v
    BY AfterNone
  <2> QED BY <1>1, <1>2, <1>10, <2>1
<1>12. ASSUME NEW i \in 0..N, i < N, i \in Good PROVE i + 1 \in Good
  <2> DEFINE m == i + 1
  <2>1. m \in 1..N /\ m - 1 = i /\ m \in 0..N
    BY <1>1, <1>12
  <2> HIDE DEF m
  <2>2. h[i] \in S /\ \A v \in Phis!Values : h[i][v] = After(assigns, b, d, i, v)
    BY <1>12
  <2>3. \A v \in Phis!Values : After(assigns, b, d, m, v) =
           IF assigns[m].bb = d /\ to(m) = v THEN temp[m] ELSE After(assigns, b, d, i, v)
    BY <1>a, <2>1, AfterOne
  <2>4. h[m] = IF assigns[m].bb = d THEN [h[i] EXCEPT ![to(m)] = temp[m]] ELSE h[i]
    BY <1>10, <2>1
  <2>5. to(m) \in Phis!Values /\ temp[m] \in Phis!Values
    BY <1>1, <1>a, <2>1
  <2>6. h[m] \in S
    BY <2>2, <2>4, <2>5
  <2>7. \A v \in Phis!Values : h[m][v] = After(assigns, b, d, m, v)
    BY <2>2, <2>3, <2>4, <2>5
  <2> QED BY <2>1, <2>6, <2>7 DEF m
<1>13. N \in Good
  <2>1. N \in 0..N
    BY <1>1
  <2> HIDE DEF Good, N
  <2> QED BY <1>1, <1>11, <1>12, <2>1, NatSetUpTo
<1>14. h[N] \in S /\ \A v \in Phis!Values : h[N][v] = After(assigns, b, d, N, v)
  BY <1>13
<1>15. \A v \in Phis!Values : After(assigns, b, d, N, v) = IF phi_func.phi_bb[v] = d THEN phi_func.incoming[b][v] ELSE v
  BY AfterAll
<1>16. Phis!CopyThroughTemp(assigns, d) = h[N]
  BY <1>9 DEF h
<1> HIDE DEF N, Good
<1> QED BY <1>14, <1>15, <1>16

\* With one successor with phis at most, the assignments are all for one block.
LEMMA OneDestination ==
  ASSUME Phis!SizesAssumption, FuncOK, NEW b \in Phis!Bbs, NEW assigns, AssignsSound(assigns, b),
         NEW i \in 1..Len(assigns), NEW j \in 1..Len(assigns)
  PROVE  assigns[i].bb = assigns[j].bb
<1> DEFINE D == Phis!PhiSuccs(phi_func.succs, phi_func.phi_bb, b)
           x == assigns[i].bb
           y == assigns[j].bb
<1>1. x \in D /\ y \in D
  BY AssignTypes DEF AssignsSound, Phis!PhiSuccs
<1>2. IsFiniteSet(D) /\ Cardinality(D) <= 1 /\ Cardinality(D) \in Nat
  <2>1. IsFiniteSet(Phis!Bbs)
    BY FS_Interval DEF Phis!Bbs, Phis!SizesAssumption
  <2>2. D \in SUBSET Phis!Bbs
    BY DEF Phis!PhiSuccs, FuncOK
  <2>3. IsFiniteSet(D)
    BY <2>1, <2>2, FS_Subset
  <2>4. Cardinality(D) <= 1
    <3>1. Phis!Cardinality(D) <= 1
      BY DEF FuncOK
    <3> HIDE DEF D
    <3>2. Phis!Cardinality(D) = Cardinality(D)
      BY DEF Phis!Cardinality, Cardinality
    <3> QED BY <3>1, <3>2
  <2>5. Cardinality(D) \in Nat
    BY <2>3, FS_CardinalityType
  <2> QED BY <2>3, <2>4, <2>5 DEF Phis!SizesAssumption
<1> HIDE DEF D, x, y
<1>3. SUFFICES ASSUME x # y PROVE FALSE
  BY DEF x, y
<1>4. IsFiniteSet(D \ {x}) /\ Cardinality(D \ {x}) = Cardinality(D) - 1
  BY <1>1, <1>2, FS_RemoveElement
<1>5. D \ {x} = {}
  BY <1>2, <1>4, FS_EmptySet
<1> QED BY <1>1, <1>3, <1>5

\* The functions that the reader accepts.
LEMMA FunctionsSound ==
  ASSUME Phis!SizesAssumption, NEW succs \in [Phis!Bbs -> SUBSET (Phis!Bbs \ {Phis!Entry})],
         NEW phi_bb \in [Phis!Values -> {Phis!None} \cup (Phis!Bbs \ {Phis!Entry})],
         NEW f \in Phis!Functions(succs, phi_bb)
  PROVE  /\ f.succs = succs /\ f.phi_bb = phi_bb
         /\ \A p \in Phis!Bbs : f.incoming[p] \in [Phis!PhisFrom(succs, phi_bb, p) -> Phis!Values]
<1> DEFINE From(p) == [Phis!PhisFrom(succs, phi_bb, p) -> Phis!Available(succs, phi_bb, p)]
           N == PhiBbs
           E == UNION {From(p) : p \in Phis!Bbs}
           S == SUBSET Seq(E)
           More(p, y) == {Append(x[1], x[2]) : x \in y \X From(p)}
           g == [p \in 1..N |-> [y \in S |-> More(p, y)]]
           W(c) == c = [p \in 0..N |-> IF p = 0 THEN {<<>>} ELSE More(p, c[p - 1])]
<1>1. N \in Nat /\ Phis!Bbs = 1..N
  BY DEF Phis!SizesAssumption, Phis!Bbs
<1>2. {<<>>} \in S
  OBVIOUS
<1>3. ASSUME NEW p \in 1..N, NEW y \in S PROVE More(p, y) \in S
  <2> SUFFICES ASSUME NEW x \in y \X From(p) PROVE Append(x[1], x[2]) \in Seq(E)
    OBVIOUS
  <2> DEFINE inc == x[1]
             i   == x[2]
  <2>1. inc \in Seq(E) /\ i \in E
    BY <1>1
  <2> HIDE DEF E
  <2> QED BY <2>1
<1> HIDE DEF More
<1>4. g \in [1..N -> [S -> S]]
  <2> HIDE DEF S, N
  <2> QED BY <1>3
<1>5. PICK u : Steps(u, N, S, g, {<<>>})
  <2> HIDE DEF S, g, N
  <2> QED BY <1>1, <1>2, <1>4, Stepped
<1>6. u \in [0..N -> S] /\ u[0] = {<<>>} /\ \A i \in 1..N : u[i] = g[i][u[i - 1]]
  BY <1>5 DEF Steps
<1> HIDE DEF S, N
<1>7. \A i \in 1..N : u[i - 1] \in S /\ u[i] = More(i, u[i - 1])
  <2> SUFFICES ASSUME NEW i \in 1..N PROVE u[i - 1] \in S /\ u[i] = More(i, u[i - 1])
    OBVIOUS
  <2>1. i - 1 \in 0..N
    BY <1>1
  <2>2. u[i - 1] \in S
    BY <1>6, <2>1
  <2> QED BY <1>6, <2>2
<1> HIDE DEF g
<1>8. W(u)
  <2>1. u = [i \in 0..N |-> u[i]]
    BY <1>6
  <2>2. \A i \in 0..N : u[i] = IF i = 0 THEN {<<>>} ELSE More(i, u[i - 1])
    <3>1. \A i \in 0..N : i # 0 => i \in 1..N
      BY <1>1
    <3> QED BY <1>6, <1>7, <3>1
  <2> QED BY <2>1, <2>2, Zenon
<1> DEFINE h == CHOOSE c : W(c)
<1>9. W(h)
  <2> HIDE DEF W
  <2> QED BY <1>8
<1>10. Phis!Functions(succs, phi_bb) = {[succs |-> succs, phi_bb |-> phi_bb, incoming |-> inc] : inc \in h[N]}
  BY Zenon DEF Phis!Functions, More, N
<1>11. h[0] = {<<>>} /\ \A i \in 1..N : h[i] = More(i, h[i - 1])
  <2>1. 0 \in 0..N /\ \A i \in 1..N : i \in 0..N /\ i # 0
    BY <1>1
  <2>2. h = [i \in 0..N |-> IF i = 0 THEN {<<>>} ELSE More(i, h[i - 1])]
    BY <1>9
  <2> HIDE DEF h
  <2> QED BY <2>1, <2>2
<1> HIDE DEF h, W
<1> DEFINE Good == {p \in 0..N : \A inc \in h[p] : inc \in Seq(E) /\ Len(inc) = p
                                   /\ \A q \in 1..p : inc[q] \in From(q)}
<1>12. 0 \in Good
  <2>1. \A q \in 1..0 : FALSE
    OBVIOUS
  <2>2. <<>> \in Seq(E) /\ Len(<<>>) = 0
    OBVIOUS
  <2> HIDE DEF E, From
  <2>3. \A inc \in h[0] : inc \in Seq(E) /\ Len(inc) = 0 /\ \A q \in 1..0 : inc[q] \in From(q)
    BY <1>11, <2>1, <2>2
  <2>4. 0 \in 0..N
    BY <1>1
  <2> QED BY <2>3, <2>4
<1>13. ASSUME NEW p \in 0..N, p < N, p \in Good PROVE p + 1 \in Good
  <2>1. p + 1 \in 1..N /\ (p + 1) - 1 = p /\ p + 1 \in 0..N /\ p \in Nat
    BY <1>1, <1>13
  <2>2. h[p + 1] = More(p + 1, h[p])
    BY <1>11, <2>1
  <2> SUFFICES ASSUME NEW inc \in h[p + 1]
               PROVE  inc \in Seq(E) /\ Len(inc) = p + 1 /\ \A q \in 1..(p + 1) : inc[q] \in From(q)
    BY <2>1
  <2>a. PICK x \in h[p] \X From(p + 1) : inc = Append(x[1], x[2])
    BY <2>2 DEF More
  <2>3. PICK old \in h[p], i \in From(p + 1) : inc = Append(old, i)
    BY <2>a
  <2>4. old \in Seq(E) /\ Len(old) = p /\ \A q \in 1..p : old[q] \in From(q)
    BY <1>13
  <2>5. i \in E
    BY <1>1, <2>1
  <2> HIDE DEF E, From
  <2>6. inc \in Seq(E) /\ Len(inc) = p + 1 /\ inc[p + 1] = i /\ \A q \in 1..p : inc[q] = old[q]
    <3>1. /\ Append(old, i) \in Seq(E) /\ Len(Append(old, i)) = Len(old) + 1
          /\ Append(old, i)[Len(old) + 1] = i /\ \A q \in 1..Len(old) : Append(old, i)[q] = old[q]
      BY <2>4, <2>5
    <3> QED BY <2>3, <2>4, <3>1
  <2>7. \A q \in 1..(p + 1) : q \in 1..p \/ q = p + 1
    BY <2>1
  <2> QED BY <2>3, <2>4, <2>6, <2>7
<1>14. N \in Good
  <2>1. N \in 0..N
    BY <1>1
  <2> HIDE DEF Good
  <2> QED BY <1>1, <1>12, <1>13, <2>1, NatSetUpTo
<1>15. PICK inc \in h[N] : f = [succs |-> succs, phi_bb |-> phi_bb, incoming |-> inc]
  BY <1>10
<1>16. \A p \in Phis!Bbs : inc[p] \in From(p)
  BY <1>1, <1>14
<1>17. \A p \in Phis!Bbs : Phis!Available(succs, phi_bb, p) \subseteq Phis!Values
  BY DEF Phis!Available
<1>18. \A p \in Phis!Bbs : inc[p] \in [Phis!PhisFrom(succs, phi_bb, p) -> Phis!Values]
  BY <1>16, <1>17
<1> QED BY <1>15, <1>18

-----------------------------------------------------------------------------

\* The inductive invariant: the assignments are sound and a branch finds fresh registers.
PhiInv ==
  /\ FuncOK
  /\ bb \in Phis!Bbs \cup {Phis!None} /\ dest \in Phis!Bbs \cup {Phis!None}
  /\ registers \in [Phis!Values -> Phis!Values]
  /\ phi_assigns \in [Phis!Bbs -> Seq(Assigns)] /\ fast \in [Phis!Bbs -> BOOLEAN]
  /\ dest = Phis!None => Identity
  /\ bb = Phis!None => dest = Phis!None
  /\ bb # Phis!None => \A b \in Phis!Bbs : /\ AssignsSound(phi_assigns[b], b)
                                           /\ fast[b] => Phis!IsFast(phi_assigns[b])
  /\ Phis!PhisAreParallel

\* Before the pass there is nothing to assign.
LEMMA PhiInitially == ASSUME Phis!SizesAssumption, Phis!Init PROVE PhiInv
<1>1. PICK succs \in Phis!Graphs, phi_bb \in Phis!PhiBlocks :
        /\ \A p \in Phis!Bbs : Phis!Cardinality(Phis!PhiSuccs(succs, phi_bb, p)) <= 1
        /\ phi_func \in Phis!Functions(succs, phi_bb)
  BY DEF Phis!Init
<1>2. /\ succs \in [Phis!Bbs -> SUBSET (Phis!Bbs \ {Phis!Entry})]
      /\ phi_bb \in [Phis!Values -> {Phis!None} \cup (Phis!Bbs \ {Phis!Entry})]
  BY DEF Phis!Graphs, Phis!PhiBlocks
<1>3. /\ phi_func.succs = succs /\ phi_func.phi_bb = phi_bb
      /\ \A p \in Phis!Bbs : phi_func.incoming[p] \in [Phis!PhisFrom(succs, phi_bb, p) -> Phis!Values]
  BY <1>1, <1>2, FunctionsSound
<1>4. FuncOK
  BY <1>1, <1>2, <1>3 DEF FuncOK
<1>5. phi_assigns \in [Phis!Bbs -> Seq(Assigns)] /\ fast \in [Phis!Bbs -> BOOLEAN]
      /\ registers \in [Phis!Values -> Phis!Values]
  <2>1. <<>> \in Seq(Assigns)
    OBVIOUS
  <2> QED BY <2>1 DEF Phis!Init
<1> QED BY <1>4, <1>5 DEF PhiInv, Phis!Init, Identity, Phis!PhisAreParallel

\* The pass over the function leaves sound assignments for each block.
LEMMA CalculateKeeps == ASSUME Phis!SizesAssumption, PhiInv, Phis!Calculate PROVE PhiInv'
<1>1. /\ bb = Phis!None /\ bb' \in Phis!Bbs /\ phi_func' = phi_func /\ registers' = registers
      /\ dest' = dest /\ dest = Phis!None
      /\ phi_assigns' = [b \in Phis!Bbs |-> Phis!AssignsOf(b)]
      /\ fast' = [b \in Phis!Bbs |-> Phis!IsFast(Phis!AssignsOf(b))]
  BY DEF Phis!Calculate, PhiInv
<1>2. FuncOK /\ FuncOK'
  BY <1>1 DEF PhiInv, FuncOK
<1>3. \A b \in Phis!Bbs : AssignsSound(Phis!AssignsOf(b), b)
  BY <1>2, AssignsFound
<1>4. \A b \in Phis!Bbs : Phis!AssignsOf(b) \in Seq(Assigns)
  BY <1>3 DEF AssignsSound
<1>5. \A b \in Phis!Bbs : Phis!IsFast(Phis!AssignsOf(b)) \in BOOLEAN
  BY DEF Phis!IsFast
<1>6. phi_assigns' \in [Phis!Bbs -> Seq(Assigns)] /\ fast' \in [Phis!Bbs -> BOOLEAN]
  BY <1>1, <1>4, <1>5
<1>7. \A b \in Phis!Bbs : AssignsSound(phi_assigns[b], b)'
                          /\ (fast[b] => Phis!IsFast(phi_assigns[b]))'
  BY <1>1, <1>3 DEF AssignsSound, Phis!IsFast
<1>8. Identity'
  BY <1>1 DEF PhiInv, Identity
<1> QED BY <1>1, <1>2, <1>6, <1>7, <1>8 DEF PhiInv, Phis!PhisAreParallel

\* A branch does the assignments of its block, in order or through the temporaries.
LEMMA BranchKeeps ==
  ASSUME Phis!SizesAssumption, PhiInv, NEW d \in Phis!Bbs, Phis!Branch(d) PROVE PhiInv'
<1>1. /\ bb # Phis!None /\ bb \in Phis!Bbs /\ dest = Phis!None /\ d \in phi_func.succs[bb]
      /\ dest' = d
      /\ phi_func' = phi_func /\ phi_assigns' = phi_assigns /\ fast' = fast /\ bb' = bb
      /\ registers' = IF fast[bb] THEN Phis!CopyInOrder(phi_assigns[bb], d)
                      ELSE Phis!CopyThroughTemp(phi_assigns[bb], d)
  BY DEF Phis!Branch, PhiInv
<1>2. FuncOK /\ Identity /\ AssignsSound(phi_assigns[bb], bb)
      /\ (fast[bb] => Phis!IsFast(phi_assigns[bb]))
  BY <1>1 DEF PhiInv
<1>3. ASSUME fast[bb]
      PROVE  \A m \in 1..Len(phi_assigns[bb]) : \A k \in 1..(m - 1) :
               phi_assigns[bb][m].source # phi_assigns[bb][k].dest
  <2> DEFINE assigns == phi_assigns[bb]
  <2> SUFFICES ASSUME NEW m \in 1..Len(assigns), NEW k \in 1..(m - 1)
               PROVE assigns[m].source # assigns[k].dest
    OBVIOUS
  <2>1. Len(assigns) \in Nat /\ DOMAIN assigns = 1..Len(assigns)
    BY <1>1, <1>2, AssignTypes
  <2>2. 1 \in 1..Len(assigns)
    BY <2>1
  <2>3. assigns[m].bb = assigns[1].bb
    <3> HIDE DEF assigns
    <3>1. AssignsSound(assigns, bb)
      BY <1>2 DEF assigns
    <3> QED BY <1>1, <1>2, <2>2, <3>1, OneDestination
  <2> QED BY <1>2, <1>3, <2>1, <2>3 DEF Phis!IsFast
<1>4. /\ registers' \in [Phis!Values -> Phis!Values]
      /\ \A v \in Phis!Values : registers'[v] = IF phi_func.phi_bb[v] = d THEN phi_func.incoming[bb][v] ELSE v
  <2>1. CASE fast[bb]
    <3>1. /\ Phis!CopyInOrder(phi_assigns[bb], d) \in [Phis!Values -> Phis!Values]
          /\ \A v \in Phis!Values : Phis!CopyInOrder(phi_assigns[bb], d)[v]
               = IF phi_func.phi_bb[v] = d THEN phi_func.incoming[bb][v] ELSE v
      BY <1>1, <1>2, <1>3, <2>1, InOrder
    <3> QED BY <1>1, <2>1, <3>1
  <2>2. CASE ~fast[bb]
    <3>1. /\ Phis!CopyThroughTemp(phi_assigns[bb], d) \in [Phis!Values -> Phis!Values]
          /\ \A v \in Phis!Values : Phis!CopyThroughTemp(phi_assigns[bb], d)[v]
               = IF phi_func.phi_bb[v] = d THEN phi_func.incoming[bb][v] ELSE v
      BY <1>1, <1>2, ThroughTemp
    <3> QED BY <1>1, <2>2, <3>1
  <2> QED BY <2>1, <2>2
<1>5. Phis!PhisAreParallel'
  BY <1>1, <1>4 DEF Phis!PhisAreParallel
<1>6. FuncOK' /\ \A b \in Phis!Bbs : AssignsSound(phi_assigns[b], b)'
                                     /\ (fast[b] => Phis!IsFast(phi_assigns[b]))'
  BY <1>1, <1>2 DEF PhiInv, FuncOK, AssignsSound, Phis!IsFast
<1>7. dest' # Phis!None /\ bb' # Phis!None
  BY <1>1 DEF Phis!None, Phis!Bbs
<1> QED BY <1>1, <1>4, <1>5, <1>6, <1>7 DEF PhiInv

\* What has ended does not change.
LEMMA DoneKeeps == ASSUME PhiInv, UNCHANGED Phis!vars PROVE PhiInv'
<1>1. /\ phi_func' = phi_func /\ phi_assigns' = phi_assigns /\ fast' = fast
      /\ registers' = registers
      /\ bb' = bb /\ dest' = dest
  BY DEF Phis!vars
<1>2. FuncOK' /\ (Identity' <=> Identity) /\ Phis!PhisAreParallel'
  BY <1>1 DEF PhiInv, FuncOK, Identity, Phis!PhisAreParallel
<1>3. bb # Phis!None => \A b \in Phis!Bbs : AssignsSound(phi_assigns[b], b)'
                                            /\ (fast[b] => Phis!IsFast(phi_assigns[b]))'
  BY <1>1 DEF PhiInv, AssignsSound, Phis!IsFast
<1> QED BY <1>1, <1>2, <1>3 DEF PhiInv

\* What the invariant says of the branches.
LEMMA PhiSound == ASSUME PhiInv PROVE Phis!TypeOK /\ Phis!PhisAreParallel
<1>1. /\ phi_func.succs \in [Phis!Bbs -> SUBSET Phis!Bbs]
      /\ phi_func.phi_bb \in [Phis!Values -> Phis!Bbs \cup {Phis!None}]
  BY DEF PhiInv, FuncOK
<1> QED BY <1>1 DEF PhiInv, Phis!TypeOK, FuncOK, Assigns

-----------------------------------------------------------------------------
(* FunctionReader.                                                          *)

\* The same of the flattening that Reader uses.
LEMMA ReadFlatElements ==
  ASSUME NEW T, NEW N \in Nat, NEW seqs, seqs \in [1..N -> Seq(T)]
  PROVE  FlatOf(Reader!FlattenSeq(seqs), seqs, N, T)
<1>1. Reader!FlattenSeq(seqs) = FlattenSeq(seqs)
  BY DEF Reader!FlattenSeq, FlattenSeq
<1> QED BY <1>1, FlatElements

-----------------------------------------------------------------------------
(* The numbers of values.                                                   *)

\* The remainder of a number that is off by at most one turn.
LEMMA Residues ==
  ASSUME NEW d \in Nat, d > 0, NEW x \in Int, -d <= x, x < d
  PROVE  x % d = IF 0 <= x THEN x ELSE x + d
OBVIOUS

\* The numbers of the values fit into a word.
NumbersOK ==
  /\ num_values \in Nat /\ num_values < Word /\ Word \in Nat /\ Word > 0
  /\ use_relative_ids \in BOOLEAN

\* A reference that is written is read back, relative or not.
LEMMA IdsReadBack ==
  ASSUME NumbersOK, NEW id \in 0..(Word - 1)
  PROVE  Reader!ReadId(Reader!WriteId(id)) = id
<1>1. CASE ~use_relative_ids
  BY <1>1 DEF Reader!ReadId, Reader!WriteId
<1>2. CASE use_relative_ids
  <2> DEFINE x == (num_values - id) % Word
  <2>1. x = IF id <= num_values THEN num_values - id ELSE num_values - id + Word
    BY Residues DEF NumbersOK
  <2>2. Reader!ReadId(Reader!WriteId(id)) = (num_values - x) % Word
    BY <1>2 DEF Reader!ReadId, Reader!WriteId
  <2> HIDE DEF x
  <2>3. num_values - x = IF id <= num_values THEN id ELSE id - Word
    BY <2>1 DEF NumbersOK
  <2>4. (num_values - x) % Word = id
    BY <2>3, Residues DEF NumbersOK
  <2> QED BY <2>2, <2>4
<1> QED BY <1>1, <1>2 DEF NumbersOK

\* So is a signed one.
LEMMA PhiIdsReadBack ==
  ASSUME NumbersOK, NEW id \in 0..(Word - 1)
  PROVE  Reader!ReadPhiId(Reader!WritePhiId(id)) = id
<1>1. CASE ~use_relative_ids
  BY <1>1 DEF Reader!ReadPhiId, Reader!WritePhiId
<1>2. CASE use_relative_ids /\ id <= num_values
  <2>1. Reader!DecodeSignRotated(2 * (num_values - id)) = num_values - id
    <3> DEFINE y == num_values - id
    <3>1. y \in Int
      BY DEF NumbersOK
    <3> HIDE DEF y
    <3>2. (2 * y) % 2 = 0 /\ (2 * y) \div 2 = y
      BY <3>1
    <3> QED BY <3>2 DEF Reader!DecodeSignRotated, y
  <2>2. Reader!ReadPhiId(Reader!WritePhiId(id)) = (num_values - (num_values - id)) % Word
    BY <1>2, <2>1 DEF Reader!ReadPhiId, Reader!WritePhiId
  <2>3. num_values - (num_values - id) = id
    BY DEF NumbersOK
  <2>4. id % Word = id
    BY Residues DEF NumbersOK
  <2> QED BY <2>2, <2>3, <2>4
<1>3. CASE use_relative_ids /\ ~(id <= num_values)
  <2>1. Reader!DecodeSignRotated(2 * (id - num_values) + 1) = -(id - num_values)
    <3> DEFINE y == id - num_values
    <3>1. y \in Int /\ y > 0
      BY <1>3 DEF NumbersOK
    <3> HIDE DEF y
    <3>2. (2 * y + 1) % 2 # 0 /\ (2 * y + 1) \div 2 = y /\ 2 * y + 1 # 1
      BY <3>1
    <3> QED BY <3>2 DEF Reader!DecodeSignRotated, y
  <2>2. Reader!ReadPhiId(Reader!WritePhiId(id)) = (num_values - (-(id - num_values))) % Word
    BY <1>3, <2>1 DEF Reader!ReadPhiId, Reader!WritePhiId
  <2>3. num_values - (-(id - num_values)) = id
    BY DEF NumbersOK
  <2>4. id % Word = id
    BY Residues DEF NumbersOK
  <2> QED BY <2>2, <2>3, <2>4
<1> QED BY <1>1, <1>2, <1>3 DEF NumbersOK

-----------------------------------------------------------------------------
(* The incoming pairs of a phi.                                             *)

\* The incoming list of a phi, with or without the pairs that are there already.
LEMMA IncomingSound ==
  ASSUME NEW T, \A x \in T : x = [bb |-> x.bb, id |-> x.id], NEW pairs \in Seq(T),
         dedupe \in BOOLEAN, ~Reader!Clashes(pairs)
  PROVE  LET list == Reader!Incoming(pairs) IN
         /\ list \in Seq(T)
         /\ Reader!ToSet(list) = Reader!ToSet(pairs)
         /\ dedupe => \A i, j \in DOMAIN list : i # j => list[i].bb # list[j].bb
<1> DEFINE N == Len(pairs)
           S == Seq(T)
           g == [i \in 1..N |-> [y \in S |-> Reader!AddIncoming(y, pairs[i])]]
           W(c) == c = [i \in 0..N |-> IF i = 0 THEN <<>> ELSE Reader!AddIncoming(c[i - 1], pairs[i])]
<1>1. N \in Nat /\ DOMAIN pairs = 1..N /\ \A i \in 1..N : pairs[i] \in T
  OBVIOUS
<1>2. \A i \in 1..N : \A y \in S : Reader!AddIncoming(y, pairs[i]) \in S
  BY <1>1 DEF Reader!AddIncoming
<1>3. g \in [1..N -> [S -> S]]
  <2> HIDE DEF N, S
  <2> QED BY <1>2
<1>4. <<>> \in S
  OBVIOUS
<1>5. PICK f : Steps(f, N, S, g, <<>>)
  <2> HIDE DEF S, g, N
  <2> QED BY <1>1, <1>3, <1>4, Stepped
<1>6. f \in [0..N -> S] /\ f[0] = <<>> /\ \A i \in 1..N : f[i] = g[i][f[i - 1]]
  BY <1>5 DEF Steps
<1>7. W(f)
  <2> HIDE DEF S, N
  <2>1. f = [i \in 0..N |-> f[i]]
    BY <1>6
  <2>2. \A i \in 0..N : f[i] = IF i = 0 THEN <<>> ELSE Reader!AddIncoming(f[i - 1], pairs[i])
    <3> SUFFICES ASSUME NEW i \in 0..N, i # 0 PROVE f[i] = Reader!AddIncoming(f[i - 1], pairs[i])
      BY <1>6
    <3>1. i \in 1..N /\ i - 1 \in 0..N
      BY <1>1
    <3>2. f[i - 1] \in S
      BY <1>6, <3>1
    <3> QED BY <1>6, <3>1, <3>2
  <2> QED BY <2>1, <2>2, Zenon
<1> DEFINE h == CHOOSE c : W(c)
<1>8. W(h)
  <2> HIDE DEF W
  <2> QED BY <1>7
<1>9. Reader!Incoming(pairs) = h[N]
  BY Zenon DEF Reader!Incoming
<1>10. h[0] = <<>> /\ \A i \in 1..N : h[i] = Reader!AddIncoming(h[i - 1], pairs[i])
  <2>1. 0 \in 0..N /\ \A i \in 1..N : i \in 0..N /\ i # 0
    BY <1>1
  <2>2. h = [i \in 0..N |-> IF i = 0 THEN <<>> ELSE Reader!AddIncoming(h[i - 1], pairs[i])]
    BY <1>8
  <2> HIDE DEF h, N
  <2> QED BY <2>1, <2>2
<1> HIDE DEF h, W, g
<1> DEFINE Has(s, e) == \E k \in 1..Len(s) : s[k] = e
           Good == {i \in 0..N :
             /\ h[i] \in S
             /\ \A e : Has(h[i], e) <=> \E k \in 1..i : pairs[k] = e
             /\ dedupe => \A j, k \in 1..Len(h[i]) : j # k => h[i][j].bb # h[i][k].bb}
<1>11. 0 \in Good
  <2>1. h[0] \in S /\ Len(h[0]) = 0
    BY <1>10
  <2>2. 1..0 = {} /\ 0 \in 0..N
    BY <1>1
  <2> QED BY <2>1, <2>2
<1>12. ASSUME NEW i \in 0..N, i < N, i \in Good PROVE i + 1 \in Good
  <2> DEFINE m == i + 1
             s == h[i]
             t == h[m]
             p == pairs[m]
  <2>1. m \in 1..N /\ m - 1 = i /\ m \in 0..N /\ i \in Nat
    BY <1>1, <1>12
  <2>2. 1..m = (1..i) \cup {m}
    BY <2>1
  <2>3. p \in T /\ s \in Seq(T) /\ t = Reader!AddIncoming(s, p)
    BY <1>1, <1>10, <1>12, <2>1
  <2>4. /\ \A e : Has(s, e) <=> \E k \in 1..i : pairs[k] = e
        /\ dedupe => \A j, k \in 1..Len(s) : j # k => s[j].bb # s[k].bb
    BY <1>12
  <2> HIDE DEF m, s, t, p, Good
  <2>5. (\E k \in 1..m : pairs[k] = p)
        /\ \A e : (\E k \in 1..m : pairs[k] = e) <=> (e = p \/ \E k \in 1..i : pairs[k] = e)
    BY <2>1, <2>2 DEF p
  <2>6. DOMAIN s = 1..Len(s) /\ Len(s) \in Nat
    BY <2>3
  <2>7. /\ t \in Seq(T)
        /\ \A e : Has(t, e) <=> \E k \in 1..m : pairs[k] = e
        /\ dedupe => \A j, k \in 1..Len(t) : j # k => t[j].bb # t[k].bb
    <3>1. CASE dedupe /\ \E k \in 1..Len(s) : s[k].bb = p.bb
      <4>1. t = s
        BY <2>3, <2>6, <3>1 DEF Reader!AddIncoming
      <4>2. Has(s, p)
        <5>1. PICK k \in 1..Len(s) : s[k].bb = p.bb
          BY <3>1
        <5>2. PICK l \in 1..i : pairs[l] = s[k]
          BY <2>4
        <5>3. l \in 1..N /\ m \in 1..N
          BY <1>1, <2>1, <5>2
        <5>4. pairs[l].bb = pairs[m].bb
          BY <5>1, <5>2 DEF p
        <5>5. pairs[l].id = pairs[m].id
          BY <1>1, <3>1, <5>3, <5>4 DEF Reader!Clashes
        <5>6. pairs[l] \in T /\ pairs[m] \in T
          BY <1>1, <5>3
        <5>7. pairs[l] = pairs[m]
          BY <5>4, <5>5, <5>6
        <5>8. s[k] = p
          BY <5>2, <5>7 DEF p
        <5> QED BY <5>8
      <4> HIDE DEF Has
      <4> QED BY <2>3, <2>4, <2>5, <4>1, <4>2
    <3>2. CASE ~(dedupe /\ \E k \in 1..Len(s) : s[k].bb = p.bb)
      <4>1. t = Append(s, p)
        BY <2>3, <2>6, <3>2 DEF Reader!AddIncoming
      <4>2. /\ t \in Seq(T) /\ Len(t) = Len(s) + 1 /\ t[Len(s) + 1] = p
            /\ \A k \in 1..Len(s) : t[k] = s[k]
        BY <2>3, <4>1
      <4>3. \A k \in 1..Len(t) : k \in 1..Len(s) \/ k = Len(s) + 1
        BY <2>6, <4>2
      <4>4. \A k \in 1..Len(s) : k \in 1..Len(t)
        BY <2>6, <4>2
      <4>5. Len(s) + 1 \in 1..Len(t)
        BY <2>6, <4>2
      <4>6. \A e : Has(t, e) <=> Has(s, e) \/ e = p
        BY <4>2, <4>3, <4>4, <4>5
      <4>7. dedupe => \A j, k \in 1..Len(t) : j # k => t[j].bb # t[k].bb
        BY <2>4, <3>2, <4>2, <4>3
      <4> HIDE DEF Has
      <4> QED BY <2>4, <2>5, <4>2, <4>6, <4>7
    <3> QED BY <3>1, <3>2
  <2> QED BY <2>1, <2>7 DEF m, t, Good
<1>13. N \in Good
  <2>1. N \in 0..N
    BY <1>1
  <2> HIDE DEF Good, N
  <2> QED BY <1>1, <1>11, <1>12, <2>1, NatSetUpTo
<1> DEFINE list == h[N]
<1>14. /\ list \in Seq(T)
       /\ \A e : Has(list, e) <=> \E k \in 1..N : pairs[k] = e
       /\ dedupe => \A j, k \in 1..Len(list) : j # k => list[j].bb # list[k].bb
  BY <1>13
<1> HIDE DEF list, Good
<1>15. DOMAIN list = 1..Len(list)
  BY <1>14
<1>16. \A e : e \in Reader!ToSet(list) <=> e \in Reader!ToSet(pairs)
  <2>1. \A e : e \in Reader!ToSet(list) <=> Has(list, e)
    BY <1>15 DEF Reader!ToSet
  <2>2. \A e : e \in Reader!ToSet(pairs) <=> \E k \in 1..N : pairs[k] = e
    BY <1>1 DEF Reader!ToSet
  <2> HIDE DEF Has
  <2> QED BY <1>14, <2>1, <2>2
<1>17. Reader!ToSet(list) = Reader!ToSet(pairs)
  BY <1>16, Zenon
<1> QED BY <1>9, <1>14, <1>15, <1>17 DEF list

-----------------------------------------------------------------------------
(* The cases of a switch.                                                   *)

Case   == [value : Int, bb : Reader!Bbs]
Group  == [ranges : Seq(Int \X Int), bb : Reader!Bbs]

\* What ReadSwitch makes of a group and of all of them.
CasesOf(g) == Reader!FlattenSeq([r \in DOMAIN g.ranges |-> Reader!Expanded(g.ranges[r], g.bb)])
AllCases(groups) == Reader!FlattenSeq([k \in DOMAIN groups |-> CasesOf(groups[k])])

\* The group has a range with v in it.
Around(g, v) == \E r \in DOMAIN g.ranges : g.ranges[r][1] <= v /\ v <= g.ranges[r][2]

\* The ranges are in order, as the reader checks.
InOrderRanges(groups) ==
  \A k \in DOMAIN groups : \A r \in DOMAIN groups[k].ranges :
    groups[k].ranges[r][1] <= groups[k].ranges[r][2]

\* A group becomes the cases of the values around which it has a range.
LEMMA GroupCases ==
  ASSUME NEW g \in Group, \A r \in DOMAIN g.ranges : g.ranges[r][1] <= g.ranges[r][2]
  PROVE  /\ CasesOf(g) \in Seq(Case)
         /\ \A k \in 1..Len(CasesOf(g)) :
              CasesOf(g)[k].bb = g.bb /\ Around(g, CasesOf(g)[k].value)
         /\ \A v \in Int : Around(g, v) => \E k \in 1..Len(CasesOf(g)) : CasesOf(g)[k].value = v
<1> DEFINE N == Len(g.ranges)
           s == [r \in DOMAIN g.ranges |-> Reader!Expanded(g.ranges[r], g.bb)]
           lo(r) == g.ranges[r][1]
           hi(r) == g.ranges[r][2]
<1>1. N \in Nat /\ DOMAIN g.ranges = 1..N /\ g.bb \in Reader!Bbs
      /\ \A r \in 1..N : lo(r) \in Int /\ hi(r) \in Int /\ lo(r) <= hi(r)
  <2>1. g.ranges \in Seq(Int \X Int) /\ g.bb \in Reader!Bbs
    BY DEF Group
  <2>2. N \in Nat /\ DOMAIN g.ranges = 1..N
    BY <2>1
  <2>3. \A r \in 1..N : g.ranges[r] \in Int \X Int
    BY <2>1
  <2>4. \A r \in 1..N : lo(r) \in Int /\ hi(r) \in Int
    BY <2>3
  <2> QED BY <2>1, <2>2, <2>4
<1>2. ASSUME NEW r \in 1..N
      PROVE  /\ s[r] \in Seq(Case) /\ Len(s[r]) = hi(r) - lo(r) + 1
             /\ \A k \in 1..Len(s[r]) : s[r][k] = [value |-> lo(r) + k - 1, bb |-> g.bb]
  <2>1. s[r] = Reader!Expanded(g.ranges[r], g.bb)
    BY <1>1
  <2>2. s[r] = [k \in 1..(hi(r) - lo(r) + 1) |-> [value |-> lo(r) + k - 1, bb |-> g.bb]]
    BY <2>1 DEF Reader!Expanded
  <2>3. hi(r) - lo(r) + 1 \in Nat /\ lo(r) \in Int
    BY <1>1
  <2> DEFINE len == hi(r) - lo(r) + 1
             low == lo(r)
  <2> HIDE DEF len, low, s
  <2>4. s[r] = [k \in 1..len |-> [value |-> low + k - 1, bb |-> g.bb]] /\ len \in Nat /\ low \in Int
    BY <2>2, <2>3 DEF len, low
  <2>5. \A k \in 1..len : [value |-> low + k - 1, bb |-> g.bb] \in Case
    BY <1>1, <2>4 DEF Case
  <2>6. s[r] \in [1..len -> Case]
    BY <2>4, <2>5
  <2>7. s[r] \in Seq(Case) /\ Len(s[r]) = len
    BY <2>4, <2>6, FunctionIsSeq
  <2>8. \A k \in 1..len : s[r][k] = [value |-> low + k - 1, bb |-> g.bb]
    BY <2>4
  <2> QED BY <2>7, <2>8 DEF len, low
<1>3. s \in [1..N -> Seq(Case)]
  <2>1. DOMAIN s = 1..N /\ s = [r \in 1..N |-> s[r]]
    BY <1>1
  <2> HIDE DEF s
  <2> QED BY <1>2, <2>1
<1>4. FlatOf(Reader!FlattenSeq(s), s, N, Case)
  <2> HIDE DEF s, N
  <2> QED BY <1>1, <1>3, ReadFlatElements
<1> DEFINE flat == Reader!FlattenSeq(s)
<1>5. CasesOf(g) = flat
  BY DEF CasesOf
<1> HIDE DEF s, flat
<1>6. /\ flat \in Seq(Case)
      /\ \A k \in 1..Len(flat) : \E i \in 1..N : \E j \in 1..Len(s[i]) : s[i][j] = flat[k]
      /\ \A i \in 1..N : \A j \in 1..Len(s[i]) : \E k \in 1..Len(flat) : flat[k] = s[i][j]
  BY <1>4 DEF FlatOf, flat
<1>7. ASSUME NEW k \in 1..Len(flat) PROVE flat[k].bb = g.bb /\ Around(g, flat[k].value)
  <2>1. PICK r \in 1..N : \E j \in 1..Len(s[r]) : s[r][j] = flat[k]
    BY <1>6
  <2>2. PICK j \in 1..Len(s[r]) : s[r][j] = flat[k]
    BY <2>1
  <2>3. flat[k] = [value |-> lo(r) + j - 1, bb |-> g.bb]
    <3>1. \A i \in 1..Len(s[r]) : s[r][i] = [value |-> lo(r) + i - 1, bb |-> g.bb]
      BY <1>2
    <3>2. s[r][j] = [value |-> lo(r) + j - 1, bb |-> g.bb]
      BY <3>1, Zenon
    <3> QED BY <2>2, <3>2
  <2>4. lo(r) <= lo(r) + j - 1 /\ lo(r) + j - 1 <= hi(r)
    <3> DEFINE low == lo(r)
               high == hi(r)
               len == Len(s[r])
    <3>1. low \in Int /\ high \in Int
      BY <1>1
    <3>2. len = high - low + 1
      BY <1>2
    <3>3. j \in 1..len
      BY <2>2
    <3> HIDE DEF low, high, len
    <3>4. low <= low + j - 1 /\ low + j - 1 <= high
      BY <3>1, <3>2, <3>3
    <3> QED BY <3>4 DEF low, high
  <2>5. flat[k].value = lo(r) + j - 1 /\ flat[k].bb = g.bb
    BY <2>3
  <2>6. lo(r) <= flat[k].value /\ flat[k].value <= hi(r) /\ r \in DOMAIN g.ranges
    BY <1>1, <2>4, <2>5
  <2> QED BY <2>5, <2>6 DEF Around
<1>8. ASSUME NEW v \in Int, Around(g, v) PROVE \E k \in 1..Len(flat) : flat[k].value = v
  <2>1. PICK r \in 1..N : lo(r) <= v /\ v <= hi(r)
    BY <1>1, <1>8 DEF Around
  <2> DEFINE j == v - lo(r) + 1
  <2>2. j \in 1..Len(s[r]) /\ lo(r) + j - 1 = v
    <3> DEFINE low == lo(r)
               high == hi(r)
               len == Len(s[r])
    <3>1. low \in Int /\ high \in Int /\ low <= v /\ v <= high
      BY <1>1, <2>1
    <3>2. len = high - low + 1
      BY <1>2
    <3>3. j = v - low + 1
      OBVIOUS
    <3> HIDE DEF low, high, len, j
    <3>4. j \in 1..len /\ low + j - 1 = v
      BY <3>1, <3>2, <3>3
    <3> QED BY <3>4 DEF low, len
  <2> HIDE DEF j
  <2>3. s[r][j].value = v
    <3>1. \A i \in 1..Len(s[r]) : s[r][i] = [value |-> lo(r) + i - 1, bb |-> g.bb]
      BY <1>2
    <3>2. s[r][j] = [value |-> lo(r) + j - 1, bb |-> g.bb]
      BY <2>2, <3>1, Zenon
    <3> QED BY <2>2, <3>2
  <2>4. PICK k \in 1..Len(flat) : flat[k] = s[r][j]
    BY <1>6, <2>2
  <2> QED BY <2>3, <2>4
<1> QED BY <1>5, <1>6, <1>7, <1>8

\* The first case with a value is of the first group that has it.
LEMMA SwitchAsMeant ==
  ASSUME NEW groups \in Seq(Group), InOrderRanges(groups), NEW i, NEW m, NEW v \in Int,
         i.cases = AllCases(groups), m.cases = groups, i.targets = m.targets
  PROVE  Reader!SwitchTo(i, v) = Reader!MeantTo(m, v)
<1> DEFINE N == Len(groups)
           s == [k \in DOMAIN groups |-> CasesOf(groups[k])]
           flat == Reader!FlattenSeq(s)
<1>1. N \in Nat /\ DOMAIN groups = 1..N /\ \A k \in 1..N : groups[k] \in Group
  OBVIOUS
<1>2. ASSUME NEW k \in 1..N
      PROVE  /\ s[k] \in Seq(Case)
             /\ \A j \in 1..Len(s[k]) : s[k][j].bb = groups[k].bb
                                        /\ Around(groups[k], s[k][j].value)
             /\ Around(groups[k], v) => \E j \in 1..Len(s[k]) : s[k][j].value = v
  <2>1. groups[k] \in Group /\ \A r \in DOMAIN groups[k].ranges :
                                 groups[k].ranges[r][1] <= groups[k].ranges[r][2]
    BY <1>1 DEF InOrderRanges
  <2>2. s[k] = CasesOf(groups[k])
    BY <1>1
  <2> HIDE DEF s
  <2> QED BY <2>1, <2>2, GroupCases
<1>3. s \in Seq(Seq(Case)) /\ Len(s) = N
  <2>1. DOMAIN s = 1..N /\ s = [r \in 1..N |-> s[r]]
    BY <1>1
  <2> HIDE DEF s
  <2>2. s \in [1..N -> Seq(Case)]
    BY <1>2, <2>1
  <2> HIDE DEF N
  <2> QED BY <1>1, <2>2
<1>4. flat \in Seq(Case) /\ \E from : Joined(flat, s, N, from)
  <2> HIDE DEF s
  <2>1. flat = FlattenSeq(s)
    BY DEF Reader!FlattenSeq, FlattenSeq
  <2>2. FlattenSeq(s) \in Seq(Case) /\ \E from : Joined(FlattenSeq(s), s, N, from)
    BY <1>3, Flattened
  <2> QED BY <2>1, <2>2
<1>5. i.cases = flat
  BY DEF AllCases
<1> HIDE DEF flat, s
<1>6. PICK from : Joined(flat, s, N, from)
  BY <1>4
<1>7. DOMAIN flat = 1..Len(flat) /\ Len(flat) \in Nat
  BY <1>4
<1> DEFINE F == {k \in DOMAIN flat : flat[k].value = v}
           G == {k \in DOMAIN groups : Around(groups[k], v)}
<1>8. Reader!SwitchTo(i, v) = IF F = {} THEN i.targets[1]
                              ELSE flat[CHOOSE k \in F : \A j \in F : k <= j].bb
  BY <1>5 DEF Reader!SwitchTo
<1>9. Reader!MeantTo(m, v) = IF G = {} THEN i.targets[1]
                             ELSE groups[CHOOSE k \in G : \A j \in G : k <= j].bb
  BY DEF Reader!MeantTo, Around
<1>10. ASSUME NEW k \in F PROVE k \in 1..Len(flat) /\ from[k] \in G
       /\ flat[k].bb = groups[from[k]].bb
  <2>1. k \in 1..Len(flat) /\ flat[k].value = v
    BY <1>7
  <2>2. from[k] \in 1..N /\ \E j \in 1..Len(s[from[k]]) : s[from[k]][j] = flat[k]
    BY <1>6, <2>1 DEF Joined
  <2>3. flat[k].bb = groups[from[k]].bb /\ Around(groups[from[k]], flat[k].value)
    BY <1>2, <2>2
  <2> QED BY <1>1, <2>1, <2>2, <2>3
<1>11. ASSUME NEW k \in G PROVE \E l \in F : from[l] = k
  <2>1. k \in 1..N /\ Around(groups[k], v)
    BY <1>1
  <2>2. PICK j \in 1..Len(s[k]) : s[k][j].value = v
    BY <1>2, <2>1
  <2>3. PICK l \in 1..Len(flat) : from[l] = k /\ flat[l] = s[k][j]
    BY <1>6, <2>1 DEF Joined
  <2> QED BY <1>7, <2>2, <2>3
<1> HIDE DEF F, G
<1>12. CASE F = {}
  <2>1. G = {}
    BY <1>11, <1>12
  <2> QED BY <1>8, <1>9, <1>12, <2>1
<1>13. CASE F # {}
  <2>1. F \in SUBSET Nat /\ G \in SUBSET Nat /\ G # {}
    BY <1>1, <1>7, <1>10, <1>13 DEF F, G
  <2> DEFINE a == CHOOSE k \in F : \A j \in F : k <= j
             c == CHOOSE k \in G : \A j \in G : k <= j
  <2>2. a \in F /\ \A j \in F : a <= j
    BY <1>13, <2>1, LeastNat
  <2>3. c \in G /\ \A j \in G : c <= j
    BY <2>1, LeastNat
  <2> HIDE DEF a, c
  <2>4. from[a] \in G /\ flat[a].bb = groups[from[a]].bb /\ a \in 1..Len(flat)
    BY <1>10, <2>2
  <2>5. PICK l \in F : from[l] = c
    BY <1>11, <2>3
  <2>6. a <= l /\ c <= from[a] /\ l \in 1..Len(flat)
    BY <1>10, <2>2, <2>3, <2>4
  <2>7. a # l => from[a] <= from[l]
    <3>1. a # l => a < l
      BY <2>4, <2>6
    <3> QED BY <1>6, <2>4, <2>6, <3>1 DEF Joined
  <2>8. from[a] = c
    <3>1. from[a] \in Nat /\ c \in Nat
      BY <2>1, <2>3, <2>4
    <3>2. CASE a = l
      BY <2>5, <3>2
    <3>3. CASE a # l
      <4>1. from[a] <= c /\ c <= from[a]
        BY <2>5, <2>6, <2>7, <3>3
      <4> QED BY <3>1, <4>1
    <3> QED BY <3>2, <3>3
  <2> QED BY <1>8, <1>9, <1>13, <2>1, <2>4, <2>8 DEF a, c
<1> QED BY <1>12, <1>13

-----------------------------------------------------------------------------
(* The invariant.                                                           *)

\* A block as it is read.
Bb == [first_def : Int, last_def : Int, succs : Seq(Reader!Bbs), ended : BOOLEAN]

\* The first value behind the constants.
Start == NumGlobals + NumArgs + IF constants THEN NumConstants ELSE 0

\* The first value that belongs to no block that has ended.
Open == IF prev_bb_id = cur_bb_id THEN first_bb_value_id ELSE num_values

\* The ranges of the blocks of b lie one behind the other, from start to open.
Parted(b, start, open) ==
  /\ \A k \in DOMAIN b : b[k].first_def # Reader!Invalid =>
       /\ start <= b[k].first_def
       /\ b[k].last_def < open
       /\ b[k].first_def <= b[k].last_def
  /\ \A j, k \in DOMAIN b :
       j < k /\ b[j].first_def # Reader!Invalid /\ b[k].first_def # Reader!Invalid =>
         b[j].last_def < b[k].first_def
  /\ \A v \in start..(open - 1) :
       \E k \in DOMAIN b : b[k].first_def # Reader!Invalid /\ b[k].first_def <= v
                           /\ v <= b[k].last_def

\* The counters of the reader.
CountersOK ==
  /\ use_relative_ids \in BOOLEAN /\ dedupe \in BOOLEAN /\ constants \in BOOLEAN
  /\ num_bbs \in 0..MaxBbs
  /\ num_instructions \in 0..MaxInsts
  /\ num_values \in Start..(Start + num_instructions)
  /\ num_instructions = 0 => read_bbs = <<>>
  /\ status = "done" => Len(read_bbs) = num_bbs

\* Where the reader is in the blocks.
BlocksOK ==
  /\ read_bbs \in Seq(Bb)
  /\ cur_bb_id \in Nat
  /\ prev_bb_id \in {cur_bb_id, cur_bb_id - 1}
  /\ Len(read_bbs) = IF prev_bb_id = cur_bb_id THEN cur_bb_id + 1 ELSE cur_bb_id
  /\ Len(read_bbs) <= num_bbs
  /\ Open \in Start..num_values
  /\ \A k \in 1..Len(read_bbs) : read_bbs[k].ended <=> k <= cur_bb_id
  /\ \A k \in 1..Len(read_bbs) : ~read_bbs[k].ended => read_bbs[k].first_def = Reader!Invalid

\* What ReadAsMeant says of an instruction.
AsMeant(i, m) ==
  /\ i.code = m.code /\ i.ids = m.ids /\ i.targets = m.targets
  /\ Reader!ToSet(i.incoming) = Reader!ToSet(m.incoming)
  /\ i.code = "SWITCH" => \A v \in Reader!CaseValues : Reader!SwitchTo(i, v) = Reader!MeantTo(m, v)

\* What PhiOncePerBlock says of one.
OncePerBlock(i) ==
  dedupe => \A j, k \in DOMAIN i.incoming : j # k => i.incoming[j].bb # i.incoming[k].bb

\* The inductive invariant of the reader.
RInv ==
  /\ CountersOK
  /\ BlocksOK
  /\ Parted(read_bbs, Start, Open)
  /\ AsMeant(read_inst, meant)
  /\ OncePerBlock(read_inst)

\* The range of one more block lies behind those of the others.
LEMMA PartedMore ==
  ASSUME NEW b \in Seq(Bb), NEW c \in Seq(Bb), NEW N \in Nat,
         Len(b) \in {N, N + 1}, Len(c) = N + 1,
         Len(b) = N + 1 => b[N + 1].first_def = Reader!Invalid,
         \A k \in 1..N : c[k] = b[k],
         NEW start \in Nat, NEW open \in Nat, NEW last \in Nat, start <= open, open <= last,
         Parted(b, start, open),
         c[N + 1].first_def = IF last # open THEN open ELSE Reader!Invalid,
         last # open => c[N + 1].last_def = last - 1
  PROVE  Parted(c, start, last)
<1>1. /\ DOMAIN b = 1..Len(b) /\ DOMAIN c = 1..(N + 1)
      /\ \A k \in 1..N : k \in DOMAIN b
      /\ \A k \in DOMAIN c : k \in 1..N \/ k = N + 1
      /\ \A k \in DOMAIN b : k \in 1..N \/ k = N + 1
  OBVIOUS
<1>2. \A k \in DOMAIN c : c[k].first_def \in Int /\ c[k].last_def \in Int
  <2>1. \A k \in DOMAIN c : c[k] \in Bb
    OBVIOUS
  <2> QED BY <2>1 DEF Bb
<1>3. ASSUME NEW k \in DOMAIN c, c[k].first_def # Reader!Invalid
      PROVE  start <= c[k].first_def /\ c[k].last_def < last /\ c[k].first_def <= c[k].last_def
  <2>1. CASE k \in 1..N
    <3>1. k \in DOMAIN b /\ c[k] = b[k]
      BY <1>1, <2>1
    <3>2. start <= c[k].first_def /\ c[k].last_def < open /\ c[k].first_def <= c[k].last_def
      BY <1>3, <3>1 DEF Parted
    <3> QED BY <1>2, <3>2
  <2>2. CASE k = N + 1
    BY <1>2, <1>3, <2>2
  <2> QED BY <1>1, <2>1, <2>2
<1>4. ASSUME NEW j \in DOMAIN c, NEW k \in DOMAIN c, j < k,
             c[j].first_def # Reader!Invalid, c[k].first_def # Reader!Invalid
      PROVE  c[j].last_def < c[k].first_def
  <2>1. j \in 1..N /\ j \in DOMAIN b /\ c[j] = b[j]
    <3>1. j \in 1..(N + 1) /\ k \in 1..(N + 1)
      BY <1>1
    <3>2. j \in 1..N
      BY <1>4, <3>1
    <3> QED BY <1>1, <3>2
  <2>2. CASE k \in 1..N
    <3>1. k \in DOMAIN b /\ c[k] = b[k]
      BY <1>1, <2>2
    <3> QED BY <1>4, <2>1, <3>1 DEF Parted
  <2>3. CASE k = N + 1
    <3>1. c[j].last_def < open
      BY <1>4, <2>1 DEF Parted
    <3> QED BY <1>4, <2>3, <3>1
  <2> QED BY <1>1, <2>2, <2>3
<1>5. ASSUME NEW v \in start..(last - 1)
      PROVE  \E k \in DOMAIN c : /\ c[k].first_def # Reader!Invalid
                                 /\ c[k].first_def <= v /\ v <= c[k].last_def
  <2>1. CASE v < open
    <3>1. v \in start..(open - 1)
      BY <2>1
    <3>2. PICK k \in DOMAIN b : /\ b[k].first_def # Reader!Invalid
                                /\ b[k].first_def <= v /\ v <= b[k].last_def
      BY <3>1 DEF Parted
    <3>3. k \in 1..N
      BY <1>1, <3>2
    <3>4. c[k] = b[k] /\ k \in DOMAIN c
      <4>1. c[k] = b[k]
        BY <3>3
      <4>2. k \in 1..(N + 1)
        BY <3>3
      <4> QED BY <1>1, <4>1, <4>2
    <3> QED BY <3>2, <3>4
  <2>2. CASE open <= v
    <3>1. last # open /\ N + 1 \in DOMAIN c
      <4>1. last # open
        BY <2>2
      <4>2. N + 1 \in 1..(N + 1)
        OBVIOUS
      <4> QED BY <1>1, <4>1, <4>2
    <3>2. c[N + 1].first_def = open /\ c[N + 1].last_def = last - 1
      BY <3>1
    <3>3. open # Reader!Invalid
      BY DEF Reader!Invalid
    <3> QED BY <2>2, <3>1, <3>2, <3>3
  <2> QED BY <2>1, <2>2
<1> QED BY <1>3, <1>4, <1>5 DEF Parted

\* Reading an instruction keeps the invariant.
LEMMA Appended ==
  ASSUME Reader!ReaderAssumption, RInv, Reader!InBlock, NEW i, NEW m,
         i.result \in {Reader!Invalid, num_values},
         i.code \in Reader!Terminators => i.result = Reader!Invalid,
         i.targets \in Seq(Reader!Bbs), AsMeant(i, m), OncePerBlock(i), Reader!AppendInstruction(i, m)
  PROVE  RInv'
<1> USE DEF RInv
<1> DEFINE N == cur_bb_id
           new == [first_def |-> Reader!Invalid, last_def |-> Reader!Invalid, succs |-> <<>>, ended |-> FALSE]
<1>1. /\ N \in Nat /\ read_bbs \in Seq(Bb) /\ num_values \in Nat /\ Start \in Nat /\ Open \in Nat
      /\ Start <= Open /\ Open <= num_values
      /\ MaxBbs \in Nat /\ MaxInsts \in Nat /\ num_instructions \in Nat /\ num_bbs \in Nat
  <2>1. Start \in Nat /\ MaxBbs \in Nat /\ MaxInsts \in Nat
    BY DEF Reader!ReaderAssumption, Start
  <2>2. num_values \in Nat /\ num_instructions \in Nat /\ num_bbs \in Nat /\ N \in Nat
    BY <2>1 DEF CountersOK, BlocksOK
  <2> QED BY <2>1, <2>2 DEF BlocksOK
<1>2. new \in Bb
  BY DEF Bb, Reader!Invalid
<1>3. /\ Reader!Opened \in Seq(Bb) /\ Len(Reader!Opened) = N + 1 /\ Len(read_bbs) \in {N, N + 1}
      /\ \A k \in 1..N : Reader!Opened[k] = read_bbs[k] /\ read_bbs[k].ended
      /\ Reader!Opened[N + 1].first_def = Reader!Invalid /\ ~Reader!Opened[N + 1].ended
      /\ Len(read_bbs) = N + 1 => read_bbs[N + 1].first_def = Reader!Invalid
      /\ N + 1 <= num_bbs
  <2>1. CASE Reader!NewBlock
    <3>1. Reader!Opened = Append(read_bbs, new) /\ Len(read_bbs) = N
      BY <2>1 DEF Reader!Opened, Reader!NewBlock, BlocksOK
    <3> HIDE DEF new
    <3>2. /\ Reader!Opened \in Seq(Bb) /\ Len(Reader!Opened) = N + 1 /\ Reader!Opened[N + 1] = new
          /\ \A k \in 1..N : Reader!Opened[k] = read_bbs[k]
      BY <1>1, <1>2, <3>1
    <3>3. \A k \in 1..N : read_bbs[k].ended
      BY <3>1, <1>1 DEF BlocksOK
    <3>4. N + 1 <= num_bbs
      BY <1>1, <2>1 DEF Reader!InBlock
    <3> QED BY <1>1, <3>1, <3>2, <3>3, <3>4 DEF new
  <2>2. CASE ~Reader!NewBlock
    <3>1. Reader!Opened = read_bbs /\ Len(read_bbs) = N + 1
      BY <2>2 DEF Reader!Opened, Reader!NewBlock, BlocksOK
    <3>2. ~read_bbs[N + 1].ended /\ read_bbs[N + 1].first_def = Reader!Invalid
      BY <1>1, <3>1 DEF BlocksOK
    <3>3. \A k \in 1..N : read_bbs[k].ended
      BY <3>1, <1>1 DEF BlocksOK
    <3> QED BY <1>1, <3>1, <3>2, <3>3 DEF BlocksOK
  <2> QED BY <2>1, <2>2
<1>4. Reader!FirstId = Open
  BY DEF Reader!FirstId, Reader!NewBlock, Open
<1> DEFINE term == i.code \in Reader!Terminators
           last == IF term THEN num_values ELSE Open
           b0 == Reader!Opened[N + 1]
           b1 == IF term THEN Reader!EndBlock(b0, Open, num_values, i.targets) ELSE b0
<1>5. read_bbs' = [Reader!Opened EXCEPT ![N + 1] = b1]
  BY <1>4 DEF Reader!AppendInstruction
<1>6. b0 \in Bb
  BY <1>1, <1>3
<1>7. /\ b1 \in Bb
      /\ b1.first_def = IF last # Open THEN Open ELSE Reader!Invalid
      /\ last # Open => b1.last_def = last - 1
      /\ b1.ended <=> term
  <2>1. CASE term
    <3>1. b0 = [first_def |-> b0.first_def, last_def |-> b0.last_def, succs |-> b0.succs,
                ended |-> b0.ended]
      BY <1>6 DEF Bb
    <3> HIDE DEF b0
    <3>2. b1 = [first_def |-> IF num_values # Open THEN Open ELSE Reader!Invalid,
                last_def |-> IF num_values # Open THEN num_values - 1 ELSE Reader!Invalid,
                succs |-> i.targets, ended |-> TRUE]
      BY <2>1, <3>1 DEF Reader!EndBlock
    <3> HIDE DEF b1
    <3>3. Reader!Invalid \in Int
      BY DEF Reader!Invalid
    <3> QED BY <1>1, <2>1, <3>2, <3>3 DEF Bb
  <2>2. CASE ~term
    BY <1>3, <1>6, <2>2
  <2> QED BY <2>1, <2>2
<1> HIDE DEF b0, b1, new
<1>8. /\ read_bbs' \in Seq(Bb) /\ Len(read_bbs') = N + 1 /\ read_bbs'[N + 1] = b1
      /\ \A k \in 1..N : read_bbs'[k] = read_bbs[k] /\ read_bbs'[k].ended
  <2>1. read_bbs' \in Seq(Bb) /\ Len(read_bbs') = N + 1 /\ read_bbs'[N + 1] = b1
        /\ \A k \in 1..N : read_bbs'[k] = Reader!Opened[k]
    BY <1>1, <1>3, <1>5, <1>7
  <2> QED BY <1>3, <2>1
<1>9. last \in Nat /\ Open <= last /\ last <= num_values
  BY <1>1
<1> HIDE DEF last
<1>10. Parted(read_bbs', Start, last)
  <2>1. \A k \in 1..N : read_bbs'[k] = read_bbs[k]
    BY <1>8
  <2>2. /\ read_bbs'[N + 1].first_def = IF last # Open THEN Open ELSE Reader!Invalid
        /\ last # Open => read_bbs'[N + 1].last_def = last - 1
    BY <1>7, <1>8
  <2>3. Parted(read_bbs, Start, Open)
    OBVIOUS
  <2>4. /\ read_bbs' \in Seq(Bb) /\ Len(read_bbs') = N + 1 /\ Len(read_bbs) \in {N, N + 1}
        /\ Len(read_bbs) = N + 1 => read_bbs[N + 1].first_def = Reader!Invalid
    BY <1>3, <1>8
  <2> HIDE DEF N, RInv
  <2> QED BY <1>1, <1>9, <2>1, <2>2, <2>3, <2>4, PartedMore
<1>11. num_values' \in num_values..(num_values + 1) /\ (term => num_values' = num_values)
       /\ num_instructions' = num_instructions + 1 /\ num_instructions < MaxInsts
  BY <1>1 DEF Reader!AppendInstruction
<1>12. Start' = Start /\ num_bbs' = num_bbs /\ status' = status /\ dedupe' = dedupe
       /\ use_relative_ids' = use_relative_ids /\ constants' = constants
  BY DEF Reader!AppendInstruction, Start
<1>13. prev_bb_id' = N /\ cur_bb_id' = IF term THEN N + 1 ELSE N
  BY DEF Reader!AppendInstruction
<1>14. Open' = last
  <2>1. Open' = IF prev_bb_id' = cur_bb_id' THEN first_bb_value_id' ELSE num_values'
    BY DEF Open
  <2>2. first_bb_value_id' = Open
    BY <1>4 DEF Reader!AppendInstruction
  <2> QED BY <1>1, <1>11, <1>13, <2>1, <2>2 DEF last
<1>15. CountersOK'
  <2>1. status = "reading"
    BY DEF Reader!InBlock, Reader!Reading
  <2>2. num_instructions' \in 0..MaxInsts /\ num_instructions' # 0
    BY <1>1, <1>11
  <2>3. num_values' \in Start'..(Start' + num_instructions')
    BY <1>1, <1>11, <1>12 DEF CountersOK
  <2> QED BY <1>12, <2>1, <2>2, <2>3 DEF CountersOK
<1>16. BlocksOK'
  <2>1. read_bbs' \in Seq(Bb) /\ cur_bb_id' \in Nat /\ prev_bb_id' \in {cur_bb_id', cur_bb_id' - 1}
    BY <1>1, <1>8, <1>13
  <2>2. Len(read_bbs') = IF prev_bb_id' = cur_bb_id' THEN cur_bb_id' + 1 ELSE cur_bb_id'
    BY <1>1, <1>8, <1>13
  <2>3. Len(read_bbs') <= num_bbs'
    BY <1>3, <1>8, <1>12
  <2>4. Open' \in Start'..num_values'
    BY <1>1, <1>9, <1>11, <1>12, <1>14
  <2>5. ASSUME NEW k \in 1..Len(read_bbs')
        PROVE  /\ read_bbs'[k].ended <=> k <= cur_bb_id'
               /\ ~read_bbs'[k].ended => read_bbs'[k].first_def = Reader!Invalid
    <3>1. CASE k \in 1..N
      <4>1. read_bbs'[k].ended /\ k <= N
        BY <1>1, <1>8, <3>1
      <4> QED BY <1>1, <1>13, <4>1
    <3>2. CASE k = N + 1
      <4>1. (read_bbs'[k].ended <=> term) /\ (~term => read_bbs'[k].first_def = Reader!Invalid)
        BY <1>7, <1>8, <3>2 DEF last
      <4> QED BY <1>1, <1>13, <3>2, <4>1
    <3> QED BY <1>1, <1>8, <3>1, <3>2
  <2> QED BY <2>1, <2>2, <2>3, <2>4, <2>5 DEF BlocksOK
<1>17. Parted(read_bbs, Start, Open)'
  BY <1>10, <1>12, <1>14 DEF Parted
<1>18. AsMeant(read_inst, meant)' /\ OncePerBlock(read_inst)'
  <2>1. read_inst' = i /\ meant' = m
    BY DEF Reader!AppendInstruction
  <2>2. AsMeant(read_inst, meant)'
    <3> HIDE DEF RInv
    <3> QED BY <2>1
  <2>3. OncePerBlock(read_inst)'
    BY <1>12, <2>1 DEF OncePerBlock
  <2> QED BY <2>2, <2>3
<1> QED BY <1>15, <1>16, <1>17, <1>18

\* What the other facts take from the invariant.
LEMMA CountersBounded ==
  ASSUME Reader!ReaderAssumption, RInv
  PROVE  NumbersOK /\ dedupe \in BOOLEAN /\ Ids \subseteq 0..(Word - 1)
<1>1. Start \in Nat /\ MaxInsts \in Nat /\ Start + MaxInsts < Word
  <2>1. /\ NumGlobals \in Nat /\ NumArgs \in Nat /\ NumConstants \in Nat /\ MaxInsts \in Nat
        /\ NumGlobals + NumArgs + NumConstants + MaxInsts < Word /\ Word \in Nat
    BY DEF Reader!ReaderAssumption
  <2>2. CASE constants
    BY <2>1, <2>2 DEF Start
  <2>3. CASE ~constants
    BY <2>1, <2>3 DEF Start
  <2> QED BY <2>2, <2>3
<1>2. num_values \in Start..(Start + num_instructions) /\ num_instructions \in 0..MaxInsts
  BY DEF RInv, CountersOK
<1>3. Word \in Nat /\ Word > 0 /\ Ids \subseteq 0..(Word - 1)
  BY DEF Reader!ReaderAssumption
<1>4. num_values \in Nat /\ num_values < Word
  BY <1>1, <1>2, <1>3
<1> QED BY <1>3, <1>4 DEF RInv, CountersOK, NumbersOK

\* Giving up keeps the invariant.
LEMMA FatalKeeps ==
  ASSUME RInv, Reader!Fatal
  PROVE  RInv'
<1>1. CountersOK'
  <2>1. Start' = Start
    BY DEF Reader!Fatal, Reader!function, Start
  <2> QED BY <2>1 DEF RInv, Reader!Fatal, Reader!function, CountersOK
<1>2. BlocksOK'
  <2>1. Start' = Start /\ Open' = Open
    BY DEF Reader!Fatal, Reader!function, Start, Open
  <2> QED BY <2>1 DEF RInv, Reader!Fatal, Reader!function, BlocksOK
<1>3. Parted(read_bbs, Start, Open)'
  <2>1. Start' = Start /\ Open' = Open
    BY DEF Reader!Fatal, Reader!function, Start, Open
  <2>2. read_bbs' = read_bbs
    BY DEF Reader!Fatal, Reader!function
  <2> QED BY <2>1, <2>2 DEF RInv
<1>4. AsMeant(read_inst, meant)'
  <2>1. read_inst' = read_inst /\ meant' = meant
    BY DEF Reader!Fatal
  <2> QED BY <2>1 DEF RInv
<1>5. OncePerBlock(read_inst)'
  BY DEF RInv, Reader!Fatal, OncePerBlock
<1> QED BY <1>1, <1>2, <1>3, <1>4, <1>5 DEF RInv

\* Reading an instruction with operands keeps the invariant.
LEMMA OperationKeeps ==
  ASSUME Reader!ReaderAssumption, RInv, Reader!InBlock, NEW code, code # "SWITCH",
         NEW ids \in Seq(Ids), NEW result \in {Reader!Invalid, num_values},
         code \in Reader!Terminators => result = Reader!Invalid, Reader!Operation(code, ids, result)
  PROVE  RInv'
<1> DEFINE read == [k \in DOMAIN ids |-> Reader!ReadId(Reader!WriteId(ids[k]))]
           i == [Reader!Plain(code, read) EXCEPT !.result = result]
           m == [Reader!Plain(code, ids)  EXCEPT !.result = result]
<1>1. read = ids
  <2>1. \A k \in DOMAIN ids : ids[k] \in Ids
    OBVIOUS
  <2>2. \A k \in DOMAIN ids : ids[k] \in 0..(Word - 1)
    BY <2>1, CountersBounded
  <2>3. \A k \in DOMAIN ids : Reader!ReadId(Reader!WriteId(ids[k])) = ids[k]
    BY <2>2, CountersBounded, IdsReadBack
  <2>4. ids = [k \in DOMAIN ids |-> ids[k]]
    OBVIOUS
  <2> QED BY <2>3, <2>4
<1> HIDE DEF read
<1>2. i = [code |-> code, ids |-> ids, result |-> result, incoming |-> <<>>, targets |-> <<>>,
           cases |-> <<>>] /\ m = i
  BY <1>1 DEF Reader!Plain
<1>3. Reader!AppendInstruction(i, m)
  BY DEF Reader!Operation, read
<1> HIDE DEF i, m
<1>4. /\ i.code = code /\ i.result = result /\ i.incoming = <<>> /\ i.targets = <<>>
  BY <1>2
<1>5. AsMeant(i, m)
  <2>1. i.code # "SWITCH"
    BY <1>4
  <2> QED BY <1>2, <2>1 DEF AsMeant
<1>6. OncePerBlock(i) /\ i.targets \in Seq(Reader!Bbs)
  BY <1>4 DEF OncePerBlock
<1>7. i.result \in {Reader!Invalid, num_values}
      /\ (i.code \in Reader!Terminators => i.result = Reader!Invalid)
  BY <1>4
<1> QED BY <1>3, <1>5, <1>6, <1>7, Appended

\* Reading one that names no value or one that was read back keeps it.
LEMMA PlainKeeps ==
  ASSUME Reader!ReaderAssumption, RInv, Reader!InBlock, NEW i, NEW m, i = m, i.code # "SWITCH",
         i.result = Reader!Invalid, i.incoming = <<>>, i.targets \in Seq(Reader!Bbs), Reader!AppendInstruction(i, m)
  PROVE  RInv'
<1>1. AsMeant(i, m)
  BY DEF AsMeant
<1>2. OncePerBlock(i)
  BY DEF OncePerBlock
<1>3. i.result \in {Reader!Invalid, num_values}
      /\ (i.code \in Reader!Terminators => i.result = Reader!Invalid)
  OBVIOUS
<1> QED BY <1>1, <1>2, <1>3, Appended

\* Reading a phi keeps the invariant.
LEMMA PhiKeeps ==
  ASSUME Reader!ReaderAssumption, RInv, NEW pairs \in Seq(Reader!Pair), Reader!ReadPhi(pairs)
  PROVE  RInv'
<1> DEFINE read == [k \in DOMAIN pairs |-> [bb |-> pairs[k].bb,
                                            id |-> Reader!ReadPhiId(Reader!WritePhiId(pairs[k].id))]]
           phi(list) == [Reader!Plain("PHI", <<>>) EXCEPT !.result = num_values, !.incoming = list]
<1>1. read = pairs
  <2>1. \A k \in DOMAIN pairs : pairs[k] = [bb |-> pairs[k].bb, id |-> pairs[k].id]
                                /\ pairs[k].id \in Ids
    <3>1. \A k \in DOMAIN pairs : pairs[k] \in Reader!Pair
      OBVIOUS
    <3> QED BY <3>1 DEF Reader!Pair
  <2>2. \A k \in DOMAIN pairs : pairs[k].id \in 0..(Word - 1)
    BY <2>1, CountersBounded
  <2>3. \A k \in DOMAIN pairs : Reader!ReadPhiId(Reader!WritePhiId(pairs[k].id)) = pairs[k].id
    BY <2>2, CountersBounded, PhiIdsReadBack
  <2>4. pairs = [k \in DOMAIN pairs |-> pairs[k]]
    OBVIOUS
  <2> QED BY <2>1, <2>3, <2>4
<1>2. Reader!InBlock
      /\ IF Reader!Clashes(read) THEN Reader!Fatal
         ELSE Reader!AppendInstruction(phi(Reader!Incoming(read)), phi(pairs))
  BY DEF Reader!ReadPhi
<1> HIDE DEF read
<1>3. CASE Reader!Clashes(pairs)
  BY <1>1, <1>2, <1>3, FatalKeeps
<1>4. CASE ~Reader!Clashes(pairs)
  <2> DEFINE list == Reader!Incoming(pairs)
             i == phi(list)
             m == phi(pairs)
  <2>1. /\ Reader!ToSet(list) = Reader!ToSet(pairs)
        /\ dedupe => \A j, k \in DOMAIN list : j # k => list[j].bb # list[k].bb
    <3>1. \A x \in Reader!Pair : x = [bb |-> x.bb, id |-> x.id]
      BY DEF Reader!Pair
    <3> QED BY <1>4, <3>1, CountersBounded, IncomingSound
  <2> HIDE DEF list
  <2>2. /\ i = [Reader!Plain("PHI", <<>>) EXCEPT !.result = num_values, !.incoming = list]
        /\ m = [Reader!Plain("PHI", <<>>) EXCEPT !.result = num_values, !.incoming = pairs]
    OBVIOUS
  <2>3. Reader!AppendInstruction(i, m)
    BY <1>1, <1>2, <1>4 DEF list
  <2> HIDE DEF i, m
  <2>4. /\ i.code = "PHI" /\ i.ids = <<>> /\ i.result = num_values /\ i.incoming = list
        /\ i.targets = <<>> /\ m.code = "PHI" /\ m.ids = <<>> /\ m.incoming = pairs
        /\ m.targets = <<>>
    BY <2>2 DEF Reader!Plain
  <2>5. AsMeant(i, m)
    <3>1. i.code # "SWITCH"
      BY <2>4
    <3> QED BY <2>1, <2>4, <3>1 DEF AsMeant
  <2>6. OncePerBlock(i) /\ i.targets \in Seq(Reader!Bbs)
    BY <2>1, <2>4 DEF OncePerBlock
  <2>7. i.result \in {Reader!Invalid, num_values} /\ i.code \notin Reader!Terminators
    BY <2>4 DEF Reader!Terminators
  <2> QED BY <1>2, <2>3, <2>5, <2>6, <2>7, Appended
<1> QED BY <1>3, <1>4

\* Reading a switch keeps it.
LEMMA SwitchKeeps ==
  ASSUME Reader!ReaderAssumption, RInv, NEW id \in Ids, NEW default \in Reader!Bbs,
         NEW groups \in Switches,
         Reader!ReadSwitch(id, default, groups)
  PROVE  RInv'
<1> DEFINE targets == <<default>> \o [k \in DOMAIN groups |-> groups[k].bb]
           switch(ids, cases) == [Reader!Plain("SWITCH", ids) EXCEPT !.targets = targets, !.cases = cases]
           i == switch(<<Reader!ReadId(Reader!WriteId(id))>>, AllCases(groups))
           m == switch(<<id>>, groups)
<1>1. Reader!InBlock
      /\ IF ~InOrderRanges(groups) THEN Reader!Fatal ELSE Reader!AppendInstruction(i, m)
  <2>1. (\E k \in DOMAIN groups : \E r \in DOMAIN groups[k].ranges :
           groups[k].ranges[r][1] > groups[k].ranges[r][2]) <=> ~InOrderRanges(groups)
    <3>1. \A k \in DOMAIN groups : \A r \in DOMAIN groups[k].ranges :
            groups[k].ranges[r][1] \in Int /\ groups[k].ranges[r][2] \in Int
      <4>1. groups \in Seq(Group)
        BY DEF Reader!ReaderAssumption, Group
      <4>2. \A k \in DOMAIN groups : groups[k] \in Group
        BY <4>1
      <4>3. \A k \in DOMAIN groups : groups[k].ranges \in Seq(Int \X Int)
        BY <4>2 DEF Group
      <4>4. \A k \in DOMAIN groups : \A r \in DOMAIN groups[k].ranges :
              groups[k].ranges[r] \in Int \X Int
        BY <4>3
      <4> QED BY <4>4
    <3> QED BY <3>1 DEF InOrderRanges
  <2>2. Reader!InBlock /\ IF \E k \in DOMAIN groups : \E r \in DOMAIN groups[k].ranges :
                               groups[k].ranges[r][1] > groups[k].ranges[r][2]
                          THEN Reader!Fatal ELSE Reader!AppendInstruction(i, m)
    BY DEF Reader!ReadSwitch, AllCases, CasesOf
  <2> HIDE DEF i, m
  <2> QED BY <2>1, <2>2
<1>2. CASE ~InOrderRanges(groups)
  BY <1>1, <1>2, FatalKeeps
<1>3. CASE InOrderRanges(groups)
  <2>1. Reader!ReadId(Reader!WriteId(id)) = id
    BY CountersBounded, IdsReadBack
  <2>2. groups \in Seq(Group)
    BY DEF Reader!ReaderAssumption, Group
  <2>3. targets \in Seq(Reader!Bbs)
    <3>1. Len(groups) \in Nat /\ DOMAIN groups = 1..Len(groups)
          /\ \A k \in 1..Len(groups) : groups[k] \in Group
      BY <2>2
    <3>2. \A k \in 1..Len(groups) : groups[k].bb \in Reader!Bbs
      BY <3>1 DEF Group
    <3>3. [k \in DOMAIN groups |-> groups[k].bb] \in Seq(Reader!Bbs)
      BY <3>1, <3>2
    <3>4. <<default>> \in Seq(Reader!Bbs)
      OBVIOUS
    <3> QED BY <3>3, <3>4
  <2>4. Reader!AppendInstruction(i, m)
    BY <1>1, <1>3
  <2> DEFINE cases == AllCases(groups)
  <2> HIDE DEF targets, cases
  <2>5. /\ i = [Reader!Plain("SWITCH", <<id>>) EXCEPT !.targets = targets, !.cases = cases]
        /\ m = [Reader!Plain("SWITCH", <<id>>) EXCEPT !.targets = targets, !.cases = groups]
    BY <2>1 DEF cases
  <2> HIDE DEF i, m
  <2>6. /\ i.code = "SWITCH" /\ i.ids = <<id>> /\ i.result = Reader!Invalid /\ i.incoming = <<>>
        /\ i.targets = targets /\ i.cases = cases
    BY <2>5 DEF Reader!Plain
  <2>7. /\ m.code = "SWITCH" /\ m.ids = <<id>> /\ m.incoming = <<>> /\ m.targets = targets
        /\ m.cases = groups
    BY <2>5 DEF Reader!Plain
  <2>8. Reader!CaseValues \subseteq Int
    BY DEF Reader!CaseValues
  <2>9. AsMeant(i, m)
    <3>1. \A v \in Reader!CaseValues : Reader!SwitchTo(i, v) = Reader!MeantTo(m, v)
      <4>1. i.cases = AllCases(groups) /\ m.cases = groups /\ i.targets = m.targets
        BY <2>6, <2>7 DEF cases
      <4> QED BY <1>3, <2>2, <2>8, <4>1, SwitchAsMeant
    <3> QED BY <2>6, <2>7, <3>1 DEF AsMeant
  <2>10. OncePerBlock(i) /\ i.targets \in Seq(Reader!Bbs)
    BY <2>3, <2>6 DEF OncePerBlock
  <2> QED BY <1>1, <2>4, <2>6, <2>9, <2>10, Appended
<1> QED BY <1>2, <1>3

\* Reading a branch keeps it.
LEMMA BrKeeps ==
  ASSUME Reader!ReaderAssumption, RInv, NEW targets \in Seq(Reader!Bbs), NEW id \in Ids,
         Reader!ReadBr(targets, id)
  PROVE  RInv'
<1> DEFINE br(ids) == [Reader!Plain("BR", ids) EXCEPT !.targets = targets]
<1>1. Reader!ReadId(Reader!WriteId(id)) = id
  BY CountersBounded, IdsReadBack
<1> DEFINE ids == IF Len(targets) = 1 THEN <<>> ELSE <<id>>
<1>2. Reader!InBlock /\ Reader!AppendInstruction(br(ids), br(ids))
  <2>1. Reader!InBlock /\ IF Len(targets) = 1 THEN Reader!AppendInstruction(br(<<>>), br(<<>>))
                          ELSE Reader!AppendInstruction(br(<<Reader!ReadId(Reader!WriteId(id))>>), br(<<id>>))
    BY DEF Reader!ReadBr
  <2>2. CASE Len(targets) = 1
    <3>1. Reader!AppendInstruction(br(<<>>), br(<<>>)) /\ ids = <<>>
      BY <2>1, <2>2
    <3> QED BY <2>1, <3>1
  <2>3. CASE Len(targets) # 1
    <3>1. Reader!AppendInstruction(br(<<Reader!ReadId(Reader!WriteId(id))>>), br(<<id>>))
          /\ ids = <<id>>
      BY <2>1, <2>3
    <3> QED BY <1>1, <2>1, <3>1
  <2> QED BY <2>2, <2>3
<1> DEFINE i == br(ids)
<1>3. i.code = "BR" /\ i.result = Reader!Invalid /\ i.incoming = <<>> /\ i.targets = targets
  BY DEF Reader!Plain
<1>4. Reader!AppendInstruction(i, i)
  BY <1>2
<1> HIDE DEF i
<1> QED BY <1>2, <1>3, <1>4, PlainKeeps

\* The invariant holds before the first entry.
LEMMA ReaderInit ==
  ASSUME Reader!ReaderAssumption, Reader!Init
  PROVE  RInv
<1>1. /\ NumGlobals \in Nat /\ NumArgs \in Nat /\ NumConstants \in Nat /\ MaxInsts \in Nat
      /\ MaxBbs \in Nat
  BY DEF Reader!ReaderAssumption
<1>2. Start = NumGlobals + NumArgs /\ Open = num_values /\ num_values = Start
  BY DEF Reader!Init, Start, Open
<1>3. CountersOK
  <2>1. /\ use_relative_ids \in BOOLEAN /\ dedupe \in BOOLEAN /\ constants \in BOOLEAN
        /\ read_bbs = <<>> /\ status # "done"
    BY DEF Reader!Init
  <2>2. num_bbs \in 0..MaxBbs /\ num_instructions \in 0..MaxInsts /\ num_instructions = 0
    BY <1>1 DEF Reader!Init
  <2>3. num_values \in Start..(Start + num_instructions)
    BY <1>1, <1>2, <2>2
  <2> QED BY <2>1, <2>2, <2>3 DEF CountersOK
<1>4. BlocksOK
  BY <1>1, <1>2 DEF Reader!Init, BlocksOK
<1>5. Parted(read_bbs, Start, Open)
  BY <1>1, <1>2 DEF Reader!Init, Parted
<1>6. AsMeant(read_inst, meant) /\ OncePerBlock(read_inst)
  <2>1. read_inst.code = "UNREACHABLE" /\ read_inst.incoming = <<>> /\ meant = read_inst
    BY DEF Reader!Init, Reader!Plain
  <2> QED BY <2>1 DEF AsMeant, OncePerBlock
<1> QED BY <1>3, <1>4, <1>5, <1>6 DEF RInv

\* The declaration of the blocks and the constants keep it.
LEMMA HeadKeeps ==
  ASSUME Reader!ReaderAssumption, RInv,
         (\E k \in 1..MaxBbs : Reader!DeclareBlocks(k)) \/ Reader!ConstantsBlock
         \/ Reader!EndOfFunction
  PROVE  RInv'
<1>1. /\ NumGlobals \in Nat /\ NumArgs \in Nat /\ NumConstants \in Nat /\ MaxInsts \in Nat
      /\ MaxBbs \in Nat
  BY DEF Reader!ReaderAssumption
<1>2. read_inst' = read_inst /\ meant' = meant /\ dedupe' = dedupe /\ read_bbs' = read_bbs
  BY DEF Reader!DeclareBlocks, Reader!ConstantsBlock, Reader!EndOfFunction, Reader!function
<1>3. AsMeant(read_inst, meant)'
  BY <1>2 DEF RInv
<1>4. OncePerBlock(read_inst)'
  BY <1>2 DEF RInv, OncePerBlock
<1>5. CASE \E k \in 1..MaxBbs : Reader!DeclareBlocks(k)
  <2>1. Start' = Start /\ Open' = Open
    BY <1>5 DEF Reader!DeclareBlocks, Start, Open
  <2>2. Parted(read_bbs, Start, Open)'
    BY <1>2, <2>1 DEF RInv
  <2>3. CountersOK'
    BY <1>1, <1>5, <2>1 DEF RInv, CountersOK, Reader!DeclareBlocks
  <2>4. BlocksOK'
    BY <1>1, <1>5, <2>1 DEF RInv, BlocksOK, Reader!DeclareBlocks
  <2> QED BY <1>3, <1>4, <2>2, <2>3, <2>4 DEF RInv
<1>6. CASE Reader!ConstantsBlock
  <2>1. read_bbs = <<>> /\ Len(read_bbs) = 0 /\ num_values = Start /\ Start \in Nat
    <3>1. Start \in Nat
      BY <1>1 DEF Start
    <3> QED BY <1>6, <3>1 DEF RInv, CountersOK, Reader!ConstantsBlock
  <2>2. cur_bb_id \in Nat /\ prev_bb_id # cur_bb_id
    BY <2>1 DEF RInv, BlocksOK
  <2>3. Start' = Start + NumConstants /\ num_values' = Start' /\ Open' = Start' /\ Start' \in Nat
    BY <1>1, <1>6, <2>1, <2>2 DEF Reader!ConstantsBlock, Start, Open
  <2>4. Parted(read_bbs, Start, Open)'
    BY <1>2, <2>1, <2>3 DEF Parted
  <2>5. CountersOK'
    BY <1>1, <1>6, <2>1, <2>3 DEF RInv, CountersOK, Reader!ConstantsBlock
  <2>6. BlocksOK'
    BY <1>1, <1>6, <2>1, <2>2, <2>3 DEF RInv, BlocksOK, Reader!ConstantsBlock
  <2> QED BY <1>3, <1>4, <2>4, <2>5, <2>6 DEF RInv
<1>7. CASE Reader!EndOfFunction
  <2>1. Start' = Start /\ Open' = Open
    BY <1>7 DEF Reader!EndOfFunction, Start, Open, Reader!function
  <2>2. Parted(read_bbs, Start, Open)'
    BY <1>2, <2>1 DEF RInv
  <2>3. CountersOK'
    BY <1>1, <1>7, <2>1 DEF RInv, CountersOK, Reader!EndOfFunction, Reader!function
  <2>4. BlocksOK'
    BY <1>1, <1>7, <2>1 DEF RInv, BlocksOK, Reader!EndOfFunction, Reader!function
  <2> QED BY <1>3, <1>4, <2>2, <2>3, <2>4 DEF RInv
<1> QED BY <1>5, <1>6, <1>7

\* Sequences of one and of two elements.
LEMMA ShortSeqs ==
  ASSUME NEW S
  PROVE  /\ \A s \in {<<x>> : x \in S} : s \in Seq(S)
         /\ \A s \in S \X S : s \in Seq(S)
<1>1. ASSUME NEW s \in {<<x>> : x \in S} PROVE s \in Seq(S)
  <2>1. PICK x \in S : s = <<x>>
    OBVIOUS
  <2>2. <<x>> \in Seq(S)
    OBVIOUS
  <2> QED BY <2>1, <2>2
<1>2. ASSUME NEW s \in S \X S PROVE s \in Seq(S)
  <2>1. s = <<s[1], s[2]>> /\ s[1] \in S /\ s[2] \in S
    OBVIOUS
  <2>2. <<s[1], s[2]>> \in Seq(S)
    BY <2>1
  <2> QED BY <2>1, <2>2
<1> QED BY <1>1, <1>2

\* The instructions keep it.
LEMMA InstructionKeeps ==
  ASSUME Reader!ReaderAssumption, RInv,
         \/ \E id \in Ids : Reader!ReadUnary(id) \/ Reader!ReadForward(id)
         \/ \E id0, id1 \in Ids : Reader!ReadBinary(id0, id1) \/ Reader!ReadStore(id0, id1)
                                  \/ Reader!ReadVselect(id0, id1, id0)
         \/ \E id, arg \in Ids, indirect, void \in BOOLEAN : Reader!ReadCall(id, arg, indirect, void)
         \/ \E ids \in {<<>>} \cup {<<id>> : id \in Ids} : Reader!ReadRet(ids)
         \/ Reader!ReadUnreachable
  PROVE  RInv'
<1>1. ASSUME NEW id \in Ids, Reader!ReadUnary(id) PROVE RInv'
  <2>1. <<id>> \in Seq(Ids) /\ "UNARY" # "SWITCH" /\ "UNARY" \notin Reader!Terminators
    BY DEF Reader!Terminators
  <2> QED BY <1>1, <2>1, OperationKeeps DEF Reader!ReadUnary
<1>2. ASSUME NEW id \in Ids, Reader!ReadForward(id) PROVE RInv'
  <2> DEFINE i == Reader!Plain("FORWARDTYPEREF", <<id>>)
  <2>1. i.code = "FORWARDTYPEREF" /\ i.result = Reader!Invalid /\ i.incoming = <<>>
        /\ i.targets = <<>>
    BY DEF Reader!Plain
  <2>2. Reader!InBlock /\ Reader!AppendInstruction(i, i)
    BY <1>2 DEF Reader!ReadForward
  <2> HIDE DEF i
  <2>3. i.targets \in Seq(Reader!Bbs) /\ i.code # "SWITCH"
    BY <2>1
  <2> QED BY <2>1, <2>2, <2>3, PlainKeeps
<1>3. ASSUME NEW id0 \in Ids, NEW id1 \in Ids, Reader!ReadBinary(id0, id1) PROVE RInv'
  <2>1. <<id0, id1>> \in Seq(Ids) /\ "BINARY" # "SWITCH" /\ "BINARY" \notin Reader!Terminators
    BY DEF Reader!Terminators
  <2> QED BY <1>3, <2>1, OperationKeeps DEF Reader!ReadBinary
<1>4. ASSUME NEW id0 \in Ids, NEW id1 \in Ids, Reader!ReadStore(id0, id1) PROVE RInv'
  <2>1. <<id0, id1>> \in Seq(Ids) /\ "STORE" # "SWITCH" /\ "STORE" \notin Reader!Terminators
    BY DEF Reader!Terminators
  <2> QED BY <1>4, <2>1, OperationKeeps DEF Reader!ReadStore
<1>5. ASSUME NEW id0 \in Ids, NEW id1 \in Ids, Reader!ReadVselect(id0, id1, id0) PROVE RInv'
  <2>1. <<id0, id1, id0>> \in Seq(Ids) /\ "VSELECT" # "SWITCH"
        /\ "VSELECT" \notin Reader!Terminators
    BY DEF Reader!Terminators
  <2> QED BY <1>5, <2>1, OperationKeeps DEF Reader!ReadVselect
<1>6. ASSUME NEW id \in Ids, NEW arg \in Ids, NEW indirect \in BOOLEAN, NEW void \in BOOLEAN,
             Reader!ReadCall(id, arg, indirect, void)
      PROVE  RInv'
  <2>1. CASE ~indirect /\ id >= NumGlobals
    <3>1. Reader!Fatal
      BY <1>6, <2>1 DEF Reader!ReadCall
    <3> QED BY <3>1, FatalKeeps
  <2>2. CASE ~(~indirect /\ id >= NumGlobals)
    <3> DEFINE result == IF void THEN Reader!Invalid ELSE num_values
    <3>1. Reader!InBlock /\ Reader!Operation("CALL", <<id, arg>>, result)
      BY <1>6, <2>2 DEF Reader!ReadCall
    <3>2. <<id, arg>> \in Seq(Ids) /\ "CALL" # "SWITCH" /\ "CALL" \notin Reader!Terminators
          /\ result \in {Reader!Invalid, num_values}
      BY DEF Reader!Terminators
    <3> HIDE DEF result
    <3> QED BY <3>1, <3>2, OperationKeeps
  <2> QED BY <2>1, <2>2
<1>7. ASSUME NEW ids \in {<<>>} \cup {<<id>> : id \in Ids}, Reader!ReadRet(ids) PROVE RInv'
  <2>1. ids \in Seq(Ids) /\ "RET" # "SWITCH"
    <3>1. CASE ids = <<>>
      BY <3>1
    <3>2. CASE ids \in {<<id>> : id \in Ids}
      BY <3>2, ShortSeqs
    <3> QED BY <3>1, <3>2
  <2> QED BY <1>7, <2>1, OperationKeeps DEF Reader!ReadRet
<1>8. ASSUME Reader!ReadUnreachable PROVE RInv'
  <2> DEFINE i == Reader!Plain("UNREACHABLE", <<>>)
  <2>1. i.code = "UNREACHABLE" /\ i.result = Reader!Invalid /\ i.incoming = <<>> /\ i.targets = <<>>
    BY DEF Reader!Plain
  <2>2. Reader!InBlock /\ Reader!AppendInstruction(i, i)
    BY <1>8 DEF Reader!ReadUnreachable
  <2> HIDE DEF i
  <2>3. i.targets \in Seq(Reader!Bbs) /\ i.code # "SWITCH"
    BY <2>1
  <2> QED BY <2>1, <2>2, <2>3, PlainKeeps
<1> QED BY <1>1, <1>2, <1>3, <1>4, <1>5, <1>6, <1>7, <1>8

\* Every step keeps the invariant.
LEMMA ReaderNext ==
  ASSUME Reader!ReaderAssumption, RInv, [Reader!Next]_(Reader!vars)
  PROVE  RInv'
<1>1. CASE UNCHANGED Reader!vars
  <2>1. /\ read_inst' = read_inst /\ meant' = meant /\ dedupe' = dedupe /\ read_bbs' = read_bbs
        /\ status' = status
        /\ use_relative_ids' = use_relative_ids /\ num_bbs' = num_bbs
        /\ num_values' = num_values /\ num_instructions' = num_instructions
        /\ constants' = constants /\ prev_bb_id' = prev_bb_id /\ cur_bb_id' = cur_bb_id
        /\ first_bb_value_id' = first_bb_value_id
    BY <1>1 DEF Reader!vars, Reader!function
  <2>2. Start' = Start /\ Open' = Open
    BY <2>1 DEF Start, Open
  <2>3. CountersOK'
    BY <2>1, <2>2 DEF RInv, CountersOK
  <2>4. BlocksOK'
    BY <2>1, <2>2 DEF RInv, BlocksOK
  <2>5. Parted(read_bbs, Start, Open)' /\ AsMeant(read_inst, meant)'
    BY <2>1, <2>2 DEF RInv
  <2>6. OncePerBlock(read_inst)'
    BY <2>1 DEF RInv, OncePerBlock
  <2> QED BY <2>3, <2>4, <2>5, <2>6 DEF RInv
<1>2. CASE Reader!TooManyBlocks
  BY <1>2, FatalKeeps DEF Reader!TooManyBlocks
<1>3. ASSUME NEW pairs \in {<<p>> : p \in Reader!Pair} \cup (Reader!Pair \X Reader!Pair),
             Reader!ReadPhi(pairs) PROVE RInv'
  <2>1. pairs \in Seq(Reader!Pair)
    BY ShortSeqs
  <2> QED BY <1>3, <2>1, PhiKeeps
<1>4. ASSUME NEW targets \in {<<b>> : b \in Reader!Bbs} \cup (Reader!Bbs \X Reader!Bbs),
             NEW id \in Ids,
             Reader!ReadBr(targets, id)
      PROVE  RInv'
  <2>1. targets \in Seq(Reader!Bbs)
    BY ShortSeqs
  <2> QED BY <1>4, <2>1, BrKeeps
<1>5. CASE Reader!Next
  BY <1>1, <1>2, <1>3, <1>4, <1>5, HeadKeeps, InstructionKeeps, SwitchKeeps DEF Reader!Next,
     Reader!Ended
<1> QED BY <1>1, <1>5

\* What the invariant says of the values and the blocks.
LEMMA ReaderSound ==
  ASSUME Reader!ReaderAssumption, RInv
  PROVE  Reader!ReadAsMeant /\ Reader!PhiOncePerBlock /\ Reader!DefsPartition
         /\ Reader!BlocksAsDeclared
<1>1. Reader!ReadAsMeant /\ Reader!PhiOncePerBlock
  BY DEF RInv, AsMeant, OncePerBlock, Reader!ReadAsMeant, Reader!PhiOncePerBlock
<1>2. Reader!BlocksAsDeclared
  <2>1. read_bbs \in Seq(Bb) /\ cur_bb_id \in Nat /\ Len(read_bbs) \in {cur_bb_id, cur_bb_id + 1}
        /\ Len(read_bbs) \in Nat
    BY DEF RInv, BlocksOK
  <2>2. \A k \in 1..(Len(read_bbs) - 1) : k \in 1..Len(read_bbs) /\ k <= cur_bb_id
    BY <2>1
  <2> QED BY <2>1, <2>2 DEF RInv, BlocksOK, CountersOK, Reader!BlocksAsDeclared
<1>3. Reader!DefsPartition
  <2> DEFINE with == {k \in DOMAIN read_bbs : read_bbs[k].first_def # Reader!Invalid}
             open == IF read_bbs # <<>> /\ ~read_bbs[Len(read_bbs)].ended
                     THEN first_bb_value_id ELSE num_values
  <2>1. read_bbs \in Seq(Bb) /\ cur_bb_id \in Nat /\ Len(read_bbs) \in Nat
    BY DEF RInv, BlocksOK
  <2>2. open = Open
    <3>1. CASE prev_bb_id = cur_bb_id
      <4>1. Len(read_bbs) = cur_bb_id + 1 /\ Len(read_bbs) \in 1..Len(read_bbs)
        BY <2>1, <3>1 DEF RInv, BlocksOK
      <4>2. read_bbs # <<>> /\ ~read_bbs[Len(read_bbs)].ended
        BY <2>1, <4>1 DEF RInv, BlocksOK
      <4> QED BY <3>1, <4>2 DEF Open
    <3>2. CASE prev_bb_id # cur_bb_id
      <4>1. Len(read_bbs) = cur_bb_id
        BY <3>2 DEF RInv, BlocksOK
      <4>2. read_bbs # <<>> => Len(read_bbs) \in 1..Len(read_bbs)
        BY <2>1
      <4>3. read_bbs # <<>> => read_bbs[Len(read_bbs)].ended
        BY <2>1, <4>1, <4>2 DEF RInv, BlocksOK
      <4> QED BY <3>2, <4>3 DEF Open
    <3> QED BY <3>1, <3>2
  <2>3. Parted(read_bbs, Start, Open)
    BY DEF RInv
  <2>4. /\ \A k \in with : /\ Start <= read_bbs[k].first_def /\ read_bbs[k].last_def < open
                           /\ read_bbs[k].first_def <= read_bbs[k].last_def
        /\ \A j, k \in with : j < k => read_bbs[j].last_def < read_bbs[k].first_def
        /\ \A v \in Start..(open - 1) :
             \E k \in with : read_bbs[k].first_def <= v /\ v <= read_bbs[k].last_def
    <3> HIDE DEF open
    <3> QED BY <2>2, <2>3 DEF Parted
  <2> QED BY <2>4 DEF Reader!DefsPartition, Start
<1> QED BY <1>1, <1>2, <1>3

-----------------------------------------------------------------------------
(* The theorems.                                                            *)

\* The results of the operations and selects of a function have types that fit, and the
\* pass that looks for them gives up only where an operation depends on itself.
THEOREM TypesCorrect == Spec => []TypesResolved
<1> DEFINE I == part = "types" => TypesInv
<1>1. Init => I
  BY PassesAssumption, TypesInitially DEF Init
<1>2. I /\ [Next]_vars => I'
  <2> SUFFICES ASSUME TypesInv, [Next]_vars, part = "types" PROVE TypesInv'
    BY PartSteps
  <2>1. CASE UNCHANGED Typing!vars
    BY <2>1, EndedKeeps
  <2>2. CASE Typing!Next
    BY <2>1, <2>2, PassesAssumption, FirstTryKeeps, BeginRoundKeeps, TryAgainKeeps
       DEF Typing!Next, Typing!Ended
  <2> QED BY <2>1, <2>2, PartSteps
<1>3. I => TypesResolved
  BY PassesAssumption, TypesAnswer DEF TypesResolved
<1> QED BY <1>1, <1>2, <1>3, PTL DEF Spec

\* The part that was chosen for phis keeps its invariant.
LEMMA PhisKept == Spec => [](part = "phis" => PhiInv)
<1> DEFINE I == part = "phis" => PhiInv
<1>1. Init => I
  BY PassesAssumption, PhiInitially DEF Init
<1>2. I /\ [Next]_vars => I'
  <2> SUFFICES ASSUME PhiInv, [Next]_vars, part = "phis" PROVE PhiInv'
    BY PartSteps
  <2>1. CASE UNCHANGED Phis!vars
    BY <2>1, DoneKeeps
  <2>2. CASE Phis!Next
    BY <2>1, <2>2, PassesAssumption, CalculateKeeps, BranchKeeps DEF Phis!Next, Phis!Done
  <2> QED BY <2>1, <2>2, PartSteps
<1> QED BY <1>1, <1>2, PTL DEF Spec

\* A branch gives the phis of the block it goes to the values they had before it, all at
\* once, whether the assignments are done one after the other or through a copy.
THEOREM PhisCorrect == Spec => []PhisAreParallel
<1>1. (part = "phis" => PhiInv) => PhisAreParallel
  BY PhiSound DEF PhisAreParallel
<1> QED BY <1>1, PhisKept, PTL

\* The part that was chosen for reading keeps its invariant.
LEMMA ReaderKept == Spec => [](part = "read" => RInv)
<1> DEFINE I == part = "read" => RInv
<1>1. Init => I
  BY PassesAssumption, ReaderInit DEF Init
<1>2. I /\ [Next]_vars => I'
  BY PassesAssumption, PartSteps, ReaderNext
<1> QED BY <1>1, <1>2, PTL DEF Spec

\* What the reader finds is what the writer meant: values named relative to the
\* instruction or not, the values of phis, the cases of switches.
THEOREM ReaderCorrect == Spec => []ReadAsMeant
<1>1. (part = "read" => RInv) => ReadAsMeant
  BY PassesAssumption, ReaderSound DEF ReadAsMeant
<1> QED BY <1>1, ReaderKept, PTL

\* The blocks that the reader makes are those that are declared, and they share out the
\* values that are defined among them.
THEOREM BlocksCorrect == Spec => []BlocksPartition
<1>1. (part = "read" => RInv) => BlocksPartition
  BY PassesAssumption, ReaderSound DEF BlocksPartition
<1> QED BY <1>1, ReaderKept, PTL

=============================================================================
