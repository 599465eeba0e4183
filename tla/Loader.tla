------------------------------ MODULE Loader ------------------------------
(***************************************************************************)
(* Loading a module and laying out the guest's memory: pn_module_read over *)
(* the records of a file, in the order a writer emits them; the global     *)
(* variables and their relocations; the bodies; --repeat-load, which reads *)
(* the file again into the same module and memory; then the start info of  *)
(* the guest, the PPAPI tables and the choice of the function to start.    *)
(* A byte of the memory is a token for what was written there last.        *)
(***************************************************************************)
EXTENDS Integers, Sequences, SequencesExt, FiniteSets, FiniteSetsExt

CONSTANTS
  GuardSize,    \* PN_MEMORY_GUARD_SIZE
  PageSize,     \* PN_PAGESIZE
  MemorySizes,  \* g_pn_memory_size, aligned to pages when the options are parsed
  WordBytes,    \* sizeof(uint32_t)
  MaxBuiltins,  \* PN_MAX_BUILTINS
  RepeatLoads   \* g_pn_repeat_load_times

LoaderAssumption ==
  /\ GuardSize \in Nat /\ PageSize \in Nat \ {0} /\ WordBytes \in Nat \ {0}
  /\ \A size \in MemorySizes : size \in Nat /\ size >= GuardSize /\ size % PageSize = 0

VARIABLES
  file,         \* the records of the file
  at,           \* the record that comes next
  module,       \* PNModule: types, functions, values, global_vars, known_functions
  memory,       \* PNMemory
  locals,       \* the locals of pn_type_block_read and pn_globalvar_block_read
  function_id,  \* the local of pn_module_block_read: the next body's function
  load_count,
  first,        \* history: module and memory after the first load
  given,        \* history: the sizes of the strings of argv and envp
  status        \* "read", "loaded", "ready", "ppapi", "started", "fatal"

vars == <<file, at, module, memory, locals, function_id, load_count, first, given, status>>

INVALID == -1
Intrinsics == {"START", "MEMCPY"}

-----------------------------------------------------------------------------
(* The files: types, functions, global variables, the name of one function, bodies         *)
(* (external: the order of the bitcode writer).                                     *)

Rec(op, x) == [op |-> op, x |-> x]

\* A relocation of a function has no addend.
Initializers(funcs, num_values) ==
  {Rec("ZEROFILL", 1), Rec("DATA", 2)}
    \cup {Rec("RELOC", <<i, a>>) : i \in 0..(num_values - 1), a \in {0}}
    \cup {Rec("RELOC", <<i, a>>) : i \in funcs..(num_values - 1), a \in {1}}

VarRecords(log2, inits) ==
  <<Rec("VAR", log2)>> \o (IF Len(inits) = 1 THEN <<>> ELSE <<Rec("COMPOUND", Len(inits))>>) \o inits

GlobalRecords(funcs, num) ==
  LET inits == Initializers(funcs, funcs + num)
      one   == {VarRecords(log2, <<i>>) : log2 \in {1, 2}, i \in inits}
      two   == {VarRecords(2, <<i, j>>) : i \in inits, j \in inits}
  IN  CASE num = 0 -> {<<>>}
        [] num = 1 -> one \cup two
        [] num = 2 -> {v \o w : v \in two, w \in one}

Type(code, x) == [code |-> code, x |-> x]

\* The types: void, a pointer, and a function with these arguments.
TypeRecords(args) ==
  <<Rec("NUMENTRY", 3), Rec("TYPE", Type("VOID", <<>>)), Rec("TYPE", Type("INTEGER", <<32>>)),
    Rec("TYPE", Type("FUNCTION", <<0>> \o args)), Rec("END_TYPES", 0)>>

FileOf(args, protos, num, globals, named) ==
  TypeRecords(args) \o [k \in DOMAIN protos |-> Rec("FUNCTION", <<2, protos[k]>>)]
    \o <<Rec("GLOBALVARS", 0), Rec("COUNT", num)>> \o globals \o <<Rec("END_GLOBALVARS", 0)>>
    \o (IF named = 0 THEN <<>> ELSE <<Rec("NAME", <<named - 1, "START">>)>>)
    \o [k \in 1..Cardinality({f \in DOMAIN protos : ~protos[f]}) |-> Rec("BODY", k)]
    \o <<Rec("END", 0)>>

-----------------------------------------------------------------------------
(* Memory.                                                                          *)

AlignUp(n, alignment) == ((n + alignment - 1) \div alignment) * alignment

\* pn_memory_check
InMemory(offset, size) == offset >= GuardSize /\ offset + size <= memory.size

\* count bytes at offset, by token
Write(data, offset, count, token(_)) ==
  [b \in DOMAIN data |-> IF b \in offset..(offset + count - 1) THEN token(b - offset) ELSE data[b]]

WriteWord(data, offset, word) == Write(data, offset, WordBytes, LAMBDA k : <<"word", word, k>>)
WriteBytes(data, offset, size, kind, i) == Write(data, offset, size, LAMBDA k : <<kind, i, k>>)

\* pn_builtin_to_pointer and pn_function_id_to_pointer
IrtQuery == 1 * 4
PpbCore  == 2 * 4
FunctionPointer(id) == (id + MaxBuiltins) * 4

\* pn_memory_init; the bytes come from malloc
NewMemory(size, data) ==
  [size |-> size, data |-> data, globalvar_start |-> 0, globalvar_end |-> 0,
   startinfo_start |-> 0, startinfo_end |-> 0, ppapi_start |-> 0, ppapi_end |-> 0,
   heap_start |-> 0, stack_end |-> 0]

\* pn_memory_reset: the bytes stay.
MemoryReset(m) == NewMemory(m.size, m.data)

EmptyModule(id) ==
  [types |-> <<>>, functions |-> <<>>, values |-> <<>>, global_vars |-> <<>>,
   known_functions |-> [i \in Intrinsics |-> id]]

NoLocals == [current_type_id |-> 0, data_offset |-> GuardSize, num_global_vars |-> 0,
             initializer_id |-> 0, relocs |-> <<>>]

Init ==
  /\ \E protos \in {<<FALSE>>, <<FALSE, TRUE>>, <<TRUE, FALSE>>, <<FALSE, FALSE>>}, num \in 0..2 :
       \E globals \in GlobalRecords(Len(protos), num),
          named \in IF num = 2 THEN {1} ELSE 0..Len(protos) :
         \E args \in IF num = 0 THEN {<<>>, <<1>>} ELSE {<<1>>} :
           file = FileOf(args, protos, num, globals, named)
  /\ at = 1
  /\ module = EmptyModule(INVALID)
  /\ \E size \in MemorySizes : memory = NewMemory(size, [b \in 0..(size - 1) |-> <<"?", 0, 0>>])
  /\ locals = NoLocals
  /\ function_id = 0
  /\ load_count = 0
  /\ first = <<>>
  /\ given = <<<<>>, <<>>>>
  /\ status = "read"

-----------------------------------------------------------------------------
(* The records.                                                                     *)

Next1(op) == status = "read" /\ file[at].op = op

X == file[at].x

Go(new, mod, mem) ==
  /\ at' = at + 1
  /\ locals' = new
  /\ module' = mod
  /\ memory' = mem
  /\ UNCHANGED <<file, function_id, load_count, first, given, status>>

Fatal ==
  /\ status' = "fatal"
  /\ UNCHANGED <<file, at, module, memory, locals, function_id, load_count, first, given>>

\* pn_type_block_read: PN_TYPE_CODE_NUMENTRY, whose types are zero until they are read
ReadNumEntry ==
  /\ Next1("NUMENTRY")
  /\ Go([locals EXCEPT !.current_type_id = 0],
        [module EXCEPT !.types = [t \in 1..X |-> Type("NONE", <<>>)]], memory)

\* A type may name a type that comes later; there must be that many in the end.
ReadType ==
  /\ Next1("TYPE")
  /\ IF \/ locals.current_type_id >= Len(module.types)
        \/ X.code = "FUNCTION" /\ \E k \in DOMAIN X.x : X.x[k] >= Len(module.types)
     THEN Fatal
     ELSE Go([locals EXCEPT !.current_type_id = @ + 1],
             [module EXCEPT !.types[locals.current_type_id + 1] = X], memory)

EndTypes ==
  /\ Next1("END_TYPES")
  /\ IF locals.current_type_id # Len(module.types) THEN Fatal ELSE Go(locals, module, memory)

\* PN_MODULE_CODE_FUNCTION
ReadFunction ==
  LET type_id == X[1]
      type    == module.types[type_id + 1]
  IN  /\ Next1("FUNCTION")
      /\ IF type_id >= Len(module.types) THEN Fatal
         ELSE IF type.code # "FUNCTION" THEN Fatal
         ELSE Go(locals,
                 [module EXCEPT
                    !.functions = Append(@, [is_proto |-> X[2], name |-> "none", body |-> 0,
                                             num_args |-> Len(type.x) - 1]),
                    !.values = Append(@, [code |-> "FUNCTION", index |-> Len(module.functions)])],
                 memory)

\* pn_globalvar_block_read up to its loop, and PN_GLOBALVAR_CODE_COUNT
EnterGlobalvars == Next1("GLOBALVARS") /\ Go(NoLocals, module, [memory EXCEPT !.globalvar_start = GuardSize])
ReadCount       == Next1("COUNT") /\ Go([locals EXCEPT !.num_global_vars = X], module, memory)

\* pn_module_find_pointer_type
HasPointerType == \E t \in DOMAIN module.types : module.types[t] = Type("INTEGER", <<32>>)

\* PN_GLOBALVAR_CODE_VAR
ReadVar ==
  LET alignment == 2^X \div 2
      offset    == AlignUp(locals.data_offset, alignment)
  IN  /\ Next1("VAR")
      /\ IF \/ Len(module.global_vars) >= locals.num_global_vars
            \/ alignment = 0 \/ ~HasPointerType
         THEN Fatal
         ELSE Go([locals EXCEPT !.data_offset = offset, !.initializer_id = 0],
                 [module EXCEPT
                    !.global_vars = Append(@, [alignment |-> alignment, num_initializers |-> 1,
                                               offset |-> offset]),
                    !.values = Append(@, [code |-> "GLOBAL_VAR", index |-> Len(module.global_vars)])],
                 memory)

ReadCompound ==
  /\ Next1("COMPOUND")
  /\ Go(locals, [module EXCEPT !.global_vars[Len(module.global_vars)].num_initializers = X], memory)

\* The checks before an initializer.
MayInitialize ==
  /\ module.global_vars # <<>>
  /\ locals.initializer_id < module.global_vars[Len(module.global_vars)].num_initializers

After(size) == [locals EXCEPT !.initializer_id = @ + 1, !.data_offset = @ + size]

ReadZerofill ==
  /\ Next1("ZEROFILL")
  /\ IF ~MayInitialize \/ ~InMemory(locals.data_offset, X) THEN Fatal
     ELSE Go(After(X), module, [memory EXCEPT !.data = Write(@, locals.data_offset, X, LAMBDA k : <<"zero", 0, 0>>)])

ReadData ==
  /\ Next1("DATA")
  /\ IF ~MayInitialize \/ locals.data_offset + X > memory.size THEN Fatal
     ELSE Go(After(X), module,
             [memory EXCEPT !.data = WriteBytes(@, locals.data_offset, X, "data", at)])

\* pn_globalvar_write_reloc
RelocValue(index, addend) ==
  LET value == module.values[index + 1]
  IN  IF value.code = "GLOBAL_VAR" THEN module.global_vars[value.index + 1].offset + addend
      ELSE FunctionPointer(value.index)

ReadReloc ==
  LET index == X[1]
  IN  /\ Next1("RELOC")
      /\ IF ~MayInitialize THEN Fatal
         ELSE IF index >= Len(module.values)
         THEN Go([After(WordBytes) EXCEPT
                    !.relocs = Append(@, [offset |-> locals.data_offset, index |-> index, addend |-> X[2]])],
                 module, memory)
         ELSE IF ~InMemory(locals.data_offset, WordBytes) THEN Fatal
         ELSE Go(After(WordBytes), module,
                 [memory EXCEPT !.data = WriteWord(@, locals.data_offset, RelocValue(index, X[2]))])

\* Slip: the relocations to later variables are written without their addends.
FixedUpPlain(data) ==
  FoldLeft(LAMBDA d, r : WriteWord(d, r.offset, RelocValue(r.index, 0)), data, locals.relocs)

\* The loop of PN_ENTRY_END_BLOCK: the relocations to values that came later.
FixedUp(data) ==
  FoldLeft(LAMBDA d, r : WriteWord(d, r.offset, RelocValue(r.index, r.addend)), data, locals.relocs)

EndGlobalvars ==
  /\ Next1("END_GLOBALVARS")
  /\ IF \E k \in DOMAIN locals.relocs : \/ locals.relocs[k].index >= Len(module.values)
                                    \/ ~InMemory(locals.relocs[k].offset, WordBytes)
     THEN Fatal
     ELSE Go(locals, module, [memory EXCEPT !.data = FixedUp(@), !.globalvar_end = locals.data_offset])

\* PN_VALUESYMBTAB_CODE_ENTRY
ReadName ==
  LET value == module.values[X[1] + 1]
  IN  /\ Next1("NAME")
      /\ Go(locals,
            IF value.code # "FUNCTION" THEN module
            ELSE [module EXCEPT !.functions[value.index + 1].name = X[2],
                                !.known_functions = [i \in Intrinsics |->
                                   IF i = X[2] THEN value.index ELSE @[i]]],
            memory)

\* Slip: a prototype takes a body.
SkipNoProtos(from) == from

\* The loop that skips prototypes.
SkipProtos(from) ==
  Min({f \in from..Len(module.functions) :
         f = Len(module.functions) \/ ~module.functions[f + 1].is_proto})

\* PN_BLOCKID_FUNCTION
ReadBody ==
  LET id == SkipProtos(function_id)
  IN  /\ Next1("BODY")
      /\ IF id >= Len(module.functions) THEN Fatal
         ELSE /\ module' = [module EXCEPT !.functions[id + 1].body = X]
              /\ function_id' = id + 1
              /\ at' = at + 1
              /\ UNCHANGED <<file, memory, locals, load_count, first, given, status>>

EndModule ==
  /\ Next1("END")
  /\ status' = "loaded"
  /\ first' = IF load_count = 0 THEN <<module, memory>> ELSE first
  /\ UNCHANGED <<file, at, module, memory, locals, function_id, load_count, given>>

-----------------------------------------------------------------------------
(* main: the next load, or the start.                                               *)

\* Slip: one load too many.
ReloadOnceMore ==
  /\ status = "loaded" /\ load_count < RepeatLoads
  /\ at' = 1
  /\ memory' = MemoryReset(memory)
  /\ module' = EmptyModule(0)
  /\ function_id' = 0
  /\ locals' = NoLocals
  /\ load_count' = load_count + 1
  /\ status' = "read"
  /\ UNCHANGED <<file, first, given>>

\* Slip: the module is not reset.
ReloadOnTop ==
  /\ status = "loaded" /\ load_count + 1 < RepeatLoads
  /\ at' = 1
  /\ memory' = MemoryReset(memory)
  /\ module' = module
  /\ function_id' = 0
  /\ locals' = NoLocals
  /\ load_count' = load_count + 1
  /\ status' = "read"
  /\ UNCHANGED <<file, first, given>>

\* pn_bitstream_seek_bit, pn_memory_reset, pn_module_reset
Reload ==
  /\ status = "loaded" /\ load_count + 1 < RepeatLoads
  /\ at' = 1
  /\ memory' = MemoryReset(memory)
  /\ module' = EmptyModule(0)
  /\ function_id' = 0
  /\ locals' = NoLocals
  /\ load_count' = load_count + 1
  /\ status' = "read"
  /\ UNCHANGED <<file, first, given>>

\* Slip: the NUL of a string is not counted.
OffsetsNoNul(sizes, from) ==
  [i \in DOMAIN sizes |-> from + FoldLeft(+, 0, SubSeq(sizes, 1, i - 1)) - (i - 1)]

\* The strings one behind the other, and their addresses.
Offsets(sizes, from) == [i \in DOMAIN sizes |-> from + FoldLeft(+, 0, SubSeq(sizes, 1, i - 1))]

HeaderWords(argc, envc) == 3 + (argc + 1) + (envc + 1) + 3

\* The words of the start info: cleanup, envc, argc, argv and NULL, envp and NULL, auxv.
\* AT_SYSINFO is 32.
StartWords(argv_p, envp_p) ==
  <<0, Len(envp_p), Len(argv_p)>> \o argv_p \o <<0>> \o envp_p \o <<0>>
    \o <<32, IrtQuery, 0>>

\* pn_memory_init_startinfo
InitStartinfo(argv, envp) ==
  LET start  == AlignUp(memory.globalvar_end, WordBytes)
      table  == start + WordBytes * HeaderWords(Len(argv), Len(envp))
      argv_p == Offsets(argv, table)
      envp_p == Offsets(envp, table + FoldLeft(+, 0, argv))
      end    == table + FoldLeft(+, 0, argv \o envp)
      words  == StartWords(argv_p, envp_p)
      names  == [i \in DOMAIN argv |-> <<argv_p[i], argv[i], "argv", i>>]
                  \o [i \in DOMAIN envp |-> <<envp_p[i], envp[i], "envp", i>>]
      copied == FoldLeft(LAMBDA d, s : WriteBytes(d, s[1], s[2], s[3], s[4]), memory.data, names)
      filled == FoldLeft(LAMBDA d, i : WriteWord(d, start + WordBytes * (i - 1), words[i]),
                         copied, [i \in DOMAIN words |-> i])
  IN  /\ status = "loaded" /\ load_count + 1 = RepeatLoads
      /\ IF ~InMemory(start, end - start) THEN Fatal
         ELSE /\ memory' = [memory EXCEPT
                   !.data = filled,
                   !.startinfo_start = start, !.startinfo_end = end,
                   !.ppapi_start = end, !.ppapi_end = end,
                   !.heap_start = AlignUp(end, PageSize), !.stack_end = memory.size]
              /\ given' = <<argv, envp>>
              /\ status' = "ready"
              /\ UNCHANGED <<file, at, module, locals, function_id, load_count, first>>

\* pn_memory_init_ppapi: the functions of PPB_Core and the name of an interface.
InitPpapi ==
  LET offset == AlignUp(memory.ppapi_start, WordBytes)
      end    == offset + WordBytes + 2
  IN  /\ status = "ready"
      /\ IF ~InMemory(offset, end - offset) THEN Fatal
         ELSE /\ memory' = [memory EXCEPT
                   !.data = WriteBytes(WriteWord(@, offset, PpbCore), offset + WordBytes, 2, "PPP", 1),
                   !.ppapi_end = end, !.heap_start = AlignUp(end, PageSize)]
              /\ status' = "ppapi"
              /\ UNCHANGED <<file, at, module, locals, function_id, load_count, first, given>>

StartFunction == module.known_functions["START"]

\* pn_executor_init: a start function is known, has instructions and takes one argument.
Start ==
  /\ status \in {"ready", "ppapi"}
  /\ IF StartFunction = INVALID THEN Fatal
     ELSE IF \/ module.functions[StartFunction + 1].body = 0
             \/ module.functions[StartFunction + 1].num_args # 1 THEN Fatal
     ELSE status' = "started" /\ UNCHANGED <<file, at, module, memory, locals, function_id, load_count, first, given>>

Stopped == status \in {"started", "fatal"} /\ UNCHANGED vars

Next ==
  \/ ReadNumEntry \/ ReadType \/ EndTypes \/ ReadFunction
  \/ EnterGlobalvars \/ ReadCount \/ ReadVar \/ ReadCompound
  \/ ReadZerofill \/ ReadData \/ ReadReloc \/ EndGlobalvars \/ ReadName \/ ReadBody \/ EndModule
  \/ Reload
  \/ \E argv \in {<<>>, <<1>>, <<2, 1>>}, envp \in {<<>>, <<2>>} : InitStartinfo(argv, envp)
  \/ InitPpapi \/ Start \/ Stopped

Spec == Init /\ [][Next]_vars

-----------------------------------------------------------------------------
(* Properties.                                                                      *)

TypeOK ==
  /\ at \in DOMAIN file
  /\ function_id \in 0..Len(module.functions)
  /\ load_count \in 0..(RepeatLoads - 1)
  /\ \A i \in Intrinsics : module.known_functions[i] \in INVALID..1
  /\ status \in {"read", "loaded", "ready", "ppapi", "started", "fatal"}

Loaded == status \notin {"read", "fatal"}

\* The initializers of the k-th variable in the file, by record number.
InitializersOf(k) ==
  LET var(r)  == Cardinality({q \in 1..r : file[q].op = "VAR"})
  IN  SetToSortSeq({r \in DOMAIN file : var(r) = k /\ file[r].op \in {"ZEROFILL", "DATA", "RELOC"}}, <)

\* The bytes they stand for.
BytesOf(r) ==
  LET x == file[r].x
  IN  CASE file[r].op = "ZEROFILL" -> [b \in 1..x |-> <<"zero", 0, 0>>]
        [] file[r].op = "DATA"     -> [b \in 1..x |-> <<"data", r, b - 1>>]
        [] file[r].op = "RELOC"    -> [b \in 1..WordBytes |-> <<"word", RelocValue(x[1], x[2]), b - 1>>]

\* However variables refer to each other, backward, forward or to themselves, each one
\* starts at its alignment and holds its initializers, with the addresses the variables
\* and functions have in the end, and no byte belongs to two of them.
GlobalsAsWritten ==
  Loaded =>
    \A k \in DOMAIN module.global_vars :
      LET var   == module.global_vars[k]
          bytes == FlattenSeq([i \in DOMAIN InitializersOf(k) |-> BytesOf(InitializersOf(k)[i])])
          next  == IF k < Len(module.global_vars) THEN module.global_vars[k + 1].offset
                   ELSE memory.globalvar_end
      IN  /\ var.offset % var.alignment = 0 /\ var.offset >= GuardSize
          /\ var.offset + Len(bytes) <= next
          /\ \A b \in DOMAIN bytes : memory.data[var.offset + b - 1] = bytes[b]

\* The bodies come without a name: the k-th is that of the k-th function that is not a
\* prototype, and no function goes without.
BodiesMatch ==
  Loaded =>
    \A f \in DOMAIN module.functions :
      module.functions[f].body =
        IF module.functions[f].is_proto THEN 0
        ELSE Cardinality({g \in 1..f : ~module.functions[g].is_proto})

\* A load after a reset builds the module and the memory that the first load built
\* ("Reset the state so everything can be reloaded"); the intrinsics that the file
\* does not name are left to StartIsNamed.
ReloadSame ==
  status = "loaded" =>
    /\ memory = first[2]
    /\ [module EXCEPT !.known_functions = 0] = [first[1] EXCEPT !.known_functions = 0]
    /\ \A i \in Intrinsics : first[1].known_functions[i] # INVALID =>
         module.known_functions[i] = first[1].known_functions[i]

WordAt(p) == memory.data[p][2]
IsWord(p) == \A k \in 0..(WordBytes - 1) : memory.data[p + k] = <<"word", WordAt(p), k>>

StringAt(p, size, kind, i) == \A k \in 0..(size - 1) : memory.data[p + k] = <<kind, i, k>>

\* The guest's start code finds argc, argv, the environment and the address of the IRT
\* query by walking over the words, and every byte of every string, also when the tables
\* of PPAPI are written; nothing lies above the start of the heap, which is inside the
\* memory.  envp is at word 4 + argc, behind the NULL of argv at word 3 + argc: the comment
\* of pn_memory_init_startinfo, which puts envp there, does not count that NULL.
StartinfoReads ==
  status \in {"ready", "ppapi", "started"} =>
    LET start == memory.startinfo_start
        word(i) == WordAt(start + WordBytes * i)
        argc  == word(2)
        envc  == word(1)
        auxv  == 3 + argc + 1 + envc + 1
    IN  /\ \A i \in 0..(auxv + 2) : IsWord(start + WordBytes * i)
        /\ argc = Len(given[1]) /\ envc = Len(given[2])
        /\ word(3 + argc) = 0 /\ word(auxv - 1) = 0
        /\ <<word(auxv), word(auxv + 1), word(auxv + 2)>> = <<32, IrtQuery, 0>>
        /\ \A i \in 1..argc : StringAt(word(2 + i), given[1][i], "argv", i)
        /\ \A i \in 1..envc : StringAt(word(3 + argc + i), given[2][i], "envp", i)
        /\ memory.globalvar_end <= start /\ memory.startinfo_end <= memory.heap_start
        /\ memory.ppapi_end <= memory.heap_start /\ memory.heap_start <= memory.stack_end
        /\ memory.heap_start % PageSize = 0

\* The function that runs is the one the file names _start.
StartIsNamed == status = "started" => module.functions[StartFunction + 1].name = "START"
=============================================================================
