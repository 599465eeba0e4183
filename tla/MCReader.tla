----------------------------- MODULE MCReader -----------------------------
(***************************************************************************)
(* Everything that reads the file side by side: the layers of MCDecoder,   *)
(* down from the bits to the abbreviations, and above them the loader,     *)
(* layer "module".                                                         *)
(***************************************************************************)
EXTENDS MCDecoder

VARIABLES
  file, at, module, memory, blocks, function_id, load_count, first, given, phase

loaderVars == <<file, at, module, memory, blocks, function_id, load_count, first, given, phase>>
readerVars == <<allVars, loaderVars>>

Load == INSTANCE Loader WITH
          GuardSize <- 2, PageSize <- 8, MemorySizes <- {8, 40}, WordBytes <- 2,
          MaxBuiltins <- 3, RepeatLoads <- 2, locals <- blocks, status <- phase

ASSUME ReaderAssumption == Load!LoaderAssumption

\* The loader before an empty file.
LoaderRest ==
  /\ file = Load!FileOf(<<>>, <<FALSE>>, 0, <<>>, 0) /\ at = 1
  /\ module = Load!EmptyModule(Load!INVALID)
  /\ memory = Load!NewMemory(0, <<>>)
  /\ blocks = Load!NoLocals /\ function_id = 0 /\ load_count = 0
  /\ first = <<>> /\ given = <<<<>>, <<>>>> /\ phase = "read"

ReaderInit ==
  \/ DecoderInit /\ LoaderRest
  \/ layer = "module" /\ BitsRest /\ FieldsRest /\ RecordsRest /\ Abb!Init /\ Load!Init

ReaderNext ==
  \/ DecoderNext /\ UNCHANGED loaderVars
  \/ layer = "module" /\ Load!Next /\ UNCHANGED allVars

ReaderSpec == ReaderInit /\ [][ReaderNext]_readerVars

-----------------------------------------------------------------------------
(* The properties of the layers are those of MCDecoder, and these of the   *)
(* loader.                                                                 *)

\* The loader's state has its types, and the file is loaded RepeatLoads times and no more.
LoaderTypeOK == Load!TypeOK

\* pn_globalvar_block_read: in the memory of a loaded module every initializer of every
\* variable is found at its place, relocations to earlier and later variables with their
\* final addresses, and neither start info nor PPAPI tables overwrite them.
GlobalsAsWritten == Load!GlobalsAsWritten

\* pn_module_block_read: every function that is not a prototype has the body of its
\* position among them, and no prototype has one.
BodiesMatch == Load!BodiesMatch

\* --repeat-load: a load into the module and memory that were reset gives what the first
\* load gave.
ReloadSame == Load!ReloadSame

\* pn_memory_init_startinfo: the guest finds every argument and environment string whole
\* where the table in front of them says.
StartinfoReads == Load!StartinfoReads
=============================================================================
