----------------------------- MODULE MCDecoder -----------------------------
(***************************************************************************)
(* The layers of the decoder side by side: the initial state chooses one   *)
(* of them, and the others rest in an initial state of theirs.             *)
(*   "bits"     Bitstream, with bytes of two bits                          *)
(*   "fields"   Bitstream, with buffers longer than a double word, so that *)
(*              variable bit rate fields overflow it                       *)
(*   "records"  Records                                                    *)
(*   "abbrevs"  Abbrevs                                                    *)
(***************************************************************************)
EXTENDS Bitstream

CONSTANTS
  Numbers,    \* the numbers records hold, of two words of two bits
  BlockIds,   \* the block ids with abbreviations
  MaxOps,     \* operands of an abbreviation
  MaxAbbrevs, \* abbreviations defined in all
  MaxRecords  \* records read in all that allocate

VARIABLES
  layer,
  field_data, field_data_len, field_bs, field_out,
  abbrev, values, fields, pos, reader, n, last, status,
  mem, alloc, map, locals, block_id, reading, content, appended, defined, records

fieldVars  == <<field_data, field_data_len, field_bs, field_out>>
recordVars == <<abbrev, values, fields, pos, reader, n, last, status>>
abbrevVars == <<mem, alloc, map, locals, block_id, reading, content, appended, defined, records>>
allVars    == <<layer, vars, fieldVars, recordVars, abbrevVars>>

Field == INSTANCE Bitstream WITH
           ByteBits <- 1, WordBytes <- 2, MaxLen <- 8, VbrWidths <- {2}, MaxSeek <- 9,
           data <- field_data, data_len <- field_data_len, bs <- field_bs, out <- field_out

Rec == INSTANCE Records WITH
         WordBits <- 2, LengthBits <- 2, MaxScalars <- 1, MaxArray <- 2, MaxBlob <- 4

Abb == INSTANCE Abbrevs

ASSUME DecoderAssumption ==
  WidthsAssumption /\ Field!WidthsAssumption /\ Rec!NumbersAssumption /\ Abb!AbbrevsAssumption

BitsRest    == data = {} /\ data_len = 0 /\ bs = NewStream /\ out = <<<<"init">>>>
FieldsRest  == /\ field_data = {} /\ field_data_len = 0
               /\ field_bs = Field!NewStream /\ field_out = <<<<"init">>>>
RecordsRest == /\ abbrev = <<>> /\ values = <<0>>
               /\ fields = <<Rec!Vbr6(0), Rec!Vbr6(0), Rec!Abbrev(1)>> /\ Rec!AtStart

DecoderInit ==
  \/ layer = "bits"    /\ Init /\ FieldsRest /\ RecordsRest /\ Abb!Init
  \/ layer = "fields"  /\ BitsRest /\ Field!Init /\ RecordsRest /\ Abb!Init
  \/ layer = "records" /\ BitsRest /\ FieldsRest /\ Rec!Init    /\ Abb!Init
  \/ layer = "abbrevs" /\ BitsRest /\ FieldsRest /\ RecordsRest /\ Abb!Init

DecoderNext ==
  \/ layer = "bits" /\ Next /\ UNCHANGED <<layer, fieldVars, recordVars, abbrevVars>>
  \/ layer = "fields" /\ Field!Next /\ UNCHANGED <<layer, vars, recordVars, abbrevVars>>
  \/ layer = "records" /\ Rec!Next /\ UNCHANGED <<layer, vars, fieldVars, abbrevVars>>
  \/ layer = "abbrevs" /\ Abb!Next /\ UNCHANGED <<layer, vars, fieldVars, recordVars>>

DecoderSpec == DecoderInit /\ [][DecoderNext]_allVars

-----------------------------------------------------------------------------
(* The properties of the layers, as their modules state them: WordIsNext   *)
(* and ImplementsCursor of Bitstream, and these.                           *)

\* Fields that are longer than a double word, or that the buffer cuts off, are read or
\* refused as the plain cursor does.
FieldsRead == Field!ImplementsCursor

\* The k-th value a caller of pn_record.h reads is the k-th value written;
\* num_values_left counts what is left and finish ends at the next entry.  Only an empty
\* array and the end of a blob, a blob whose length goes on in another word and a blob
\* whose length six bits do not hold make the reader lose its place.
ValuesAsWritten ==
  Rec!TypeOK /\ Rec!ValuesAsWritten /\ Rec!LeftIsLeft /\ Rec!LostOnlyPastTheTail

\* pn_abbrev.h: every abbreviation of every list reads back as it was defined, and the
\* allocator refuses to grow a list only when blockinfo returns to a block id, or when a
\* block's own records have allocated since.
AbbrevsIntact == Abb!OpsIntact /\ Abb!RefusedOnlyWhenOvertaken
=============================================================================
