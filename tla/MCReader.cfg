SPECIFICATION ReaderSpec
CONSTANTS
  ByteBits = 2
  WordBytes = 2
  MaxLen = 4
  VbrWidths = {2, 4}
  MaxSeek = 9
  Numbers = {0, 1, 15}
  BlockIds = {12, 14, 19}
  MaxOps = 2
  MaxAbbrevs = 3
  MaxRecords = 1
INVARIANTS
  WordIsNext
  ValuesAsWritten
  AbbrevsIntact
  LoaderTypeOK
  GlobalsAsWritten
  BodiesMatch
  ReloadSame
  StartinfoReads
PROPERTIES
  ImplementsCursor
  FieldsRead
