SPECIFICATION MCSpec
CONSTANTS
  WordBits = 7
  DigitBits = 2
  NarrowBits = 3
  Scalars = {1, 2}
  SchemaOf <- MCSchemaOf
  VERSION = 1
  Fingerprint = 127
  Entries <- MCEntries
  EncEntry <- EncEntryPayload
  DecEntry <- DecEntryPayload
  MaxRecords = 3
  MaxGap = 4
  MaxBytes = 5
  MAX_TY_DEPTH = 2
  Dims = {"2"}
  ReadTy <- TyText
  WriteTy <- TyRender
  LegalText <- MCLegalText
  LowerOf <- MCLowerOf
  Contract <- MCContract
  Lines <- SnapshotLines
  MaxLines = 5
  Modulus = 16
  Inputs <- MCInputs
  MaxTicks = 5
  MaxEvents = 6
  Chars <- MCChars
  MaxChars = 3
  MaxDepth = 2
INVARIANTS ScanExact NumbersExact ValuesReturn SnapshotReadWhole ValidMeansCallable
INVARIANTS IncrementalAgrees TypestateFollows NeverMisread StringsAreTexts TextsDetermine
PROPERTY VerdictIsFinal
CHECK_DEADLOCK FALSE
