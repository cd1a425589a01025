CONSTANTS
  Keys <- PlainKeys
  Files <- MCFiles
  FileOf <- MCFileOf
  KeyOf <- MCKeyOf
  MaxSeq = 5
  WriteKey <- MCWriteKey
  Torn = Torn
  MaxCrashes = 2
  MaxIoErrors = 2
  Alphabet <- Runes
  MaxLen = 5
SPECIFICATION StoreAndNames
INVARIANTS TypeOK AckedSurvives MemoryOnDisk LastSeqIsMax RestoredUnlessMangled
CHECK_DEADLOCK FALSE
