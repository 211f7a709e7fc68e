SPECIFICATION ComputeSpec
CONSTANTS
  Chars <- TellingChars
  MaxLength = 3
  MaxNumber = 12
  Scales <- BlockEdges
  encrypt_state <- Encipher
  decrypt_state <- Decipher
  key_size = 16
  Messages <- ShortMessages
  WRONG_ANSWER <- MinusOne
  CPU_TIME_LIMIT_EXCEEDED = 1
  REAL_TIME_LIMIT_EXCEEDED = 2
  MEMORY_LIMIT_EXCEEDED = 3
  RUNTIME_ERROR = 4
  SYSTEM_ERROR = 5
INVARIANTS
  TypeOK
  ProgramArrives
  PointArrives
  SizeArrives
  TokensReadBack
  PublishedAnswers
  TablesFit
  ScanTypeOK
  ScanComputesResult
  ColumnsAgree
CHECK_DEADLOCK FALSE
