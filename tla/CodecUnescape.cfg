SPECIFICATION ComputeSpec
CONSTANTS
  Chars <- TellingChars
  MaxLength = 3
  MaxNumber = 0
  Scales = {}
  encrypt_state <- Encipher
  decrypt_state <- Decipher
  key_size = 16
  Messages <- NoMessages
  WRONG_ANSWER <- MinusOne
  CPU_TIME_LIMIT_EXCEEDED = 1
  REAL_TIME_LIMIT_EXCEEDED = 2
  MEMORY_LIMIT_EXCEEDED = 3
  RUNTIME_ERROR = 4
  SYSTEM_ERROR = 5
INVARIANTS
  OnlyNewlinesUnescaped
CHECK_DEADLOCK FALSE
