SPECIFICATION TextSpec
CHECK_DEADLOCK FALSE
CONSTANTS
  KEY_ID_SIZE = 2
  U32_MAX = 255
  U32_DIGITS = 2
  U16_MAX = 15
  Characters <- MCCharacters
  Wide = {"2-byte"}
  Continuation = "of 2-byte"
  Texts <- MCTexts
INVARIANTS
  PrintedIsReadBack
  ReadIsWhatItSpells
