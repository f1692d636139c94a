\* Is the last group of three bytes encoded?
SPECIFICATION Spec
CONSTANTS
  Bytes <- Up7
  FILE_MAX_SIZE = 5
  FORMAT_LENGTH = 2
INVARIANT ThreeBytesFourLetters
