\* Images and compressed images of 0 to 7 bytes, compressed from 6 bytes on.
SPECIFICATION Spec
CONSTANTS
  Bytes <- Up7
  FILE_MAX_SIZE = 5
  FORMAT_LENGTH = 2
INVARIANTS IconTypeOK NoOverrun TextOfData TypeOfData
PROPERTY RecognisedGetsText
