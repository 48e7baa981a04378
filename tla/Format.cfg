\* Every format of four of nine characters (three on the line) and some longer
\* ones, buffers of up to five bytes, every string of four characters for strtoul.
CONSTANTS
  FormatLength = 4
  ScanLength = 4
  Formats <- MCFormats
  LineFormats <- MCLineFormats
  Scanned <- MCScanned
  Sizes = {0, 1, 2, 3, 5}
  NONE = NONE
  STRAY = STRAY
  MaxStrays = 2
  MaxSize = 12
  LongBits = 7
  IntBits = 5
  StrArgs <- MCStrArgs
  CharArgs = {99}
SPECIFICATION Spec
INVARIANTS
  TextIsCut
  WritesInside
  StaysInFormat
  LineCarriesText
  ScansNumerals
  NumbersReadBack
