\* A program may stop calling the library.
CHECK_DEADLOCK FALSE
SPECIFICATION ClibSpec
CONSTANTS
  ORG = 10
  END = 58
  Sizes = {1, 9, 65521, 65530, 65532}
  Alignments = {6, 16}
  MaxBlocks = 3
  Calls <- InCalls
  Clocks <- InClocks
  Zones <- InZones
  Formats <- InFormats
  Buffers = {0, 1, 2, 25, 26, 40}
  Texts <- InTexts
  Chars = {"x", "1"}
  Offsets <- InOffsets
  Lines = {0, 1, 2, 3}
  MaxLength = 3
  Alphabet <- InAlphabet
  Scans <- InScans
  Inputs <- InInputs
  Probes <- InProbes
INVARIANTS HeapSound TimeIsRight FormatFits ScanMeansFormat
PROPERTIES StreamSpec
