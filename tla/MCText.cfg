SPECIFICATION Spec
CONSTANTS
  WIDE = 2
  CELLS = 7
  Alphabet = {65, 97, 98}
  MaxLen = 3
  MaxLine = 6
  MAX_ARGS = 3
  WORD = 256
  Widths = {0, 4}
  Sizes = {0, 1, 3, 4, 12}
  BYTE = 16
  BLOCK = 8
  LENGTH = 2
  MaxData = 20
INVARIANTS MemoryExact StringsAgree LinesSplit FormatFits NumbersParse PaddingExact
