CONSTANTS
  Symbols <- MCSymbols
  Upper <- MCUpper
  Empty = ""
  Entries <- MCValidationEntries
  Docs <- MCInvalidDocs
  CMCDocs = {}
  Nodes = {n1, n2}
  CMCModes = {FALSE}
SPECIFICATION Spec
INVARIANTS ConvertedMarketsValid
