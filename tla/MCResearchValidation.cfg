CONSTANTS
  Symbols <- MCSymbols
  Upper <- MCUpper
  Empty = ""
  Entries <- MCValidationEntries
  Docs <- MCDocs
  CMCDocs = {}
  Nodes = {n1, n2}
  CMCModes = {FALSE}
SPECIFICATION Spec
INVARIANT ProviderMappingServed
