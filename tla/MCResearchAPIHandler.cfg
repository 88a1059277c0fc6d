CONSTANTS
  Symbols <- MCSymbols
  Upper <- MCUpper
  Empty = ""
  Entries <- MCEntries
  Docs <- MCDocs
  CMCDocs <- MCDocsWithCMCIds
  Nodes = {n1, n2}
  CMCModes = {FALSE, TRUE}
SPECIFICATION Spec
INVARIANTS TypeOK MatchesReference
