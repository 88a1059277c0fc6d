CONSTANTS
  Symbols <- MCSymbols
  Upper <- MCUpper
  Empty = ""
  Entries <- MCEntries
  Docs = {}
  CMCDocs <- MCMissingCMCIdDocs
  Nodes = {n1, n2}
  CMCModes = {TRUE}
SPECIFICATION Spec
INVARIANTS MatchesReference
